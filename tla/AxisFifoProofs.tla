--------------------------- MODULE AxisFifoProofs ---------------------------
(***************************************************************************)
(* What one clock edge does to a FIFO, for every depth and content.        *)
(***************************************************************************)
EXTENDS AxisFifo, Functions, TLAPS

(* Leaves may take longer than the default limit among so many facts. *)
USE SMTT(30)

(* Words in the memory, and in output register j. *)
MemLen(f)    == Len(f.mem)
RegLen(f, j) == Len(f.pipe[j])

(* A slot is a sequence of length 0 or 1. *)
LEMMA SlotIsSeq ==
  ASSUME NEW D, NEW s \in Slot(D)
  PROVE  /\ s \in Seq(D)
         /\ Len(s) \in Nat /\ Len(s) <= 1
         /\ s = <<>> <=> Len(s) = 0
         /\ s # <<>> => Len(s) = 1 /\ s[1] \in D /\ s = <<s[1]>>
<1>1. CASE s = <<>>
  BY <1>1
<1>2. CASE s # <<>>
  <2>1. PICK d \in D : s = <<d>>
    BY <1>2 DEF Slot
  <2>2. Len(<<d>>) = 1 /\ <<d>>[1] = d /\ <<d>> \in Seq(D)
    OBVIOUS
  <2> QED  BY <2>1, <2>2
<1> QED  BY <1>1, <1>2

(* The output register chain is a sequence of `stages' slots. *)
LEMMA PipeLen ==
  ASSUME NEW D, NEW depth, NEW stages \in Nat \ {0}, NEW f,
         IsFifo(f, D, depth, stages)
  PROVE  Len(f.pipe) = stages /\ DOMAIN f.pipe = 1..stages
<1>1. f.pipe \in [1..stages -> Slot(D)]  BY DEF IsFifo
<1>2. f.pipe \in Seq(Slot(D))  BY <1>1
<1> QED  BY <1>1, <1>2

(* A clock edge keeps the FIFO well formed and within its depth. *)
LEMMA ClockType ==
  ASSUME NEW D, NEW depth \in Nat, NEW stages \in Nat \ {0}, NEW f,
         IsFifo(f, D, depth, stages),
         NEW in \in Slot(D), NEW tready \in BOOLEAN
  PROVE  IsFifo(Clock(f, depth, in, tready), D, depth, stages)
<1> DEFINE g    == Clock(f, depth, in, tready)
           load == Advances(f, 1, tready) /\ f.mem # <<>>
           rest == IF load THEN Tail(f.mem) ELSE f.mem
           add  == IF TReady(f, depth) THEN in ELSE <<>>
<1>1. /\ f.mem \in Seq(D) /\ Len(f.mem) \in Nat /\ Len(f.mem) <= depth
      /\ f.pipe \in [1..stages -> Slot(D)]
  BY DEF IsFifo
<1>2. /\ g.mem = rest \o add
      /\ g.pipe = [j \in DOMAIN f.pipe |->
                   IF ~Advances(f, j, tready) THEN f.pipe[j]
                   ELSE IF j > 1 THEN f.pipe[j-1]
                   ELSE IF load THEN <<Head(f.mem)>> ELSE <<>>]
      /\ g = [mem |-> g.mem, pipe |-> g.pipe]
  BY ZenonT(30) DEF Clock
<1>3. rest \in Seq(D) /\ Len(rest) \in Nat /\ Len(rest) <= Len(f.mem)
  BY <1>1
<1>4. \/ add = <<>>
      \/ add = in /\ Len(f.mem) < depth
  BY DEF TReady
<1>5. load => f.mem # <<>>
  OBVIOUS
<1> HIDE DEF g, load, rest, add
<1>6. g.mem \in Seq(D) /\ Len(g.mem) <= depth
  <2>1. add \in Seq(D) /\ Len(add) \in Nat /\ Len(f.mem) + Len(add) <= depth
    <3>1. in \in Seq(D) /\ Len(in) \in Nat /\ Len(in) <= 1  BY SlotIsSeq
    <3>2. <<>> \in Seq(D) /\ Len(<<>>) = 0  OBVIOUS
    <3>3. CASE add = <<>>  BY <3>3, <3>2, <1>1
    <3>4. CASE add = in /\ Len(f.mem) < depth  BY <3>4, <3>1, <1>1
    <3> QED  BY <1>4, <3>3, <3>4
  <2>2. rest \o add \in Seq(D) /\ Len(rest \o add) = Len(rest) + Len(add)
    BY <1>3, <2>1
  <2> QED  BY <1>1, <1>2, <1>3, <2>1, <2>2
<1>7. g.pipe \in [1..stages -> Slot(D)]
  <2>1. DOMAIN f.pipe = 1..stages  BY <1>1
  <2>2. f.mem # <<>> => <<Head(f.mem)>> \in Slot(D)  BY <1>1 DEF Slot
  <2>3. <<>> \in Slot(D)  BY DEF Slot
  <2>4. ASSUME NEW j \in 1..stages
        PROVE  (IF ~Advances(f, j, tready) THEN f.pipe[j]
                ELSE IF j > 1 THEN f.pipe[j-1]
                ELSE IF load THEN <<Head(f.mem)>> ELSE <<>>) \in Slot(D)
    BY <1>1, <1>5, <2>2, <2>3
  <2> QED  BY <1>2, <2>1, <2>4
<1> QED  BY ZenonT(30), <1>2, <1>6, <1>7 DEF IsFifo, g

(* The memory's length after an edge is r + a, where r counts the words    *)
(* that stay and a the word written.                                       *)
LEMMA ClockMemLen ==
  ASSUME NEW D, NEW depth \in Nat, NEW stages \in Nat \ {0}, NEW f,
         IsFifo(f, D, depth, stages),
         NEW in \in Slot(D), NEW tready \in BOOLEAN
  PROVE  \E r, a \in Nat :
           /\ MemLen(Clock(f, depth, in, tready)) = r + a
           /\ Advances(f, 1, tready) /\ f.mem # <<>> => r = MemLen(f) - 1
           /\ ~Advances(f, 1, tready) \/ f.mem = <<>> => r = MemLen(f)
           /\ TReady(f, depth) => a = Len(in)
           /\ ~TReady(f, depth) => a = 0
<1> DEFINE load == Advances(f, 1, tready) /\ f.mem # <<>>
           rest == IF load THEN Tail(f.mem) ELSE f.mem
           add  == IF TReady(f, depth) THEN in ELSE <<>>
<1>1. f.mem \in Seq(D) /\ in \in Seq(D)
  BY SlotIsSeq DEF IsFifo
<1>2. rest \in Seq(D) /\ add \in Seq(D)
  BY <1>1
<1>3. load => Len(rest) = MemLen(f) - 1
  BY <1>1 DEF MemLen
<1>4. ~load => Len(rest) = MemLen(f)
  BY <1>1 DEF MemLen
<1>5. TReady(f, depth) => Len(add) = Len(in)
  OBVIOUS
<1>6. ~TReady(f, depth) => Len(add) = 0
  OBVIOUS
<1>7. Clock(f, depth, in, tready).mem = rest \o add
  BY ZenonT(30) DEF Clock
<1> HIDE DEF rest, add
<1>8. MemLen(Clock(f, depth, in, tready)) = Len(rest) + Len(add)
  BY <1>2, <1>7 DEF MemLen
<1>9. Len(rest) \in Nat /\ Len(add) \in Nat
  BY <1>2
<1> WITNESS Len(rest) \in Nat, Len(add) \in Nat
<1> QED  BY <1>3, <1>4, <1>5, <1>6, <1>8

(* The length of an output register is its valid bit. *)
LEMMA RegLenType ==
  ASSUME NEW D, NEW depth, NEW stages \in Nat \ {0}, NEW f,
         IsFifo(f, D, depth, stages), NEW j \in 1..stages
  PROVE  /\ RegLen(f, j) \in Nat
         /\ f.pipe[j] = <<>> => RegLen(f, j) = 0
         /\ f.pipe[j] # <<>> => RegLen(f, j) = 1
<1>1. f.pipe[j] \in Slot(D)
  BY DEF IsFifo
<1> QED  BY <1>1, SlotIsSeq DEF RegLen

LEMMA MemLenType ==
  ASSUME NEW D, NEW depth, NEW stages, NEW f, IsFifo(f, D, depth, stages)
  PROVE  MemLen(f) \in Nat /\ (MemLen(f) = 0 <=> f.mem = <<>>)
BY DEF IsFifo, MemLen

(***************************************************************************)
(* What the library of finite sets proves about cardinalities. The lemmas  *)
(* take it as a hypothesis: the modules with the theorems discharge it at  *)
(* their end, where that library, whose statements slow every other leaf   *)
(* down, is in reach.                                                      *)
(***************************************************************************)
SetsCount ==
  /\ IsFiniteSet({}) /\ Cardinality({}) = 0
  /\ \A S : IsFiniteSet(S) => Cardinality(S) \in Nat /\ (Cardinality(S) = 0 => S = {})
  /\ \A x : IsFiniteSet({x}) /\ Cardinality({x}) = 1
  /\ \A S, x : IsFiniteSet(S) =>
       /\ IsFiniteSet(S \cup {x})
       /\ Cardinality(S \cup {x}) = IF x \in S THEN Cardinality(S) ELSE Cardinality(S) + 1
       /\ IsFiniteSet(S \ {x})
       /\ Cardinality(S \ {x}) = IF x \in S THEN Cardinality(S) - 1 ELSE Cardinality(S)
  /\ \A a, b \in Int : IsFiniteSet(a..b)
                       /\ Cardinality(a..b) = IF a > b THEN 0 ELSE b - a + 1
  /\ \A S, T : IsFiniteSet(S) /\ T \in SUBSET S =>
       IsFiniteSet(T) /\ Cardinality(T) <= Cardinality(S)
  /\ \A S, T : IsFiniteSet(S) /\ ExistsBijection(S, T) => Cardinality(T) = Cardinality(S)
  /\ \A S, T, f : IsFiniteSet(T) /\ f \in Injection(S, T) => Cardinality(S) <= Cardinality(T)

LEMMA CountEmpty ==
  ASSUME SetsCount
  PROVE  IsFiniteSet({}) /\ Cardinality({}) = 0
BY DEF SetsCount

LEMMA CountType ==
  ASSUME SetsCount, NEW S, IsFiniteSet(S)
  PROVE  Cardinality(S) \in Nat /\ (Cardinality(S) = 0 => S = {})
BY Zenon DEF SetsCount

LEMMA CountSingleton ==
  ASSUME SetsCount
  PROVE  \A x : IsFiniteSet({x}) /\ Cardinality({x}) = 1
BY Zenon DEF SetsCount

LEMMA CountAdd ==
  ASSUME SetsCount, NEW S, NEW x, IsFiniteSet(S)
  PROVE  /\ IsFiniteSet(S \cup {x})
         /\ Cardinality(S \cup {x}) = IF x \in S THEN Cardinality(S) ELSE Cardinality(S) + 1
BY Zenon DEF SetsCount

LEMMA CountRemove ==
  ASSUME SetsCount, NEW S, NEW x, IsFiniteSet(S)
  PROVE  /\ IsFiniteSet(S \ {x})
         /\ Cardinality(S \ {x}) = IF x \in S THEN Cardinality(S) - 1 ELSE Cardinality(S)
BY Zenon DEF SetsCount

LEMMA CountInterval ==
  ASSUME SetsCount, NEW a \in Int, NEW b \in Int
  PROVE  IsFiniteSet(a..b) /\ Cardinality(a..b) = IF a > b THEN 0 ELSE b - a + 1
BY Zenon DEF SetsCount

LEMMA CountSubset ==
  ASSUME SetsCount, NEW S, IsFiniteSet(S), NEW T \in SUBSET S
  PROVE  IsFiniteSet(T) /\ Cardinality(T) <= Cardinality(S)
BY Zenon DEF SetsCount

LEMMA CountBijection ==
  ASSUME SetsCount, NEW S, NEW T, IsFiniteSet(S), ExistsBijection(S, T)
  PROVE  Cardinality(T) = Cardinality(S)
BY Zenon DEF SetsCount

LEMMA CountInjection ==
  ASSUME SetsCount, NEW S, NEW T, NEW f \in Injection(S, T), IsFiniteSet(T)
  PROVE  Cardinality(S) <= Cardinality(T)
BY Zenon DEF SetsCount

(* Occupancy with one output register, and with two. *)
LEMMA OccupancyOne ==
  ASSUME SetsCount, NEW D, NEW depth, NEW f, IsFifo(f, D, depth, 1)
  PROVE  Occupancy(f) = MemLen(f) + RegLen(f, 1)
<1> DEFINE V == {j \in DOMAIN f.pipe : f.pipe[j] # <<>>}
<1>1. DOMAIN f.pipe = 1..1
  BY DEF IsFifo
<1>2. /\ f.pipe[1] = <<>> => RegLen(f, 1) = 0
      /\ f.pipe[1] # <<>> => RegLen(f, 1) = 1
  BY RegLenType
<1>3. Cardinality(V) = RegLen(f, 1)
  <2>1. CASE f.pipe[1] = <<>>
    <3>1. V = {}  BY <1>1, <2>1
    <3>2. Cardinality(V) = 0  BY ZenonT(30), <3>1, CountEmpty
    <3> QED  BY <1>2, <2>1, <3>2
  <2>2. CASE f.pipe[1] # <<>>
    <3>1. V = {1}  BY <1>1, <2>2
    <3>2. Cardinality(V) = 1  BY ZenonT(30), <3>1, CountSingleton
    <3> QED  BY <1>2, <2>2, <3>2
  <2> QED  BY <2>1, <2>2
<1> QED  BY <1>3 DEF Occupancy, MemLen

LEMMA OccupancyTwo ==
  ASSUME SetsCount, NEW D, NEW depth, NEW f, IsFifo(f, D, depth, 2)
  PROVE  Occupancy(f) = MemLen(f) + (RegLen(f, 1) + RegLen(f, 2))
<1> DEFINE V == {j \in DOMAIN f.pipe : f.pipe[j] # <<>>}
<1>1. DOMAIN f.pipe = 1..2
  BY DEF IsFifo
<1>2. /\ f.pipe[1] = <<>> => RegLen(f, 1) = 0
      /\ f.pipe[1] # <<>> => RegLen(f, 1) = 1
      /\ f.pipe[2] = <<>> => RegLen(f, 2) = 0
      /\ f.pipe[2] # <<>> => RegLen(f, 2) = 1
  BY RegLenType
<1>3. Cardinality(V) = RegLen(f, 1) + RegLen(f, 2)
  <2>1. CASE f.pipe[1] = <<>> /\ f.pipe[2] = <<>>
    <3>1. V = {}  BY <1>1, <2>1
    <3>2. Cardinality(V) = 0  BY ZenonT(30), <3>1, CountEmpty
    <3> QED  BY <1>2, <2>1, <3>2
  <2>2. CASE f.pipe[1] # <<>> /\ f.pipe[2] = <<>>
    <3>1. V = {1}  BY <1>1, <2>2
    <3>2. Cardinality(V) = 1  BY <3>1, CountSingleton
    <3> QED  BY <1>2, <2>2, <3>2
  <2>3. CASE f.pipe[1] = <<>> /\ f.pipe[2] # <<>>
    <3>1. V = {2}  BY <1>1, <2>3
    <3>2. Cardinality(V) = 1  BY ZenonT(30), <3>1, CountSingleton
    <3> QED  BY <1>2, <2>3, <3>2
  <2>4. CASE f.pipe[1] # <<>> /\ f.pipe[2] # <<>>
    <3>1. V = {1} \cup {2}  BY <1>1, <2>4
    <3>2. IsFiniteSet({1}) /\ Cardinality({1}) = 1  BY CountSingleton
    <3>3. Cardinality({1} \cup {2}) = 2  BY <3>2, CountAdd
    <3>4. Cardinality(V) = 2  BY ZenonT(30), <3>1, <3>3
    <3> QED  BY <1>2, <2>4, <3>4
  <2> QED  BY <2>1, <2>2, <2>3, <2>4
<1> QED  BY <1>3 DEF Occupancy, MemLen

(* The words that one edge adds to a FIFO, and that it takes out. *)
Written(f, depth, in) == IF TReady(f, depth) THEN Len(in) ELSE 0
Read(f, tready) == IF TValid(f) /\ tready THEN 1 ELSE 0

(* A FIFO with one output register: what an edge does to its occupancy,    *)
(* and when its output is valid afterwards.                                *)
LEMMA ClockOne ==
  ASSUME SetsCount, NEW D, NEW depth \in Nat, NEW f, IsFifo(f, D, depth, 1),
         NEW in \in Slot(D), NEW tready \in BOOLEAN
  PROVE  /\ Occupancy(Clock(f, depth, in, tready)) = Occupancy(f) + Written(f, depth, in) - Read(f, tready)
         /\ TValid(Clock(f, depth, in, tready)) <=>
               \/ TValid(f) /\ ~tready
               \/ f.mem # <<>>
         /\ in = <<>> => MemLen(Clock(f, depth, in, tready)) <= MemLen(f)
<1> DEFINE g == Clock(f, depth, in, tready)
<1>1. f.pipe \in [1..1 -> Slot(D)] /\ Len(f.pipe) = 1
  BY PipeLen DEF IsFifo
<1>2. IsFifo(g, D, depth, 1)
  BY ClockType
<1>3. Len(g.pipe) = 1
  <2> HIDE DEF g
  <2>1. g.pipe \in [1..1 -> Slot(D)]  BY <1>2 DEF IsFifo
  <2> QED  BY <2>1
<1>4. Advances(f, 1, tready) <=> tready \/ f.pipe[1] = <<>>
  BY <1>1 DEF Advances
<1>5. g.pipe[1] = IF ~Advances(f, 1, tready) THEN f.pipe[1]
                  ELSE IF f.mem # <<>> THEN <<Head(f.mem)>> ELSE <<>>
  BY <1>1 DEF Clock
<1>6. /\ TValid(f) <=> f.pipe[1] # <<>>
      /\ TValid(g) <=> g.pipe[1] # <<>>
  BY <1>1, <1>3 DEF TValid
<1>7. TValid(g) <=> \/ TValid(f) /\ ~tready
                    \/ f.mem # <<>>
  BY <1>4, <1>5, <1>6
<1>8. /\ RegLen(f, 1) = IF TValid(f) THEN 1 ELSE 0
      /\ RegLen(g, 1) = IF TValid(g) THEN 1 ELSE 0
  BY <1>2, <1>6, RegLenType
<1>9. /\ Occupancy(f) = MemLen(f) + RegLen(f, 1)
      /\ Occupancy(g) = MemLen(g) + RegLen(g, 1)
  BY <1>2, OccupancyOne
<1>10. PICK r \in Nat, a \in Nat :
         /\ MemLen(g) = r + a
         /\ Advances(f, 1, tready) /\ f.mem # <<>> => r = MemLen(f) - 1
         /\ ~Advances(f, 1, tready) \/ f.mem = <<>> => r = MemLen(f)
         /\ TReady(f, depth) => a = Len(in)
         /\ ~TReady(f, depth) => a = 0
  BY ClockMemLen
<1>11. Len(in) \in Nat /\ (in = <<>> => Len(in) = 0) /\ MemLen(f) \in Nat
  BY SlotIsSeq, MemLenType
<1> HIDE DEF g
<1>12. MemLen(g) + RegLen(g, 1) = MemLen(f) + RegLen(f, 1) + a
             - (IF TValid(f) /\ tready THEN 1 ELSE 0)
  <2>1. MemLen(g) = r + a
    BY <1>10
  <2>2. CASE Advances(f, 1, tready) /\ f.mem # <<>>
    <3>1. TValid(g) /\ (~TValid(f) \/ tready)  BY <2>2, <1>4, <1>6, <1>7
    <3>2. r = MemLen(f) - 1  BY <2>2, <1>10
    <3> QED  BY <2>1, <3>1, <3>2, <1>8, <1>11
  <2>3. CASE Advances(f, 1, tready) /\ f.mem = <<>>
    <3>1. ~TValid(g) /\ (~TValid(f) \/ tready)  BY <2>3, <1>4, <1>6, <1>7
    <3>2. r = MemLen(f)  BY <2>3, <1>10
    <3> QED  BY <2>1, <3>1, <3>2, <1>8, <1>11
  <2>4. CASE ~Advances(f, 1, tready)
    <3>1. TValid(g) /\ TValid(f) /\ ~tready  BY <2>4, <1>4, <1>6, <1>7
    <3>2. r = MemLen(f)  BY <2>4, <1>10
    <3> QED  BY <2>1, <3>1, <3>2, <1>8, <1>11
  <2> QED  BY <2>2, <2>3, <2>4
<1>13. /\ Written(f, depth, in) = a
       /\ Read(f, tready) = IF TValid(f) /\ tready THEN 1 ELSE 0
  BY <1>10 DEF Written, Read
<1>14. in = <<>> => MemLen(g) <= MemLen(f)
  BY <1>10, <1>11
<1> QED  BY <1>7, <1>9, <1>12, <1>13, <1>14 DEF g

(* The same with two output registers, for the occupancy; the lemma before *)
(* it is the arithmetic, x and y being the valid bits before and after.    *)
LEMMA TwoRegisters ==
  ASSUME NEW tready \in BOOLEAN, NEW m \in Nat, NEW r \in Nat,
         NEW x1 \in 0..1, NEW x2 \in 0..1, NEW y1 \in 0..1, NEW y2 \in 0..1,
         (tready \/ x1 = 0 \/ x2 = 0) /\ m > 0 => y1 = 1 /\ r = m - 1,
         (tready \/ x1 = 0 \/ x2 = 0) /\ m = 0 => y1 = 0 /\ r = m,
         ~(tready \/ x1 = 0 \/ x2 = 0) => y1 = x1 /\ r = m,
         tready \/ x2 = 0 => y2 = x1,
         ~(tready \/ x2 = 0) => y2 = x2
  PROVE  r + (y1 + y2) = m + (x1 + x2) - (IF x2 = 1 /\ tready THEN 1 ELSE 0)
OBVIOUS

LEMMA ClockTwo ==
  ASSUME SetsCount, NEW D, NEW depth \in Nat, NEW f, IsFifo(f, D, depth, 2),
         NEW in \in Slot(D), NEW tready \in BOOLEAN
  PROVE  Occupancy(Clock(f, depth, in, tready)) = Occupancy(f) + Written(f, depth, in) - Read(f, tready)
<1> DEFINE g == Clock(f, depth, in, tready)
<1>1. f.pipe \in [1..2 -> Slot(D)] /\ Len(f.pipe) = 2
  BY PipeLen DEF IsFifo
<1>2. IsFifo(g, D, depth, 2)
  BY ClockType
<1>3. /\ Advances(f, 1, tready) <=> tready \/ f.pipe[1] = <<>> \/ f.pipe[2] = <<>>
      /\ Advances(f, 2, tready) <=> tready \/ f.pipe[2] = <<>>
  <2>1. 1..2 = {1, 2} /\ 2..2 = {2}  OBVIOUS
  <2> QED  BY <1>1, <2>1 DEF Advances
<1>4. /\ g.pipe[1] = IF ~Advances(f, 1, tready) THEN f.pipe[1]
                     ELSE IF f.mem # <<>> THEN <<Head(f.mem)>> ELSE <<>>
      /\ g.pipe[2] = IF ~Advances(f, 2, tready) THEN f.pipe[2] ELSE f.pipe[1]
  BY <1>1 DEF Clock
<1>5. TValid(f) <=> f.pipe[2] # <<>>
  BY <1>1 DEF TValid
<1>6. PICK r \in Nat, a \in Nat :
         /\ MemLen(g) = r + a
         /\ Advances(f, 1, tready) /\ f.mem # <<>> => r = MemLen(f) - 1
         /\ ~Advances(f, 1, tready) \/ f.mem = <<>> => r = MemLen(f)
         /\ TReady(f, depth) => a = Len(in)
         /\ ~TReady(f, depth) => a = 0
  BY ClockMemLen
<1>7. /\ RegLen(f, 1) \in 0..1 /\ (f.pipe[1] = <<>> <=> RegLen(f, 1) = 0)
      /\ RegLen(f, 2) \in 0..1 /\ (f.pipe[2] = <<>> <=> RegLen(f, 2) = 0)
  BY RegLenType
<1>8. /\ RegLen(g, 1) \in 0..1 /\ (g.pipe[1] = <<>> <=> RegLen(g, 1) = 0)
      /\ RegLen(g, 2) \in 0..1 /\ (g.pipe[2] = <<>> <=> RegLen(g, 2) = 0)
  BY <1>2, RegLenType
<1>9. MemLen(f) \in Nat /\ (MemLen(f) = 0 <=> f.mem = <<>>)
  BY MemLenType
<1>10. /\ Occupancy(f) = MemLen(f) + (RegLen(f, 1) + RegLen(f, 2))
       /\ Occupancy(g) = MemLen(g) + (RegLen(g, 1) + RegLen(g, 2))
  BY <1>2, OccupancyTwo
<1> DEFINE m  == MemLen(f)
           x1 == RegLen(f, 1)
           x2 == RegLen(f, 2)
           y1 == RegLen(g, 1)
           y2 == RegLen(g, 2)
<1>11. /\ (tready \/ x1 = 0 \/ x2 = 0) <=> Advances(f, 1, tready)
       /\ (tready \/ x2 = 0) <=> Advances(f, 2, tready)
       /\ m = 0 <=> f.mem = <<>>
  BY <1>3, <1>7, <1>9
<1>12. /\ Advances(f, 1, tready) /\ f.mem # <<>> => y1 = 1
       /\ Advances(f, 1, tready) /\ f.mem = <<>> => y1 = 0
       /\ ~Advances(f, 1, tready) => y1 = x1
  BY <1>4, <1>7, <1>8
<1>13. /\ Advances(f, 2, tready) => y2 = x1
       /\ ~Advances(f, 2, tready) => y2 = x2
  BY <1>4, <1>7, <1>8
<1>14. /\ m \in Nat /\ x1 \in 0..1 /\ x2 \in 0..1 /\ y1 \in 0..1 /\ y2 \in 0..1
       /\ TValid(f) <=> x2 = 1
  BY <1>5, <1>7, <1>8, <1>9
<1> HIDE DEF g, m, x1, x2, y1, y2
<1>15. /\ (tready \/ x1 = 0 \/ x2 = 0) /\ m > 0 => y1 = 1 /\ r = m - 1
       /\ (tready \/ x1 = 0 \/ x2 = 0) /\ m = 0 => y1 = 0 /\ r = m
       /\ ~(tready \/ x1 = 0 \/ x2 = 0) => y1 = x1 /\ r = m
  BY <1>6, <1>11, <1>12, <1>14 DEF m
<1>16. /\ tready \/ x2 = 0 => y2 = x1
       /\ ~(tready \/ x2 = 0) => y2 = x2
  BY <1>11, <1>13
<1>17. r + (y1 + y2) = m + (x1 + x2) - (IF x2 = 1 /\ tready THEN 1 ELSE 0)
  BY <1>14, <1>15, <1>16, TwoRegisters
<1>18. /\ Written(f, depth, in) = a
       /\ Read(f, tready) = IF x2 = 1 /\ tready THEN 1 ELSE 0
  BY <1>6, <1>14 DEF Written, Read
<1>19. Occupancy(g) = (r + a) + (y1 + y2) /\ Occupancy(f) = m + (x1 + x2)
  BY <1>6, <1>10 DEF m, x1, x2, y1, y2
<1>20. Occupancy(g) = Occupancy(f) + a - (IF x2 = 1 /\ tready THEN 1 ELSE 0)
  BY <1>14, <1>17, <1>19
<1> QED  BY <1>18, <1>20 DEF g

(* The word on the output of a FIFO with two registers. *)
LEMMA HeadTwo ==
  ASSUME NEW D, NEW depth, NEW f, IsFifo(f, D, depth, 2)
  PROVE  /\ TValid(f) \in BOOLEAN
         /\ TValid(f) => TData(f) \in D
<1>1. f.pipe \in [1..2 -> Slot(D)] /\ Len(f.pipe) = 2
  BY PipeLen DEF IsFifo
<1>2. f.pipe[2] \in Slot(D)  BY <1>1
<1>3. f.pipe[2] # <<>> => f.pipe[2][1] \in D  BY <1>2, SlotIsSeq
<1> QED  BY <1>1, <1>3 DEF TValid, TData

(* A FIFO with two registers holds at most two words more than its depth. *)
LEMMA OccupancyTwoBound ==
  ASSUME SetsCount, NEW D, NEW depth \in Nat, NEW f, IsFifo(f, D, depth, 2)
  PROVE  Occupancy(f) \in 0..(depth + 2)
<1>1. MemLen(f) \in Nat /\ MemLen(f) <= depth
  BY MemLenType DEF MemLen, IsFifo
<1>2. /\ RegLen(f, 1) \in Nat /\ RegLen(f, 1) <= 1
      /\ RegLen(f, 2) \in Nat /\ RegLen(f, 2) <= 1
  BY RegLenType
<1>3. Occupancy(f) = MemLen(f) + (RegLen(f, 1) + RegLen(f, 2))
  BY OccupancyTwo
<1> QED  BY <1>1, <1>2, <1>3

(* After a reset it is a FIFO, and empty. *)
LEMMA EmptyTwo ==
  ASSUME SetsCount, NEW D, NEW depth \in Nat
  PROVE  IsFifo(EmptyFifo(2), D, depth, 2) /\ Occupancy(EmptyFifo(2)) = 0
<1> DEFINE e == EmptyFifo(2)
<1>1. e.mem = <<>> /\ e.pipe[1] = <<>> /\ e.pipe[2] = <<>>
  BY DEF EmptyFifo
<1>2. IsFifo(e, D, depth, 2)
  BY DEF IsFifo, EmptyFifo, Slot
<1> HIDE DEF e
<1>3. MemLen(e) = 0  BY <1>1, <1>2, MemLenType, Zenon
<1>4. RegLen(e, 1) = 0 /\ RegLen(e, 2) = 0  BY <1>1 DEF RegLen
<1>5. Occupancy(e) = MemLen(e) + (RegLen(e, 1) + RegLen(e, 2))  BY <1>2, OccupancyTwo
<1>6. Occupancy(e) = 0  BY <1>3, <1>4, <1>5
<1> QED  BY <1>2, <1>6 DEF e

(* The memory holds a second word only when both output registers are full.*)
NoGap(f) == MemLen(f) >= 2 => f.pipe[1] # <<>> /\ f.pipe[2] # <<>>

(* The arithmetic of the next lemma; a is the word written. *)
LEMMA TwoNoGap ==
  ASSUME NEW tready \in BOOLEAN, NEW m \in Nat, NEW r \in Nat, NEW a \in 0..1,
         NEW x1 \in 0..1, NEW x2 \in 0..1, NEW y1 \in 0..1, NEW y2 \in 0..1,
         (tready \/ x1 = 0 \/ x2 = 0) /\ m > 0 => y1 = 1 /\ r = m - 1,
         (tready \/ x1 = 0 \/ x2 = 0) /\ m = 0 => y1 = 0 /\ r = m,
         ~(tready \/ x1 = 0 \/ x2 = 0) => y1 = x1 /\ r = m,
         tready \/ x2 = 0 => y2 = x1,
         ~(tready \/ x2 = 0) => y2 = x2,
         m >= 2 => x1 = 1 /\ x2 = 1
  PROVE  r + a >= 2 => y1 = 1 /\ y2 = 1
OBVIOUS

(* An edge of the code's two-register FIFO leaves no gap between the       *)
(* memory and the output.                                                  *)
LEMMA ClockTwoNoGap ==
  ASSUME NEW D, NEW depth \in Nat, NEW f, IsFifo(f, D, depth, 2), NoGap(f),
         NEW in \in Slot(D), NEW tready \in BOOLEAN
  PROVE  NoGap(Clock(f, depth, in, tready))
<1> DEFINE g == Clock(f, depth, in, tready)
<1>1. f.pipe \in [1..2 -> Slot(D)] /\ Len(f.pipe) = 2
  BY PipeLen DEF IsFifo
<1>2. IsFifo(g, D, depth, 2)
  BY ClockType
<1>3. /\ Advances(f, 1, tready) <=> tready \/ f.pipe[1] = <<>> \/ f.pipe[2] = <<>>
      /\ Advances(f, 2, tready) <=> tready \/ f.pipe[2] = <<>>
  <2>1. 1..2 = {1, 2} /\ 2..2 = {2}  OBVIOUS
  <2> QED  BY <1>1, <2>1 DEF Advances
<1>4. /\ g.pipe[1] = IF ~Advances(f, 1, tready) THEN f.pipe[1]
                     ELSE IF f.mem # <<>> THEN <<Head(f.mem)>> ELSE <<>>
      /\ g.pipe[2] = IF ~Advances(f, 2, tready) THEN f.pipe[2] ELSE f.pipe[1]
  BY <1>1 DEF Clock
<1>5. TValid(f) <=> f.pipe[2] # <<>>
  BY <1>1 DEF TValid
<1>6. PICK r \in Nat, a \in Nat :
         /\ MemLen(g) = r + a
         /\ Advances(f, 1, tready) /\ f.mem # <<>> => r = MemLen(f) - 1
         /\ ~Advances(f, 1, tready) \/ f.mem = <<>> => r = MemLen(f)
         /\ TReady(f, depth) => a = Len(in)
         /\ ~TReady(f, depth) => a = 0
  BY ClockMemLen
<1>7. /\ RegLen(f, 1) \in 0..1 /\ (f.pipe[1] = <<>> <=> RegLen(f, 1) = 0)
      /\ RegLen(f, 2) \in 0..1 /\ (f.pipe[2] = <<>> <=> RegLen(f, 2) = 0)
  BY RegLenType
<1>8. /\ RegLen(g, 1) \in 0..1 /\ (g.pipe[1] = <<>> <=> RegLen(g, 1) = 0)
      /\ RegLen(g, 2) \in 0..1 /\ (g.pipe[2] = <<>> <=> RegLen(g, 2) = 0)
  BY <1>2, RegLenType
<1>9. MemLen(f) \in Nat /\ (MemLen(f) = 0 <=> f.mem = <<>>)
  BY MemLenType
<1> DEFINE m  == MemLen(f)
           x1 == RegLen(f, 1)
           x2 == RegLen(f, 2)
           y1 == RegLen(g, 1)
           y2 == RegLen(g, 2)
<1>11. /\ (tready \/ x1 = 0 \/ x2 = 0) <=> Advances(f, 1, tready)
       /\ (tready \/ x2 = 0) <=> Advances(f, 2, tready)
       /\ m = 0 <=> f.mem = <<>>
  BY <1>3, <1>7, <1>9
<1>12. /\ Advances(f, 1, tready) /\ f.mem # <<>> => y1 = 1
       /\ Advances(f, 1, tready) /\ f.mem = <<>> => y1 = 0
       /\ ~Advances(f, 1, tready) => y1 = x1
  BY <1>4, <1>7, <1>8
<1>13. /\ Advances(f, 2, tready) => y2 = x1
       /\ ~Advances(f, 2, tready) => y2 = x2
  BY <1>4, <1>7, <1>8
<1>14. /\ m \in Nat /\ x1 \in 0..1 /\ x2 \in 0..1 /\ y1 \in 0..1 /\ y2 \in 0..1
       /\ TValid(f) <=> x2 = 1
  BY <1>5, <1>7, <1>8, <1>9
<1> HIDE DEF g, m, x1, x2, y1, y2
<1>15. /\ (tready \/ x1 = 0 \/ x2 = 0) /\ m > 0 => y1 = 1 /\ r = m - 1
       /\ (tready \/ x1 = 0 \/ x2 = 0) /\ m = 0 => y1 = 0 /\ r = m
       /\ ~(tready \/ x1 = 0 \/ x2 = 0) => y1 = x1 /\ r = m
  BY <1>6, <1>11, <1>12, <1>14 DEF m
<1>16. /\ tready \/ x2 = 0 => y2 = x1
       /\ ~(tready \/ x2 = 0) => y2 = x2
  BY <1>11, <1>13
<1>17. a \in 0..1
  <2>1. Len(in) \in 0..1  BY SlotIsSeq DEF Slot
  <2>2. CASE TReady(f, depth)
    <3>1. a = Len(in)  BY <1>6, <2>2
    <3> QED  BY <2>1, <3>1, Zenon
  <2>3. CASE ~TReady(f, depth)
    <3>1. a = 0  BY <1>6, <2>3
    <3> QED  BY <3>1
  <2> QED  BY <2>2, <2>3
<1>18. m >= 2 => x1 = 1 /\ x2 = 1
  BY <1>7 DEF NoGap, m, x1, x2
<1>19. r + a >= 2 => y1 = 1 /\ y2 = 1
  BY <1>14, <1>15, <1>16, <1>17, <1>18, TwoNoGap
<1> QED  BY <1>6, <1>8, <1>19 DEF NoGap, g, y1, y2

(* With no gap, a FIFO of three words or more has one at its output. *)
LEMMA NoGapValid ==
  ASSUME SetsCount, NEW D, NEW depth \in Nat, NEW f, IsFifo(f, D, depth, 2), NoGap(f),
         Occupancy(f) >= 3
  PROVE  TValid(f)
<1>1. f.pipe \in [1..2 -> Slot(D)] /\ Len(f.pipe) = 2
  BY PipeLen DEF IsFifo
<1>2. TValid(f) <=> f.pipe[2] # <<>>  BY <1>1 DEF TValid
<1>3. Occupancy(f) = MemLen(f) + (RegLen(f, 1) + RegLen(f, 2))
  BY OccupancyTwo
<1>4. MemLen(f) \in Nat  BY MemLenType
<1>5. /\ RegLen(f, 1) \in 0..1
      /\ RegLen(f, 2) \in 0..1 /\ (f.pipe[2] = <<>> <=> RegLen(f, 2) = 0)
  BY RegLenType
<1>6. CASE MemLen(f) >= 2  BY <1>2, <1>6 DEF NoGap
<1>7. CASE ~(MemLen(f) >= 2)
  <2>1. RegLen(f, 2) # 0  BY <1>3, <1>4, <1>5, <1>7
  <2> QED  BY <1>2, <1>5, <2>1
<1> QED  BY <1>6, <1>7

(* The k-th word of a FIFO with one output register, oldest first. *)
Word(f, k) == IF ~TValid(f) THEN f.mem[k]
              ELSE IF k = 1 THEN TData(f) ELSE f.mem[k-1]

(* Such a FIFO is first-in first-out: an edge removes the oldest word when *)
(* it is read, keeps the others in order, and adds the new word last.      *)
LEMMA ClockOneOrder ==
  ASSUME SetsCount, NEW D, NEW depth \in Nat, NEW f, IsFifo(f, D, depth, 1),
         NEW in \in Slot(D), NEW tready \in BOOLEAN,
         NEW p \in 0..1, p = IF TValid(f) /\ tready THEN 1 ELSE 0
  PROVE  /\ \A k \in 1 .. Occupancy(f) - p :
              Word(Clock(f, depth, in, tready), k) = Word(f, k + p)
         /\ in # <<>> /\ TReady(f, depth) =>
              Word(Clock(f, depth, in, tready), Occupancy(f) - p + 1) = in[1]
<1> DEFINE g    == Clock(f, depth, in, tready)
           add  == IF TReady(f, depth) THEN in ELSE <<>>
           mem  == f.mem
           gmem == g.mem
           n    == Len(mem)
<1>1. f.pipe \in [1..1 -> Slot(D)] /\ Len(f.pipe) = 1
  BY PipeLen DEF IsFifo
<1>2. IsFifo(g, D, depth, 1)
  BY ClockType
<1>3. Len(g.pipe) = 1
  <2> HIDE DEF g
  <2>1. g.pipe \in [1..1 -> Slot(D)]  BY <1>2 DEF IsFifo
  <2> QED  BY <2>1
<1>4. Advances(f, 1, tready) <=> tready \/ ~TValid(f)
  BY <1>1 DEF Advances, TValid
<1>5. g.pipe[1] = IF ~Advances(f, 1, tready) THEN f.pipe[1]
                  ELSE IF f.mem # <<>> THEN <<Head(f.mem)>> ELSE <<>>
  BY <1>1 DEF Clock
<1>6. /\ Advances(f, 1, tready) /\ mem # <<>> => TValid(g) /\ TData(g) = Head(mem)
      /\ Advances(f, 1, tready) /\ mem = <<>> => ~TValid(g)
      /\ ~Advances(f, 1, tready) =>
           TValid(f) /\ ~tready /\ TValid(g) /\ TData(g) = TData(f)
  BY <1>1, <1>3, <1>4, <1>5 DEF TValid, TData
<1>7. /\ Advances(f, 1, tready) /\ mem # <<>> => gmem = Tail(mem) \o add
      /\ ~Advances(f, 1, tready) \/ mem = <<>> => gmem = mem \o add
  BY ZenonT(30) DEF Clock
<1>8. /\ mem \in Seq(D) /\ n \in Nat /\ add \in Seq(D)
      /\ in # <<>> /\ TReady(f, depth) => Len(add) = 1 /\ add[1] = in[1]
  BY SlotIsSeq DEF IsFifo
<1>9. Occupancy(f) = n + (IF TValid(f) THEN 1 ELSE 0)
  <2>1. TValid(f) <=> f.pipe[1] # <<>>  BY <1>1 DEF TValid
  <2>2. RegLen(f, 1) = IF TValid(f) THEN 1 ELSE 0  BY <2>1, RegLenType
  <2>3. Occupancy(f) = MemLen(f) + RegLen(f, 1)  BY OccupancyOne
  <2> QED  BY ZenonT(30), <2>2, <2>3 DEF MemLen
<1>10. /\ TValid(g) => Word(g, 1) = TData(g)
       /\ TValid(g) => \A k \in Nat \ {1} : Word(g, k) = gmem[k-1]
       /\ ~TValid(g) => \A k \in Nat : Word(g, k) = gmem[k]
  BY DEF Word
<1>11. /\ TValid(f) => Word(f, 1) = TData(f)
       /\ TValid(f) => \A k \in Nat \ {1} : Word(f, k) = mem[k-1]
       /\ ~TValid(f) => \A k \in Nat : Word(f, k) = mem[k]
  BY DEF Word
<1> HIDE DEF g, add, mem, gmem, n
<1>12. CASE Advances(f, 1, tready) /\ mem # <<>>
  <2>1. TValid(g) /\ TData(g) = Head(mem) /\ gmem = Tail(mem) \o add
    BY <1>6, <1>7, <1>12
  <2>2. Occupancy(f) - p = n /\ (p = 1 <=> TValid(f))
    BY <1>4, <1>8, <1>9, <1>12
  <2>3. \A k \in 1..n : Word(f, k + p) = mem[k]
    BY <1>8, <1>11, <2>2
  <2>4. \A k \in 1..(n-1) : gmem[k] = mem[k+1]
    BY <1>8, <2>1, <1>12 DEF n
  <2>5. \A k \in 1..n : Word(g, k) = mem[k]
    <3> TAKE k \in 1..n
    <3>1. CASE k = 1
      <4>1. Head(mem) = mem[1]  BY <1>8, <1>12
      <4> QED  BY <3>1, <4>1, <1>10, <2>1
    <3>2. CASE k # 1
      <4>1. k \in Nat \ {1} /\ k - 1 \in 1..(n-1) /\ (k - 1) + 1 = k  BY <3>2, <1>8
      <4>2. Word(g, k) = gmem[k-1]  BY ZenonT(30), <4>1, <1>10, <2>1
      <4> QED  BY <4>1, <4>2, <2>4
    <3> QED  BY <3>1, <3>2
  <2>6. n > 0 /\ (Len(add) = 1 => gmem[n] = add[1])
    BY <1>8, <2>1, <1>12 DEF n
  <2>7. in # <<>> /\ TReady(f, depth) => Word(g, n + 1) = in[1]
    <3>1. n + 1 \in Nat \ {1} /\ (n + 1) - 1 = n  BY <1>8, <2>6
    <3>2. Word(g, n + 1) = gmem[n]  BY ZenonT(30), <3>1, <1>10, <2>1
    <3> QED  BY <3>2, <1>8, <2>6
  <2> QED  BY <2>2, <2>3, <2>5, <2>7, <1>8 DEF g
<1>13. CASE Advances(f, 1, tready) /\ mem = <<>>
  <2>1. ~TValid(g) /\ gmem = mem \o add /\ n = 0
    BY <1>6, <1>7, <1>13 DEF n
  <2>2. Occupancy(f) - p = 0
    BY <1>4, <1>9, <1>13, <2>1
  <2>3. Len(add) = 1 => gmem[1] = add[1]
    BY <1>8, <1>13, <2>1
  <2>4. in # <<>> /\ TReady(f, depth) => Word(g, 1) = in[1]
    BY <1>8, <1>10, <2>1, <2>3
  <2> QED  BY <2>2, <2>4 DEF g
<1>14. CASE ~Advances(f, 1, tready)
  <2>1. /\ TValid(f) /\ ~tready /\ TValid(g) /\ TData(g) = TData(f)
        /\ gmem = mem \o add
    BY <1>6, <1>7, <1>14
  <2>2. p = 0 /\ Occupancy(f) - p = n + 1
    BY <1>8, <1>9, <2>1
  <2>3. /\ \A k \in 1..n : gmem[k] = mem[k]
        /\ Len(add) = 1 => gmem[n+1] = add[1]
    BY <1>8, <2>1 DEF n
  <2>4. \A k \in 1..(n+1) : Word(g, k) = Word(f, k + p)
    <3> TAKE k \in 1..(n+1)
    <3>1. k + p = k  BY <2>2, <1>8
    <3>2. CASE k = 1  BY <3>1, <3>2, <1>10, <1>11, <2>1
    <3>3. CASE k # 1
      <4>1. k \in Nat \ {1} /\ k - 1 \in 1..n  BY <3>3, <1>8
      <4>2. Word(g, k) = gmem[k-1] /\ Word(f, k) = mem[k-1]
        BY ZenonT(30), <4>1, <1>10, <1>11, <2>1
      <4> QED  BY <3>1, <4>1, <4>2, <2>3
    <3> QED  BY <3>2, <3>3
  <2>5. in # <<>> /\ TReady(f, depth) => Word(g, n + 1 + 1) = in[1]
    <3>1. n + 1 + 1 \in Nat \ {1} /\ (n + 1 + 1) - 1 = n + 1  BY <1>8
    <3>2. Word(g, n + 1 + 1) = gmem[n + 1]  BY ZenonT(30), <3>1, <1>10, <2>1
    <3> QED  BY <3>2, <1>8, <2>3
  <2> QED  BY <2>2, <2>4, <2>5 DEF g
<1> QED  BY <1>12, <1>13, <1>14

(***************************************************************************)
(* How often one word is in a FIFO.                                        *)
(***************************************************************************)
Places(s, w) == {i \in DOMAIN s : s[i] = w}
Occurs(s, w) == Cardinality(Places(s, w))

LEMMA OccursType ==
  ASSUME SetsCount, NEW D, NEW s \in Seq(D), NEW w
  PROVE  IsFiniteSet(Places(s, w)) /\ Occurs(s, w) \in Nat
<1>1. IsFiniteSet(1..Len(s))  BY CountInterval
<1>2. Places(s, w) \in SUBSET (1..Len(s))  BY DEF Places
<1>3. IsFiniteSet(Places(s, w))  BY <1>1, <1>2, CountSubset
<1> QED  BY <1>3, CountType DEF Occurs

(* A word written at the end. *)
LEMMA OccursAppend ==
  ASSUME SetsCount, NEW D, NEW s \in Seq(D), NEW in \in Slot(D), NEW w
  PROVE  Occurs(s \o in, w) = Occurs(s, w) + (IF in = <<w>> THEN 1 ELSE 0)
<1> DEFINE n == Len(s) + 1
<1>0. IsFiniteSet(Places(s, w)) /\ Occurs(s, w) \in Nat
  BY OccursType
<1>1. CASE in = <<>>
  <2>1. s \o in = s /\ in # <<w>>  BY <1>1
  <2> QED  BY <1>0, <2>1
<1>2. CASE in # <<>>
  <2>1. PICK d \in D : in = <<d>>  BY <1>2 DEF Slot
  <2>2. s \o in = Append(s, d)  BY <2>1
  <2>3. /\ DOMAIN (s \o in) = 1..n /\ DOMAIN s = 1..(n-1) /\ n \in Nat \ {0}
        /\ (s \o in)[n] = d
        /\ \A i \in 1..(n-1) : (s \o in)[i] = s[i]
    BY <2>2
  <2>4. in = <<w>> <=> d = w  BY <2>1
  <2> HIDE DEF n
  <2>6. CASE d = w
    <3>1. Places(s \o in, w) = Places(s, w) \cup {n}  BY <2>3, <2>6 DEF Places
    <3>2. n \notin Places(s, w)  BY <2>3 DEF Places
    <3>3. Cardinality(Places(s, w) \cup {n}) = Cardinality(Places(s, w)) + 1
      BY <1>0, <3>2, CountAdd, ZenonT(30)
    <3> QED  BY <2>4, <2>6, <3>1, <3>3 DEF Occurs
  <2>7. CASE d # w
    <3>1. Places(s \o in, w) = Places(s, w)  BY <2>3, <2>7 DEF Places
    <3> QED  BY <1>0, <2>4, <2>7, <3>1 DEF Occurs
  <2> QED  BY <2>6, <2>7
<1> QED  BY <1>1, <1>2

(* The first word taken away. *)
LEMMA OccursTail ==
  ASSUME SetsCount, NEW D, NEW s \in Seq(D), s # <<>>, NEW w
  PROVE  Occurs(s, w) = Occurs(Tail(s), w) + (IF Head(s) = w THEN 1 ELSE 0)
<1> DEFINE t == Tail(s)
           P == Places(s, w)
           Q == Places(t, w)
           R == P \ {1}
           f == [i \in Q |-> i + 1]
<1>1. /\ t \in Seq(D) /\ Len(s) \in Nat \ {0} /\ Len(t) = Len(s) - 1
      /\ DOMAIN s = 1..Len(s) /\ DOMAIN t = 1..Len(t)
      /\ \A i \in 1..Len(t) : t[i] = s[i+1]
      /\ Head(s) = s[1]
  OBVIOUS
<1>2. IsFiniteSet(P) /\ IsFiniteSet(Q) /\ Cardinality(P) \in Nat /\ Cardinality(Q) \in Nat
  <2> HIDE DEF t
  <2> QED  BY <1>1, OccursType DEF Occurs
<1> HIDE DEF t
<1>3. /\ \A i \in Q : i + 1 \in R
      /\ \A i, j \in Q : i + 1 = j + 1 => i = j
      /\ \A k \in R : k - 1 \in Q /\ (k - 1) + 1 = k
  BY <1>1 DEF Places
<1>4. 1 \in P <=> Head(s) = w
  BY <1>1 DEF Places
<1> HIDE DEF P, Q
<1>5. Cardinality(R) = IF 1 \in P THEN Cardinality(P) - 1 ELSE Cardinality(P)
  BY <1>2, CountRemove, ZenonT(30)
<1> HIDE DEF R
<1>6. f \in Bijection(Q, R)
  <2>1. f \in [Q -> R]  BY <1>3
  <2>2. \A a, b \in Q : f[a] = f[b] => a = b  BY <1>3
  <2>3. \A k \in R : \E a \in Q : f[a] = k  BY <1>3
  <2> HIDE DEF f
  <2> QED  BY <2>1, <2>2, <2>3 DEF Bijection, Injection, Surjection, IsInjective
<1>7. Cardinality(R) = Cardinality(Q)
  <2>1. ExistsBijection(Q, R)  BY <1>6 DEF ExistsBijection
  <2> QED  BY <1>2, <2>1, CountBijection
<1>8. Occurs(s, w) = Cardinality(P) /\ Occurs(Tail(s), w) = Cardinality(Q)
  BY DEF Occurs, t, P, Q
<1> QED  BY <1>2, <1>4, <1>5, <1>7, <1>8

(* Whether the word w is in output register j. *)
InReg(f, j, w) == IF f.pipe[j] = <<w>> THEN 1 ELSE 0

LEMMA InFifoTwo ==
  ASSUME SetsCount, NEW D, NEW depth, NEW f, IsFifo(f, D, depth, 2), NEW w
  PROVE  /\ InFifo(f, w) = Occurs(f.mem, w) + (InReg(f, 1, w) + InReg(f, 2, w))
         /\ Occurs(f.mem, w) \in Nat
<1> DEFINE V == Places(f.pipe, <<w>>)
<1>1. DOMAIN f.pipe = 1..2 /\ f.mem \in Seq(D)
  BY DEF IsFifo
<1>2. Cardinality(V) = InReg(f, 1, w) + InReg(f, 2, w)
  <2>1. CASE f.pipe[1] # <<w>> /\ f.pipe[2] # <<w>>
    <3>1. V = {}  BY <1>1, <2>1 DEF Places
    <3>2. Cardinality(V) = 0  BY ZenonT(30), <3>1, CountEmpty
    <3> QED  BY <2>1, <3>2 DEF InReg
  <2>2. CASE f.pipe[1] = <<w>> /\ f.pipe[2] # <<w>>
    <3>1. V = {1}  BY <1>1, <2>2 DEF Places
    <3>2. Cardinality(V) = 1  BY <3>1, CountSingleton, ZenonT(30)
    <3> QED  BY <2>2, <3>2 DEF InReg
  <2>3. CASE f.pipe[1] # <<w>> /\ f.pipe[2] = <<w>>
    <3>1. V = {2}  BY <1>1, <2>3 DEF Places
    <3>2. Cardinality(V) = 1  BY <3>1, CountSingleton, ZenonT(30)
    <3> QED  BY <2>3, <3>2 DEF InReg
  <2>4. CASE f.pipe[1] = <<w>> /\ f.pipe[2] = <<w>>
    <3>1. V = {1} \cup {2}  BY <1>1, <2>4 DEF Places
    <3>2. IsFiniteSet({1}) /\ Cardinality({1}) = 1  BY CountSingleton
    <3>3. Cardinality({1} \cup {2}) = 2  BY <3>2, CountAdd
    <3>4. Cardinality(V) = 2  BY <3>1, <3>3, ZenonT(30)
    <3> QED  BY <2>4, <3>4 DEF InReg
  <2> QED  BY <2>1, <2>2, <2>3, <2>4
<1>3. InFifo(f, w) = Occurs(f.mem, w) + Cardinality(V)
  BY DEF InFifo, Occurs, Places
<1>4. Occurs(f.mem, w) \in Nat
  BY <1>1, OccursType
<1> QED  BY <1>2, <1>3, <1>4

LEMMA InFifoType ==
  ASSUME SetsCount, NEW D, NEW depth, NEW f, IsFifo(f, D, depth, 2), NEW w
  PROVE  InFifo(f, w) \in Nat
<1>1. InReg(f, 1, w) \in 0..1 /\ InReg(f, 2, w) \in 0..1
  BY DEF InReg
<1> QED  BY <1>1, InFifoTwo

(* An edge adds the word written, removes the word read, and neither loses *)
(* nor doubles another on its way to the output.                           *)
LEMMA ClockTwoKeeps ==
  ASSUME SetsCount, NEW D, NEW depth \in Nat, NEW f, IsFifo(f, D, depth, 2),
         NEW in \in Slot(D), NEW tready \in BOOLEAN, NEW w
  PROVE  InFifo(Clock(f, depth, in, tready), w)
           = InFifo(f, w) + (IF TReady(f, depth) /\ in = <<w>> THEN 1 ELSE 0)
               - (IF TValid(f) /\ tready /\ TData(f) = w THEN 1 ELSE 0)
<1> DEFINE g    == Clock(f, depth, in, tready)
           mem  == f.mem
           gmem == g.mem
           load == Advances(f, 1, tready) /\ mem # <<>>
           rest == IF load THEN Tail(mem) ELSE mem
           add  == IF TReady(f, depth) THEN in ELSE <<>>
<1>1. f.pipe \in [1..2 -> Slot(D)] /\ Len(f.pipe) = 2 /\ mem \in Seq(D)
  BY PipeLen DEF IsFifo
<1>2. IsFifo(g, D, depth, 2)
  BY ClockType
<1>3. /\ Advances(f, 1, tready) <=> tready \/ f.pipe[1] = <<>> \/ f.pipe[2] = <<>>
      /\ Advances(f, 2, tready) <=> tready \/ f.pipe[2] = <<>>
  <2>1. 1..2 = {1, 2} /\ 2..2 = {2}  OBVIOUS
  <2> QED  BY <1>1, <2>1 DEF Advances
<1>4. /\ g.pipe[1] = IF ~Advances(f, 1, tready) THEN f.pipe[1]
                     ELSE IF mem # <<>> THEN <<Head(mem)>> ELSE <<>>
      /\ g.pipe[2] = IF ~Advances(f, 2, tready) THEN f.pipe[2] ELSE f.pipe[1]
  BY <1>1 DEF Clock
<1>5. gmem = rest \o add
  BY ZenonT(30) DEF Clock
<1>6. (TValid(f) /\ TData(f) = w) <=> f.pipe[2] = <<w>>
  <2>1. f.pipe[2] \in Slot(D)  BY <1>1
  <2>2. f.pipe[2] # <<>> => f.pipe[2] = <<f.pipe[2][1]>>  BY <2>1, SlotIsSeq
  <2>3. <<>> # <<w>> /\ <<w>>[1] = w  OBVIOUS
  <2>4. TValid(f) <=> f.pipe[2] # <<>>  BY <1>1 DEF TValid
  <2>5. TData(f) = f.pipe[2][1]  BY <1>1 DEF TData
  <2> QED  BY ZenonT(30), <2>2, <2>3, <2>4, <2>5
<1>7. add \in Slot(D) /\ rest \in Seq(D) /\ <<>> # <<w>>
  BY <1>1 DEF Slot
<1>8. Occurs(gmem, w) = Occurs(rest, w) + (IF TReady(f, depth) /\ in = <<w>> THEN 1 ELSE 0)
  <2>1. add = <<w>> <=> TReady(f, depth) /\ in = <<w>>  BY <1>7, Zenon
  <2> HIDE DEF rest, add
  <2>2. Occurs(rest \o add, w) = Occurs(rest, w) + (IF add = <<w>> THEN 1 ELSE 0)
    BY <1>7, OccursAppend
  <2> QED  BY <1>5, <2>1, <2>2
<1>9. /\ load => Occurs(mem, w) = Occurs(rest, w) + (IF Head(mem) = w THEN 1 ELSE 0)
      /\ ~load => Occurs(mem, w) = Occurs(rest, w)
      /\ Occurs(mem, w) \in Nat /\ Occurs(rest, w) \in Nat
  <2>1. load => rest = Tail(mem) /\ mem # <<>>  OBVIOUS
  <2>2. ~load => rest = mem  OBVIOUS
  <2> HIDE DEF rest, mem, load
  <2>3. load => Occurs(mem, w) = Occurs(Tail(mem), w) + (IF Head(mem) = w THEN 1 ELSE 0)
    BY <1>1, <2>1, OccursTail
  <2>4. Occurs(mem, w) \in Nat /\ Occurs(rest, w) \in Nat
    BY <1>1, <1>7, OccursType
  <2> QED  BY <2>1, <2>2, <2>3, <2>4, Zenon
<1>10. /\ InFifo(f, w) = Occurs(mem, w) + (InReg(f, 1, w) + InReg(f, 2, w))
       /\ InFifo(g, w) = Occurs(gmem, w) + (InReg(g, 1, w) + InReg(g, 2, w))
  BY <1>2, InFifoTwo
<1>11. <<Head(mem)>> = <<w>> <=> Head(mem) = w
  OBVIOUS
<1> HIDE DEF g, mem, gmem, rest, add
<1>12. /\ InReg(f, 1, w) \in 0..1 /\ InReg(f, 2, w) \in 0..1
       /\ InReg(g, 1, w) \in 0..1 /\ InReg(g, 2, w) \in 0..1
       /\ f.pipe[1] = <<>> => InReg(f, 1, w) = 0
       /\ f.pipe[2] = <<>> => InReg(f, 2, w) = 0
       /\ f.pipe[2] = <<w>> <=> InReg(f, 2, w) = 1
  <2>1. \A v, j : InReg(v, j, w) \in 0..1  BY DEF InReg
  <2>2. \A j : f.pipe[j] = <<>> => InReg(f, j, w) = 0  BY <1>7, Zenon DEF InReg
  <2>3. f.pipe[2] = <<w>> <=> InReg(f, 2, w) = 1  BY DEF InReg
  <2> QED  BY <2>1, <2>2, <2>3
<1>13. /\ load => InReg(g, 1, w) = IF Head(mem) = w THEN 1 ELSE 0
       /\ ~load /\ Advances(f, 1, tready) => InReg(g, 1, w) = 0
       /\ ~Advances(f, 1, tready) => InReg(g, 1, w) = InReg(f, 1, w)
  BY <1>4, <1>7, <1>11 DEF InReg
<1>14. /\ Advances(f, 2, tready) => InReg(g, 2, w) = InReg(f, 1, w)
       /\ ~Advances(f, 2, tready) => InReg(g, 2, w) = InReg(f, 2, w)
  BY <1>4 DEF InReg
<1>15. /\ load => Occurs(mem, w) = Occurs(rest, w) + InReg(g, 1, w)
       /\ ~load => Occurs(mem, w) = Occurs(rest, w)
       /\ load => Advances(f, 1, tready)
  BY <1>9, <1>13
<1> HIDE DEF load
<1>16. Occurs(rest, w) + (InReg(g, 1, w) + InReg(g, 2, w))
         = Occurs(mem, w) + (InReg(f, 1, w) + InReg(f, 2, w))
             - (IF f.pipe[2] = <<w>> /\ tready THEN 1 ELSE 0)
  <2>1. CASE Advances(f, 2, tready)
    BY <2>1, <1>3, <1>9, <1>12, <1>13, <1>14, <1>15
  <2>2. CASE ~Advances(f, 2, tready) /\ Advances(f, 1, tready)
    BY <2>2, <1>3, <1>9, <1>12, <1>13, <1>14, <1>15
  <2>3. CASE ~Advances(f, 2, tready) /\ ~Advances(f, 1, tready)
    BY <2>3, <1>3, <1>9, <1>12, <1>13, <1>14, <1>15
  <2> QED  BY <2>1, <2>2, <2>3
<1> QED  BY <1>6, <1>8, <1>9, <1>10, <1>12, <1>16 DEF g

(* The words of a FIFO with two output registers as one sequence: as many  *)
(* as it holds, and each as often as it holds it.                          *)
Words(f) == (f.mem \o f.pipe[1]) \o f.pipe[2]

LEMMA WordsTwo ==
  ASSUME SetsCount, NEW D, NEW depth, NEW f, IsFifo(f, D, depth, 2)
  PROVE  /\ Words(f) \in Seq(D)
         /\ Len(Words(f)) = Occupancy(f)
         /\ Len(f.mem) <= Len(Words(f))
         /\ \A w \in D : Occurs(Words(f), w) = InFifo(f, w)
<1> DEFINE mem == f.mem
           r1 == f.pipe[1]
           r2 == f.pipe[2]
           s1 == mem \o r1
           s2 == s1 \o r2
<1>1. mem \in Seq(D) /\ r1 \in Slot(D) /\ r2 \in Slot(D)
  BY DEF IsFifo
<1> HIDE DEF mem, r1, r2
<1>2. /\ r1 \in Seq(D) /\ Len(r1) \in Nat
      /\ r2 \in Seq(D) /\ Len(r2) \in Nat
  BY <1>1, SlotIsSeq
<1>3. s1 \in Seq(D) /\ Len(s1) = Len(mem) + Len(r1) /\ Len(mem) \in Nat
  BY <1>1, <1>2
<1> HIDE DEF s1
<1>4. s2 \in Seq(D) /\ Len(s2) = Len(s1) + Len(r2)
  BY <1>2, <1>3
<1>5. Occupancy(f) = Len(mem) + (Len(r1) + Len(r2))
  <2>1. Occupancy(f) = MemLen(f) + (RegLen(f, 1) + RegLen(f, 2))
    BY Zenon, OccupancyTwo
  <2> QED  BY Zenon, <2>1 DEF MemLen, RegLen, mem, r1, r2
<1>6. ASSUME NEW w \in D
      PROVE  Occurs(s2, w) = InFifo(f, w)
  <2>1. Occurs(s1, w) = Occurs(mem, w) + (IF r1 = <<w>> THEN 1 ELSE 0)
    BY <1>1, OccursAppend DEF s1
  <2>2. Occurs(s2, w) = Occurs(s1, w) + (IF r2 = <<w>> THEN 1 ELSE 0)
    BY <1>1, <1>3, OccursAppend
  <2> HIDE DEF s2
  <2>3. /\ InFifo(f, w) = Occurs(mem, w) + (InReg(f, 1, w) + InReg(f, 2, w))
        /\ Occurs(mem, w) \in Nat
    BY InFifoTwo DEF mem
  <2>4. /\ InReg(f, 1, w) = IF r1 = <<w>> THEN 1 ELSE 0
        /\ InReg(f, 2, w) = IF r2 = <<w>> THEN 1 ELSE 0
    BY DEF InReg, r1, r2
  <2> QED  BY <2>1, <2>2, <2>3, <2>4
<1>7. Words(f) = s2
  BY DEF Words, s2, s1, mem, r1, r2
<1> HIDE DEF s2
<1>8. Len(s2) = Occupancy(f) /\ Len(mem) <= Len(s2)
  <2> DEFINE i == Len(mem)
             j == Len(r1)
             k == Len(r2)
             n == Occupancy(f)
  <2>1. i \in Nat /\ j \in Nat /\ k \in Nat /\ Len(s2) = (i + j) + k /\ n = i + (j + k)
    BY Zenon, <1>2, <1>3, <1>4, <1>5
  <2> HIDE DEF i, j, k, n
  <2>2. Len(s2) = n /\ i <= Len(s2)
    BY <2>1
  <2> QED  BY Zenon, <2>2 DEF i, n
<1> QED  BY <1>4, <1>6, <1>7, <1>8 DEF mem

(* The word at the output is one of them. *)
LEMMA HeadIsIn ==
  ASSUME SetsCount, NEW D, NEW depth, NEW f, IsFifo(f, D, depth, 2), TValid(f)
  PROVE  InFifo(f, TData(f)) >= 1
<1> DEFINE w == TData(f)
<1>1. f.pipe \in [1..2 -> Slot(D)] /\ Len(f.pipe) = 2
  BY PipeLen DEF IsFifo
<1>2. f.pipe[2] = <<w>>
  <2>1. f.pipe[2] # <<>> /\ w = f.pipe[2][1]
    BY Zenon, <1>1 DEF TValid, TData
  <2>2. f.pipe[2] \in Slot(D)
    BY <1>1
  <2> QED  BY Zenon, <2>1, <2>2, SlotIsSeq
<1> HIDE DEF w
<1>3. InReg(f, 1, w) \in 0..1 /\ InReg(f, 2, w) = 1
  BY <1>2 DEF InReg
<1>4. /\ InFifo(f, w) = Occurs(f.mem, w) + (InReg(f, 1, w) + InReg(f, 2, w))
      /\ Occurs(f.mem, w) \in Nat
  BY InFifoTwo
<1>5. InFifo(f, w) >= 1
  BY <1>3, <1>4
<1> QED  BY <1>5 DEF w

(* It stays there until it is read. *)
LEMMA HeadStays ==
  ASSUME NEW D, NEW depth \in Nat, NEW f, IsFifo(f, D, depth, 2), NEW in \in Slot(D), TValid(f)
  PROVE  TValid(Clock(f, depth, in, FALSE))
<1> DEFINE g == Clock(f, depth, in, FALSE)
<1>1. f.pipe \in [1..2 -> Slot(D)] /\ Len(f.pipe) = 2 /\ DOMAIN f.pipe = 1..2
  BY PipeLen DEF IsFifo
<1>2. f.pipe[2] # <<>>
  BY <1>1 DEF TValid
<1>3. ~Advances(f, 2, FALSE)
  BY <1>1, <1>2 DEF Advances
<1>4. g.pipe[2] = f.pipe[2]
  BY <1>1, <1>3 DEF Clock
<1>5. IsFifo(g, D, depth, 2)
  <2>1. 2 \in Nat \ {0} /\ FALSE \in BOOLEAN
    OBVIOUS
  <2> QED  BY Zenon, <2>1, ClockType
<1> HIDE DEF g
<1>6. Len(g.pipe) = 2
  <2>1. 2 \in Nat \ {0}
    OBVIOUS
  <2> QED  BY Zenon, <1>5, <2>1, PipeLen
<1>7. TValid(g)
  BY Zenon, <1>2, <1>4, <1>6 DEF TValid
<1> QED  BY Zenon, <1>7 DEF g
=============================================================================
