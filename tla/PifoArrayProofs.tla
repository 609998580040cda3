-------------------------- MODULE PifoArrayProofs ---------------------------
(***************************************************************************)
(* The register array of pifo.sv implements the list of PifoList, for any  *)
(* number of registers greater than the number of applications.            *)
(***************************************************************************)
EXTENDS PifoArray, PifoListProofs

(* Leaves may take longer than the default limit among so many facts. *)
USE SMTT(30)

(***************************************************************************)
(* Ranks.  The rank of a priority in a list is the number of elements      *)
(* ahead of the first that is less urgent; an element of that priority is  *)
(* inserted behind them.                                                   *)
(***************************************************************************)
Sorted(s) == \A j, k \in 1..Len(s) : j <= k => s[j].prio <= s[k].prio

Rank(s, x, r) ==
  /\ r \in 0..Len(s)
  /\ \A k \in 1..Len(s) : s[k].prio <= x <=> k <= r

(* The elements of a list of descriptors. *)
LEMMA DescSeq ==
  ASSUME NEW s \in Seq(Desc)
  PROVE  /\ Len(s) \in Nat
         /\ DOMAIN s = 1..Len(s)
         /\ \A k \in 1..Len(s) : s[k] \in Desc /\ s[k].app \in App /\ s[k].prio \in Nat
<1>1. Len(s) \in Nat /\ DOMAIN s = 1..Len(s)
  BY ListLen
<1>2. ASSUME NEW k \in 1..Len(s)
      PROVE  s[k] \in Desc /\ s[k].app \in App /\ s[k].prio \in Nat
  <2>1. s[k] \in Desc
    BY ListLen
  <2> QED  BY Zenon, <2>1, DescriptorAssumption DEF Desc
<1> QED  BY <1>1, <1>2

(* Insertion into a list of descriptors, element by element. *)
Inserted(t, s, i, e) ==
  /\ t \in Seq(Desc) /\ Len(t) = Len(s) + 1
  /\ \A k \in 1..(Len(s)+1) :
       t[k] = IF k < i THEN s[k] ELSE IF k = i THEN e ELSE s[k-1]

LEMMA InsertDesc ==
  ASSUME NEW s \in Seq(Desc), NEW i \in 1..(Len(s)+1), NEW e \in Desc
  PROVE  Inserted(InsertAt(s, i, e), s, i, e)
BY InsertAtElements DEF Inserted

(* A priority has one rank. *)
LEMMA RankUnique ==
  ASSUME NEW s \in Seq(Desc), NEW x \in Nat, NEW r, NEW q, Rank(s, x, r), Rank(s, x, q)
  PROVE  r = q
<1>1. Len(s) \in Nat
  BY DescSeq
<1>2. r \in 0..Len(s) /\ q \in 0..Len(s)
  BY DEF Rank
<1>3. ~(r < q)
  BY <1>1, <1>2 DEF Rank
<1>4. ~(q < r)
  BY <1>1, <1>2 DEF Rank
<1> QED  BY <1>2, <1>3, <1>4

(* A more urgent priority has no greater rank. *)
LEMMA RankOrder ==
  ASSUME NEW s \in Seq(Desc), NEW x \in Nat, NEW y \in Nat, NEW r, NEW q,
         Rank(s, x, r), Rank(s, y, q), x <= y
  PROVE  r <= q
<1>1. Len(s) \in Nat /\ \A k \in 1..Len(s) : s[k].prio \in Nat
  BY DescSeq
<1>2. r \in 0..Len(s) /\ q \in 0..Len(s)
  BY DEF Rank
<1>3. CASE r = 0
  BY <1>1, <1>2, <1>3
<1>4. CASE r # 0
  <2>1. r \in 1..Len(s)
    BY <1>1, <1>2, <1>4
  <2>2. s[r].prio <= x
    BY <1>1, <1>2, <2>1 DEF Rank
  <2>3. s[r].prio <= y
    BY <1>1, <2>1, <2>2
  <2> QED  BY <2>1, <2>3 DEF Rank
<1> QED  BY <1>3, <1>4

(* PushIdx is the place behind the rank. *)
LEMMA PushIdxRank ==
  ASSUME NEW s \in Seq(Desc), NEW e \in Desc, NEW r, Rank(s, e.prio, r)
  PROVE  PushIdx(s, e) = r + 1
<1> DEFINE n == Len(s)
           x == e.prio
           Fits(i) == /\ \A j \in 1..(i - 1) : s[j].prio <= x
                      /\ i <= n => s[i].prio > x
<1>1. n \in Nat /\ x \in Nat /\ \A i \in 1..n : s[i].prio \in Nat
  <2>1. n \in Nat /\ \A i \in 1..n : s[i].prio \in Nat
    BY DescSeq
  <2>2. x \in Nat
    BY Zenon, DescriptorAssumption DEF Desc
  <2> QED  BY <2>1, <2>2
<1>2. r \in 0..n /\ \A k \in 1..n : s[k].prio <= x <=> k <= r
  BY DEF Rank
<1> HIDE DEF x
<1>3. Fits(r + 1)
  BY <1>1, <1>2
<1>4. ASSUME NEW i \in 1..(n+1), Fits(i)
      PROVE  i = r + 1
  <2>1. ~(i < r + 1)
    BY <1>1, <1>2, <1>4
  <2>2. ~(i > r + 1)
    <3> SUFFICES ASSUME i > r + 1 PROVE FALSE
      OBVIOUS
    <3>1. r + 1 \in 1..(i-1) /\ r + 1 \in 1..n
      BY <1>1, <1>2
    <3>2. s[r+1].prio <= x
      BY <1>4, <3>1
    <3> QED  BY <1>1, <1>2, <3>1, <3>2
  <2> QED  BY <1>1, <1>2, <2>1, <2>2
<1>5. PushIdx(s, e) = CHOOSE i \in 1..(n+1) : Fits(i)
  BY DEF PushIdx, x
<1>6. r + 1 \in 1..(n+1)
  BY <1>1, <1>2
<1> HIDE DEF Fits, n
<1> QED  BY <1>3, <1>4, <1>5, <1>6

(* Insertion behind the rank keeps a list sorted and adds to the ranks of  *)
(* the priorities that are no more urgent.                                 *)
LEMMA InsertRank ==
  ASSUME NEW s \in Seq(Desc), Sorted(s), NEW e \in Desc, NEW r, Rank(s, e.prio, r)
  PROVE  LET t == InsertAt(s, r + 1, e)
         IN  /\ t \in Seq(Desc) /\ Len(t) = Len(s) + 1
             /\ Sorted(t)
             /\ \A x \in Nat, q \in Nat :
                  Rank(s, x, q) => Rank(t, x, q + Bit(e.prio <= x))
<1> DEFINE t == InsertAt(s, r + 1, e)
           n == Len(s)
<1>1. n \in Nat /\ \A k \in 1..n : s[k].prio \in Nat
  BY DescSeq
<1>2. r \in 0..n /\ e.prio \in Nat
  BY Zenon, DescriptorAssumption DEF Rank, Desc
<1>3. /\ t \in Seq(Desc) /\ Len(t) = n + 1
      /\ \A k \in 1..(n+1) : t[k] = IF k < r + 1 THEN s[k] ELSE IF k = r + 1 THEN e ELSE s[k-1]
  <2> DEFINE i == r + 1
  <2>1. i \in 1..(Len(s)+1) /\ t = InsertAt(s, i, e)
    BY <1>1, <1>2
  <2> HIDE DEF i, t
  <2>2. Inserted(t, s, i, e)
    BY <2>1, InsertDesc
  <2> QED  BY <2>2 DEF i, Inserted
<1> HIDE DEF t
<1>4. \A k \in 1..n : s[k].prio <= e.prio <=> k <= r
  BY DEF Rank
<1>5. Sorted(t)
  <2> SUFFICES ASSUME NEW j \in 1..(n+1), NEW k \in 1..(n+1), j < k
               PROVE  t[j].prio <= t[k].prio
    <3>1. \A k \in 1..(n+1) : t[k].prio <= t[k].prio
      <4>1. \A k \in 1..(n+1) : t[k].prio \in Nat
        BY <1>3, DescSeq
      <4> QED  BY <4>1
    <3> QED  BY <1>1, <1>3, <3>1 DEF Sorted
  <2>1. \A i, l \in 1..n : i <= l => s[i].prio <= s[l].prio
    BY Zenon DEF Sorted
  <2>2. CASE k < r + 1
    <3>1. t[j] = s[j] /\ t[k] = s[k] /\ j \in 1..n /\ k \in 1..n /\ j <= k
      BY <1>1, <1>2, <1>3, <2>2
    <3> QED  BY <2>1, <3>1
  <2>3. CASE k = r + 1
    <3>1. t[k] = e /\ t[j] = s[j] /\ j \in 1..n /\ j <= r
      BY <1>1, <1>2, <1>3, <2>3
    <3> QED  BY <1>4, <3>1
  <2>4. CASE k > r + 1 /\ j < r + 1
    <3>1. t[j] = s[j] /\ t[k] = s[k-1] /\ j \in 1..n /\ k - 1 \in 1..n /\ j <= k - 1
      BY <1>1, <1>2, <1>3, <2>4
    <3> QED  BY <2>1, <3>1
  <2>5. CASE k > r + 1 /\ j = r + 1
    <3>1. t[j] = e /\ t[k] = s[k-1] /\ k - 1 \in 1..n /\ ~(k - 1 <= r)
      BY <1>1, <1>2, <1>3, <2>5
    <3>2. ~(s[k-1].prio <= e.prio) /\ s[k-1].prio \in Nat
      BY <1>1, <1>4, <3>1
    <3> QED  BY <1>2, <3>1, <3>2
  <2>6. CASE k > r + 1 /\ j > r + 1
    <3>1. t[j] = s[j-1] /\ t[k] = s[k-1] /\ j - 1 \in 1..n /\ k - 1 \in 1..n /\ j - 1 <= k - 1
      BY <1>1, <1>2, <1>3, <2>6
    <3> QED  BY Zenon, <2>1, <3>1
  <2> QED  BY <1>1, <1>2, <2>2, <2>3, <2>4, <2>5, <2>6
<1>6. ASSUME NEW x \in Nat, NEW q \in Nat, Rank(s, x, q)
      PROVE  Rank(t, x, q + Bit(e.prio <= x))
  <2>1. q \in 0..n /\ \A k \in 1..n : s[k].prio <= x <=> k <= q
    BY <1>6 DEF Rank
  <2>2. CASE e.prio <= x
    <3>1. r <= q
      BY <1>2, <1>6, <2>2, RankOrder
    <3>2. ASSUME NEW k \in 1..(n+1)
          PROVE  t[k].prio <= x <=> k <= q + 1
      <4>1. CASE k < r + 1
        <5>1. k \in 1..n /\ t[k] = s[k] /\ k <= q
          BY <1>1, <1>2, <1>3, <2>1, <3>1, <4>1
        <5> QED  BY <2>1, <5>1
      <4>2. CASE k = r + 1
        <5>1. t[k] = e /\ k <= q + 1
          BY <1>2, <1>3, <2>1, <3>1, <4>2
        <5> QED  BY <2>2, <5>1
      <4>3. CASE k > r + 1
        <5>1. k - 1 \in 1..n /\ t[k] = s[k-1]
          BY <1>1, <1>2, <1>3, <4>3
        <5>2. s[k-1].prio <= x <=> k - 1 <= q
          BY <2>1, <5>1
        <5> QED  BY <2>1, <5>1, <5>2
      <4> QED  BY <1>1, <1>2, <4>1, <4>2, <4>3
    <3>3. q + Bit(e.prio <= x) = q + 1 /\ q + 1 \in 0..(n+1)
      BY <1>1, <2>1, <2>2 DEF Bit
    <3> QED  BY Zenon, <1>3, <3>2, <3>3 DEF Rank
  <2>3. CASE ~(e.prio <= x)
    <3>1. q <= r
      <4>1. x <= e.prio
        BY <1>2, <2>3
      <4> QED  BY Zenon, <1>2, <1>6, <4>1, RankOrder
    <3>2. ASSUME NEW k \in 1..(n+1)
          PROVE  t[k].prio <= x <=> k <= q
      <4>1. CASE k < r + 1
        <5>1. k \in 1..n /\ t[k] = s[k]
          BY <1>1, <1>2, <1>3, <4>1
        <5> QED  BY <2>1, <5>1
      <4>2. CASE k = r + 1
        <5>1. t[k] = e
          BY <1>3, <4>2
        <5>2. ~(k <= q)
          BY <1>2, <2>1, <3>1, <4>2
        <5> QED  BY <2>3, <5>1, <5>2
      <4>3. CASE k > r + 1
        <5>1. k - 1 \in 1..n /\ t[k] = s[k-1] /\ ~(k - 1 <= q) /\ ~(k <= q)
          BY <1>1, <1>2, <1>3, <2>1, <3>1, <4>3
        <5> QED  BY <2>1, <5>1
      <4> QED  BY <1>1, <1>2, <4>1, <4>2, <4>3
    <3>3. q + Bit(e.prio <= x) = q /\ q \in 0..(n+1)
      BY <1>1, <2>1, <2>3 DEF Bit
    <3> QED  BY Zenon, <1>3, <3>2, <3>3 DEF Rank
  <2> QED  BY <2>2, <2>3
<1> QED  BY <1>3, <1>5, <1>6 DEF t
(* Removal keeps a list sorted and takes from the ranks of the priorities  *)
(* that reach the element removed.                                         *)
LEMMA RemoveRank ==
  ASSUME NEW s \in Seq(Desc), Sorted(s), NEW i \in 1..Len(s), NEW t, t = RemoveAt(s, i)
  PROVE  /\ t \in Seq(Desc) /\ Len(t) = Len(s) - 1
         /\ Sorted(t)
         /\ \A x \in Nat, q \in Nat :
              Rank(s, x, q) => Rank(t, x, IF i <= q THEN q - 1 ELSE q)
<1> DEFINE n == Len(s)
<1>1. n \in Nat /\ i \in 1..n
  BY DescSeq
<1>2. /\ t \in Seq(Desc) /\ Len(t) = n - 1
      /\ \A k \in 1..(n-1) : t[k] = IF k < i THEN s[k] ELSE s[k+1]
  BY Zenon, RemoveAtElements
<1>3. Sorted(t)
  <2> SUFFICES ASSUME NEW j \in 1..(n-1), NEW k \in 1..(n-1), j <= k
               PROVE  t[j].prio <= t[k].prio
    BY <1>2 DEF Sorted
  <2>1. PICK u \in 1..n : t[j] = s[u] /\ u = IF j < i THEN j ELSE j + 1
    BY <1>1, <1>2
  <2>2. PICK v \in 1..n : t[k] = s[v] /\ v = IF k < i THEN k ELSE k + 1
    BY <1>1, <1>2
  <2>3. u <= v
    BY <1>1, <2>1, <2>2
  <2> QED  BY Zenon, <2>1, <2>2, <2>3 DEF Sorted
<1>4. ASSUME NEW x \in Nat, NEW q \in Nat, Rank(s, x, q)
      PROVE  Rank(t, x, IF i <= q THEN q - 1 ELSE q)
  <2> DEFINE p == IF i <= q THEN q - 1 ELSE q
  <2>1. q \in 0..n /\ \A k \in 1..n : s[k].prio <= x <=> k <= q
    BY <1>4 DEF Rank
  <2>2. p \in 0..(n-1)
    BY <1>1, <2>1
  <2>3. ASSUME NEW k \in 1..(n-1)
        PROVE  t[k].prio <= x <=> k <= p
    <3>1. CASE k < i
      <4>1. t[k] = s[k] /\ k \in 1..n
        BY <1>1, <1>2, <3>1
      <4>2. k <= q <=> k <= p
        BY <1>1, <2>1, <3>1
      <4> QED  BY <2>1, <4>1, <4>2
    <3>2. CASE ~(k < i)
      <4>1. t[k] = s[k+1] /\ k + 1 \in 1..n
        BY <1>1, <1>2, <3>2
      <4>2. k + 1 <= q <=> k <= p
        BY <1>1, <2>1, <3>2
      <4> QED  BY <2>1, <4>1, <4>2
    <3> QED  BY <3>1, <3>2
  <2> QED  BY <1>2, <2>2, <2>3 DEF Rank
<1> QED  BY <1>2, <1>3, <1>4

(***************************************************************************)
(* Two insertions.  Each is placed by its rank in the list without the     *)
(* other; the lower of the two ends up one place further down.             *)
(***************************************************************************)
Insertion == [el : Desc, raw : Nat, idx : Nat]
El(d) == IF d = <<>> THEN <<>> ELSE <<d[1].el>>
Placed(t, d) == d # <<>> => Rank(t, d[1].el.prio, d[1].raw)
Passes(d, x) == d # <<>> /\ d[1].el.prio <= x

Merged(t, hi, lo) ==
  [k \in 1..(Len(t) + Len(hi) + Len(lo)) |->
     IF hi = <<>> \/ k <= hi[1].raw THEN t[k]
     ELSE IF k = hi[1].raw + 1 THEN hi[1].el
     ELSE IF lo = <<>> \/ k <= lo[1].raw + 1 THEN t[k-1]
     ELSE IF k = lo[1].raw + 2 THEN lo[1].el
     ELSE t[k-2]]

(* The insertion of PifoList, by the rank. *)
LEMMA PushByRank ==
  ASSUME NEW s \in Seq(Desc), Sorted(s), NEW e \in Desc, NEW r, Rank(s, e.prio, r),
         NEW v, v = Push(s, <<e>>)
  PROVE  /\ v \in Seq(Desc) /\ Len(v) = Len(s) + 1
         /\ Sorted(v)
         /\ \A k \in 1..(Len(s)+1) :
              v[k] = IF k < r + 1 THEN s[k] ELSE IF k = r + 1 THEN e ELSE s[k-1]
         /\ \A x \in Nat, q \in Nat :
              Rank(s, x, q) => Rank(v, x, q + Bit(e.prio <= x))
<1>1. Push(s, <<e>>) = InsertAt(s, PushIdx(s, e), e)
  BY DEF Push
<1>2. PushIdx(s, e) = r + 1
  BY PushIdxRank
<1> DEFINE i == r + 1
           t == InsertAt(s, i, e)
<1>3. i \in 1..(Len(s)+1)
  <2>1. Len(s) \in Nat /\ r \in 0..Len(s)
    BY DescSeq DEF Rank
  <2> QED  BY <2>1
<1>4. \A k \in 1..(Len(s)+1) :
        t[k] = IF k < i THEN s[k] ELSE IF k = i THEN e ELSE s[k-1]
  <2> HIDE DEF i
  <2>1. Inserted(t, s, i, e)
    BY <1>3, InsertDesc
  <2> QED  BY <2>1 DEF Inserted
<1>5. /\ t \in Seq(Desc) /\ Len(t) = Len(s) + 1
      /\ Sorted(t)
      /\ \A x \in Nat, q \in Nat : Rank(s, x, q) => Rank(t, x, q + Bit(e.prio <= x))
  BY InsertRank
<1>6. Push(s, <<e>>) = t
  BY <1>1, <1>2
<1> HIDE DEF t
<1> QED  BY Zenon, <1>4, <1>5, <1>6

(* A slot is empty or holds one insertion. *)
LEMMA InsertionSlot ==
  ASSUME NEW d \in Slot(Insertion)
  PROVE  \/ d = <<>> /\ Len(d) = 0
         \/ /\ d # <<>> /\ Len(d) = 1 /\ d = <<d[1]>> /\ d[1] \in Insertion
            /\ d[1].el \in Desc /\ d[1].el.prio \in Nat /\ d[1].raw \in Nat /\ d[1].idx \in Nat
<1>1. CASE d = <<>>
  BY <1>1
<1>2. CASE d # <<>>
  <2>1. PICK x \in Insertion : d = <<x>>
    BY <1>2 DEF Slot
  <2>2. x.el \in Desc /\ x.raw \in Nat /\ x.idx \in Nat
    BY DEF Insertion
  <2>3. x.el.prio \in Nat
    BY Zenon, <2>2, DescriptorAssumption DEF Desc
  <2>4. Len(d) = 1 /\ d[1] = x
    BY <2>1
  <2> QED  BY <1>2, <2>1, <2>2, <2>3, <2>4
<1> QED  BY <1>1, <1>2
(* Two lists with the same elements are equal. *)
LEMMA SameElements ==
  ASSUME NEW s \in Seq(Desc), NEW n \in Nat, Len(s) = n, NEW f, f = [k \in 1..n |-> f[k]],
         \A k \in 1..n : s[k] = f[k]
  PROVE  s = f
<1>1. s \in [1..n -> Desc]
  BY ListLen
<1>2. s = [k \in 1..n |-> s[k]]
  BY <1>1
<1> QED  BY <1>2

(* One of them. *)
LEMMA PushPlaced ==
  ASSUME NEW t \in Seq(Desc), Sorted(t), NEW d \in Slot(Insertion), d # <<>>, Placed(t, d),
         NEW v, v = Push(t, El(d))
  PROVE  /\ v \in Seq(Desc) /\ Len(v) = Len(t) + 1
         /\ Sorted(v)
         /\ \A x \in Nat, q \in Nat : Rank(t, x, q) => Rank(v, x, q + Bit(Passes(d, x)))
         /\ \A k \in 1..(Len(t)+1) :
              v[k] = IF k < d[1].raw + 1 THEN t[k]
                     ELSE IF k = d[1].raw + 1 THEN d[1].el ELSE t[k-1]
         /\ d[1].raw \in 0..Len(t)
<1> DEFINE e == d[1].el
           r == d[1].raw
<1>1. e \in Desc /\ Rank(t, e.prio, r)
  BY InsertionSlot DEF Placed
<1>2. \A x \in Nat : Passes(d, x) = (e.prio <= x)
  BY <1>1, DescriptorAssumption DEF Passes, Desc
<1>3. r \in 0..Len(t)
  BY <1>1 DEF Rank
<1>4. v = Push(t, <<e>>)
  BY DEF El
<1> HIDE DEF e, r
<1>5. /\ v \in Seq(Desc) /\ Len(v) = Len(t) + 1
      /\ Sorted(v)
      /\ \A k \in 1..(Len(t)+1) :
           v[k] = IF k < r + 1 THEN t[k] ELSE IF k = r + 1 THEN e ELSE t[k-1]
      /\ \A x \in Nat, q \in Nat : Rank(t, x, q) => Rank(v, x, q + Bit(e.prio <= x))
  BY Zenon, <1>1, <1>4, PushByRank
<1>6. \A x \in Nat, q \in Nat : Rank(t, x, q) => Rank(v, x, q + Bit(Passes(d, x)))
  BY Zenon, <1>2, <1>5
<1> QED  BY <1>3, <1>5, <1>6 DEF e, r

(* Both insertions, one after the other as in ListClock. *)
LEMMA PushBoth ==
  ASSUME NEW t \in Seq(Desc), Sorted(t),
         NEW d1 \in Slot(Insertion), NEW d2 \in Slot(Insertion), Placed(t, d1), Placed(t, d2),
         NEW u, u = Push(Push(t, El(d1)), El(d2))
  PROVE  /\ u \in Seq(Desc) /\ Len(u) = Len(t) + Len(d1) + Len(d2)
         /\ Sorted(u)
         /\ \A x \in Nat, q \in Nat : Rank(t, x, q) =>
              Rank(u, x, q + Bit(Passes(d1, x)) + Bit(Passes(d2, x)))
         /\ u = Merged(t, Upper(d1, d2), Lower(d1, d2))
<1> DEFINE hi == Upper(d1, d2)
           lo == Lower(d1, d2)
           m == Merged(t, hi, lo)
           n == Len(t)
           r1 == d1[1].raw
           r2 == d2[1].raw
           e1 == d1[1].el
           e2 == d2[1].el
<1>1. n \in Nat
  BY DescSeq
<1>2. \A s : Push(s, <<>>) = s
  BY DEF Push
<1>3. CASE d1 = <<>> /\ d2 = <<>>
  <2>1. u = t
    BY <1>2, <1>3 DEF El
  <2>2. Len(d1) = 0 /\ Len(d2) = 0 /\ hi = <<>> /\ lo = <<>>
    BY <1>3 DEF Upper, Lower, SecondIsUpper
  <2>3. \A x \in Nat : Bit(Passes(d1, x)) = 0 /\ Bit(Passes(d2, x)) = 0
    BY <1>3 DEF Passes, Bit
  <2>4. t = m
    <3>1. m = [k \in 1..n |-> t[k]]
      BY <1>1, <2>2 DEF Merged
    <3>2. t \in [1..n -> Desc]
      BY ListLen
    <3> QED  BY <3>1, <3>2
  <2> HIDE DEF m
  <2>5. \A x \in Nat, q \in Nat : q + Bit(Passes(d1, x)) + Bit(Passes(d2, x)) = q
    BY <2>3
  <2> QED  BY <1>1, <2>1, <2>2, <2>4, <2>5 DEF m
<1>4. CASE (d1 = <<>>) # (d2 = <<>>)
  <2> DEFINE d == IF d1 = <<>> THEN d2 ELSE d1
  <2>1. d \in Slot(Insertion) /\ d # <<>> /\ Placed(t, d) /\ u = Push(t, El(d))
    BY <1>2, <1>4 DEF El
  <2>2. hi = d /\ lo = <<>>
    BY <1>4 DEF Upper, Lower, SecondIsUpper
  <2>3. Len(d1) + Len(d2) = 1 /\ Len(d1) \in Nat /\ Len(d2) \in Nat
    <3>1. Len(d1) = IF d1 = <<>> THEN 0 ELSE 1
      BY InsertionSlot
    <3>2. Len(d2) = IF d2 = <<>> THEN 0 ELSE 1
      BY InsertionSlot
    <3> QED  BY <1>4, <3>1, <3>2
  <2>4. \A x \in Nat, q \in Nat :
          q + Bit(Passes(d1, x)) + Bit(Passes(d2, x)) = q + Bit(Passes(d, x))
    BY <1>4 DEF Passes, Bit
  <2>5. Len(d) = 1
    BY <2>1, InsertionSlot
  <2> HIDE DEF d, hi, lo
  <2>6. /\ u \in Seq(Desc) /\ Len(u) = n + 1
        /\ Sorted(u)
        /\ \A x \in Nat, q \in Nat : Rank(t, x, q) => Rank(u, x, q + Bit(Passes(d, x)))
        /\ \A k \in 1..(n+1) :
             u[k] = IF k < d[1].raw + 1 THEN t[k]
                    ELSE IF k = d[1].raw + 1 THEN d[1].el ELSE t[k-1]
        /\ d[1].raw \in 0..n
    BY <2>1, PushPlaced
  <2>7. m = [k \in 1..(n+1) |->
               IF k <= d[1].raw THEN t[k]
               ELSE IF k = d[1].raw + 1 THEN d[1].el ELSE t[k-1]]
    <3>1. Len(hi) = 1 /\ Len(lo) = 0 /\ hi # <<>> /\ n + 1 + 0 = n + 1
      BY <1>1, <2>1, <2>2, <2>5
    <3> QED  BY <2>2, <3>1 DEF Merged
  <2>8. \A k \in 1..(n+1) : u[k] = m[k]
    BY <1>1, <2>6, <2>7
  <2>9. u = m
    BY <1>1, <2>6, <2>7, <2>8, SameElements
  <2>10. Len(u) = Len(t) + Len(d1) + Len(d2)
    BY <1>1, <2>3, <2>6
  <2> QED  BY <2>4, <2>6, <2>9, <2>10 DEF hi, lo
<1>5. CASE d1 # <<>> /\ d2 # <<>>
  <2> DEFINE v == Push(t, El(d1))
             sec == e2.prio < e1.prio
  <2>1. /\ v \in Seq(Desc) /\ Len(v) = n + 1
        /\ Sorted(v)
        /\ \A x \in Nat, q \in Nat : Rank(t, x, q) => Rank(v, x, q + Bit(Passes(d1, x)))
        /\ \A k \in 1..(n+1) :
             v[k] = IF k < r1 + 1 THEN t[k] ELSE IF k = r1 + 1 THEN e1 ELSE t[k-1]
        /\ r1 \in 0..n
    BY Zenon, <1>5, PushPlaced
  <2>2. e1 \in Desc /\ e1.prio \in Nat /\ r1 \in Nat /\ Len(d1) = 1
    BY <1>5, InsertionSlot
  <2>3. e2 \in Desc /\ e2.prio \in Nat /\ r2 \in Nat /\ Len(d2) = 1
    BY <1>5, InsertionSlot
  <2>4. Rank(t, e1.prio, r1) /\ Rank(t, e2.prio, r2)
    BY <1>5 DEF Placed
  <2>5. r2 \in 0..n /\ (sec => r2 <= r1) /\ (~sec => r1 <= r2)
    <3>1. r2 \in 0..n
      BY <2>4 DEF Rank
    <3>2. sec => r2 <= r1
      BY <2>2, <2>3, <2>4, RankOrder
    <3>3. ~sec => r1 <= r2
      BY <2>2, <2>3, <2>4, RankOrder
    <3> QED  BY Zenon, <3>1, <3>2, <3>3
  <2>6. hi = (IF sec THEN d2 ELSE d1) /\ lo = (IF sec THEN d1 ELSE d2)
    BY <1>5 DEF Upper, Lower, SecondIsUpper
  <2>7. u = Push(v, <<e2>>)
    BY <1>5 DEF El
  <2>8. \A x \in Nat : Passes(d1, x) = (e1.prio <= x) /\ Passes(d2, x) = (e2.prio <= x)
    BY <1>5, <2>2, <2>3 DEF Passes
  <2> HIDE DEF v, e1, e2, r1, r2, hi, lo
  <2> DEFINE r == r2 + (IF sec THEN 0 ELSE 1)
  <2>9. Rank(v, e2.prio, r) /\ r \in Nat
    <3>1. Rank(v, e2.prio, r2 + Bit(Passes(d1, e2.prio)))
      BY Zenon, <2>1, <2>3, <2>4
    <3>2. Bit(Passes(d1, e2.prio)) = IF sec THEN 0 ELSE 1
      <4>1. Passes(d1, e2.prio) = (e1.prio <= e2.prio)
        BY <2>3, <2>8, Zenon
      <4>2. (e1.prio <= e2.prio) <=> ~sec
        BY <2>2, <2>3
      <4> HIDE DEF sec
      <4> QED  BY Zenon, <4>1, <4>2 DEF Bit
    <3> QED  BY <2>3, <3>1, <3>2
  <2> HIDE DEF r
  <2>10. /\ u \in Seq(Desc) /\ Len(u) = Len(v) + 1
         /\ Sorted(u)
         /\ \A k \in 1..(Len(v)+1) :
              u[k] = IF k < r + 1 THEN v[k] ELSE IF k = r + 1 THEN e2 ELSE v[k-1]
         /\ \A x \in Nat, q \in Nat : Rank(v, x, q) => Rank(u, x, q + Bit(e2.prio <= x))
    BY Zenon, <2>1, <2>3, <2>7, <2>9, PushByRank
  <2>11. \A x \in Nat, q \in Nat : Rank(t, x, q) =>
           Rank(u, x, q + Bit(Passes(d1, x)) + Bit(Passes(d2, x)))
    <3> SUFFICES ASSUME NEW x \in Nat, NEW q \in Nat, Rank(t, x, q)
                 PROVE  Rank(u, x, q + Bit(Passes(d1, x)) + Bit(Passes(d2, x)))
      OBVIOUS
    <3> DEFINE q1 == q + Bit(Passes(d1, x))
    <3>1. Rank(v, x, q1)
      BY <2>1
    <3>2. q1 \in Nat
      BY DEF Bit
    <3> HIDE DEF q1
    <3>3. Rank(u, x, q1 + Bit(e2.prio <= x))
      BY <2>10, <3>1, <3>2
    <3>4. Rank(u, x, q1 + Bit(Passes(d2, x)))
      BY <2>8, <3>3
    <3> QED  BY <3>4 DEF q1
  <2>12. \A k \in 1..(n+2) : u[k] = m[k]
    <3> SUFFICES ASSUME NEW k \in 1..(n+2)
                 PROVE  u[k] = m[k]
      BY Zenon
    <3>1. Len(hi) = 1 /\ Len(lo) = 1 /\ hi # <<>> /\ lo # <<>>
      BY <1>5, <2>2, <2>3, <2>6
    <3>2. k \in 1..(n + Len(hi) + Len(lo))
      BY <1>1, <3>1
    <3>3. m[k] = IF k <= hi[1].raw THEN t[k]
                 ELSE IF k = hi[1].raw + 1 THEN hi[1].el
                 ELSE IF k <= lo[1].raw + 1 THEN t[k-1]
                 ELSE IF k = lo[1].raw + 2 THEN lo[1].el
                 ELSE t[k-2]
      BY Zenon, <3>1, <3>2 DEF Merged
    <3>4. u[k] = IF k < r + 1 THEN v[k] ELSE IF k = r + 1 THEN e2 ELSE v[k-1]
      BY <1>1, <2>1, <2>10
    <3>5. CASE sec
      <4>1. hi[1].raw = r2 /\ hi[1].el = e2 /\ lo[1].raw = r1 /\ lo[1].el = e1 /\ r = r2
        BY <2>3, <2>6, <3>5 DEF r, r1, r2, e1, e2
      <4> HIDE DEF m
      <4>2. m[k] = IF k <= r2 THEN t[k] ELSE IF k = r2 + 1 THEN e2
                   ELSE IF k <= r1 + 1 THEN t[k-1] ELSE IF k = r1 + 2 THEN e1 ELSE t[k-2]
        BY Zenon, <3>3, <4>1
      <4>3. k <= n + 1 => v[k] = IF k < r1 + 1 THEN t[k] ELSE IF k = r1 + 1 THEN e1 ELSE t[k-1]
        BY <1>1, <2>1
      <4>4. k >= 2 => v[k-1] = IF k - 1 < r1 + 1 THEN t[k-1] ELSE IF k - 1 = r1 + 1 THEN e1 ELSE t[k-1-1]
        BY <1>1, <2>1
      <4>5. k - 1 - 1 = k - 2
        OBVIOUS
      <4> QED  BY <1>1, <2>1, <2>5, <3>4, <3>5, <4>1, <4>2, <4>3, <4>4, <4>5
    <3>6. CASE ~sec
      <4>1. hi[1].raw = r1 /\ hi[1].el = e1 /\ lo[1].raw = r2 /\ lo[1].el = e2 /\ r = r2 + 1
        BY Zenon, <2>3, <2>6, <3>6 DEF r, r1, r2, e1, e2
      <4> HIDE DEF m
      <4>2. m[k] = IF k <= r1 THEN t[k] ELSE IF k = r1 + 1 THEN e1
                   ELSE IF k <= r2 + 1 THEN t[k-1] ELSE IF k = r2 + 2 THEN e2 ELSE t[k-2]
        BY Zenon, <3>3, <4>1
      <4>3. k <= n + 1 => v[k] = IF k < r1 + 1 THEN t[k] ELSE IF k = r1 + 1 THEN e1 ELSE t[k-1]
        BY <1>1, <2>1
      <4>4. k >= 2 => v[k-1] = IF k - 1 < r1 + 1 THEN t[k-1] ELSE IF k - 1 = r1 + 1 THEN e1 ELSE t[k-1-1]
        BY <1>1, <2>1
      <4>5. k - 1 - 1 = k - 2
        OBVIOUS
      <4> QED  BY <1>1, <2>1, <2>5, <3>4, <3>6, <4>1, <4>2, <4>3, <4>4, <4>5
    <3> QED  BY Zenon, <3>5, <3>6
  <2>13. Len(u) = n + 2 /\ n + 2 = Len(t) + Len(d1) + Len(d2)
    BY <1>1, <2>1, <2>2, <2>3, <2>10
  <2>14. m = [k \in 1..(n+2) |-> m[k]]
    <3>1. Len(hi) = 1 /\ Len(lo) = 1
      BY <2>2, <2>3, <2>6
    <3>2. n + Len(hi) + Len(lo) = n + 2
      BY <1>1, <3>1
    <3> QED  BY Zenon, <3>2 DEF Merged
  <2>15. u = m
    <3> HIDE DEF m
    <3>1. n + 2 \in Nat
      BY <1>1
    <3> QED  BY <2>10, <2>12, <2>13, <2>14, <3>1, SameElements
  <2> QED  BY Zenon, <2>10, <2>11, <2>13, <2>15 DEF hi, lo
<1> QED  BY <1>3, <1>4, <1>5
(***************************************************************************)
(* The inductive invariant.  Held is the list in the registers, Kept what  *)
(* is left of it by the pop in flight, and Pf, Lo and Out are the list, the *)
(* lower insertion and the output that the registers stand for.            *)
(***************************************************************************)
Held == [k \in 1..pf_cnt |-> arr[k-1]]
Kept == IF pop_del = <<>> THEN Held ELSE RemoveAt(Held, pop_del[1] + 1)
Pf   == [k \in 1..NextCnt |-> NextArr[k-1]]
Lo   == IF push_lo_del = <<>> THEN <<>> ELSE <<push_lo_del[1].el.app>>
Out  == IF pop_del = <<>> THEN <<>> ELSE <<arr[pop_del[1]]>>

Layout ==
  /\ pf_cnt \in 0..(NumPifo-1)
  /\ Held \in Seq(Desc)
  /\ Sorted(Held)
  /\ pop_del \in Slot(0..(pf_cnt-1))
  /\ push_1_del \in Slot(Insertion)
  /\ push_2_del \in Slot(Insertion)
  /\ Placed(Kept, push_1_del)
  /\ Placed(Kept, push_2_del)
  /\ push_hi_del # <<>> => push_hi_del[1].idx = push_hi_del[1].raw
  /\ push_lo_del # <<>> => push_lo_del[1].idx = push_lo_del[1].raw + 1
  /\ Len(Kept) + Len(push_1_del) + Len(push_2_del) < NumPifo

ArrInv ==
  /\ Layout
  /\ Distinct(Pf)
  /\ Out # <<>> => Out[1].app \notin Apps(Pf)

(* Kept, register by register. *)
LEMMA KeptElements ==
  ASSUME Layout
  PROVE  /\ Len(Held) = pf_cnt
         /\ Kept \in Seq(Desc) /\ Sorted(Kept)
         /\ Len(Kept) = pf_cnt - Len(pop_del)
         /\ Len(pop_del) \in 0..1
         /\ pop_del # <<>> => Len(pop_del) = 1 /\ pop_del[1] \in 0..(pf_cnt-1)
         /\ \A k \in 1..Len(Kept) :
              Kept[k] = IF pop_del = <<>> \/ k <= pop_del[1] THEN arr[k-1] ELSE arr[k]
<1>1. pf_cnt \in Nat /\ Held \in Seq(Desc) /\ Sorted(Held) /\ pop_del \in Slot(0..(pf_cnt-1))
  BY NumPifoAssumption DEF Layout
<1>2. Len(Held) = pf_cnt /\ \A k \in 1..pf_cnt : Held[k] = arr[k-1]
  BY <1>1 DEF Held
<1>3. CASE pop_del = <<>>
  <2>1. Kept = Held /\ Len(pop_del) = 0
    BY <1>3 DEF Kept
  <2> QED  BY <1>1, <1>2, <1>3, <2>1
<1>4. CASE pop_del # <<>>
  <2>1. PICK p \in 0..(pf_cnt-1) : pop_del = <<p>>
    BY <1>1, <1>4 DEF Slot
  <2>2. Len(pop_del) = 1 /\ pop_del[1] = p
    BY <2>1
  <2> DEFINE i == p + 1
  <2>3. Kept = RemoveAt(Held, i)
    BY <1>4, <2>2 DEF Kept
  <2>4. i \in 1..Len(Held)
    BY <1>1, <1>2
  <2> HIDE DEF i
  <2>5. /\ Kept \in Seq(Desc) /\ Len(Kept) = Len(Held) - 1
        /\ \A k \in 1..(Len(Held)-1) : Kept[k] = IF k < i THEN Held[k] ELSE Held[k+1]
    BY Zenon, <1>1, <2>3, <2>4, RemoveAtElements
  <2>6. Sorted(Kept)
    BY <1>1, <2>3, <2>4, RemoveRank
  <2>7. ASSUME NEW k \in 1..Len(Kept)
        PROVE  Kept[k] = IF k <= p THEN arr[k-1] ELSE arr[k]
    <3>1. k \in 1..(Len(Held)-1) /\ k \in 1..pf_cnt /\ k + 1 \in 1..pf_cnt
      BY <1>1, <1>2, <2>5
    <3>2. Held[k] = arr[k-1] /\ Held[k+1] = arr[k+1-1] /\ k + 1 - 1 = k
      BY <1>2, <3>1
    <3>3. k < i <=> k <= p
      BY <3>1 DEF i
    <3> QED  BY Zenon, <2>5, <3>1, <3>2, <3>3
  <2> QED  BY <1>2, <1>4, <2>2, <2>5, <2>6, <2>7
<1> QED  BY <1>3, <1>4
(* Of the insertions in flight the upper has the lesser rank. *)
LEMMA UpperLower ==
  ASSUME Layout
  PROVE  LET hi == push_hi_del
             lo == push_lo_del
         IN  /\ hi \in Slot(Insertion) /\ lo \in Slot(Insertion)
             /\ Placed(Kept, hi) /\ Placed(Kept, lo)
             /\ hi = <<>> <=> push_1_del = <<>> /\ push_2_del = <<>>
             /\ lo # <<>> => hi # <<>> /\ hi[1].raw <= lo[1].raw
             /\ Len(hi) + Len(lo) = Len(push_1_del) + Len(push_2_del)
             /\ \/ lo = <<>> /\ hi = (IF push_1_del = <<>> THEN push_2_del ELSE push_1_del)
                                /\ (push_1_del = <<>> \/ push_2_del = <<>>)
                \/ hi = push_1_del /\ lo = push_2_del /\ lo # <<>>
                \/ hi = push_2_del /\ lo = push_1_del /\ lo # <<>>
<1> DEFINE d1 == push_1_del
           d2 == push_2_del
           hi == push_hi_del
           lo == push_lo_del
<1>1. /\ d1 \in Slot(Insertion) /\ d2 \in Slot(Insertion)
      /\ Placed(Kept, d1) /\ Placed(Kept, d2)
  BY DEF Layout
<1>2. Kept \in Seq(Desc)
  BY KeptElements
<1>3. Len(d1) \in Nat /\ Len(d2) \in Nat /\ (d1 = <<>> => Len(d1) = 0) /\ (d2 = <<>> => Len(d2) = 0)
  <2>1. Len(d1) \in Nat /\ (d1 = <<>> => Len(d1) = 0)
    BY <1>1, InsertionSlot
  <2>2. Len(d2) \in Nat /\ (d2 = <<>> => Len(d2) = 0)
    BY <1>1, InsertionSlot
  <2> QED  BY <2>1, <2>2
<1>4. <<>> \in Slot(Insertion) /\ Placed(Kept, <<>>) /\ Len(<<>>) = 0
  BY DEF Slot, Placed
<1>5. CASE d1 = <<>> \/ d2 = <<>>
  <2>1. lo = <<>> /\ hi = IF d1 = <<>> THEN d2 ELSE d1
    BY <1>5 DEF push_hi_del, push_lo_del, Upper, Lower, SecondIsUpper
  <2> QED  BY <1>1, <1>3, <1>4, <1>5, <2>1
<1>6. CASE d1 # <<>> /\ d2 # <<>>
  <2> DEFINE sec == d2[1].el.prio < d1[1].el.prio
  <2>1. hi = (IF sec THEN d2 ELSE d1) /\ lo = (IF sec THEN d1 ELSE d2)
    BY <1>6 DEF push_hi_del, push_lo_del, Upper, Lower, SecondIsUpper
  <2>2. d1[1].el.prio \in Nat /\ Rank(Kept, d1[1].el.prio, d1[1].raw)
    BY <1>1, <1>6, InsertionSlot DEF Placed
  <2>3. d2[1].el.prio \in Nat /\ Rank(Kept, d2[1].el.prio, d2[1].raw)
    BY <1>1, <1>6, InsertionSlot DEF Placed
  <2>4. sec => d2[1].raw <= d1[1].raw
    BY <1>2, <2>2, <2>3, RankOrder
  <2>5. ~sec => d1[1].raw <= d2[1].raw
    BY <1>2, <2>2, <2>3, RankOrder
  <2> HIDE DEF hi, lo, sec
  <2>6. Len(hi) + Len(lo) = Len(d1) + Len(d2)
    BY <1>3, <2>1
  <2>7. hi \in Slot(Insertion) /\ lo \in Slot(Insertion) /\ Placed(Kept, hi) /\ Placed(Kept, lo)
    BY <1>1, <2>1
  <2>8. lo # <<>> /\ hi # <<>> /\ hi[1].raw <= lo[1].raw
    BY <1>6, <2>1, <2>4, <2>5
  <2> QED  BY <1>6, <2>1, <2>6, <2>7, <2>8 DEF hi, lo
<1> QED  BY <1>5, <1>6

(* The registers after the operations in flight hold Kept with the         *)
(* insertions at their ranks.                                              *)
LEMMA ArrayMerged ==
  ASSUME Layout
  PROVE  /\ NextCnt = Len(Kept) + Len(push_1_del) + Len(push_2_del)
         /\ NextCnt \in 0..(NumPifo-1)
         /\ Pf = Merged(Kept, push_hi_del, push_lo_del)
<1> DEFINE d1 == push_1_del
           d2 == push_2_del
           hi == push_hi_del
           lo == push_lo_del
           n == Len(Kept)
           m == Merged(Kept, hi, lo)
<1>1. NumPifo \in Nat /\ pf_cnt \in 0..(NumPifo-1)
  BY NumPifoAssumption DEF Layout
<1>2. n \in Nat /\ n = pf_cnt - Len(pop_del) /\ Len(pop_del) \in 0..1
  BY KeptElements, DescSeq
<1>3. Len(d1) \in Nat /\ Len(d2) \in Nat
  <2>1. Len(d1) \in Nat
    BY InsertionSlot DEF Layout
  <2>2. Len(d2) \in Nat
    BY InsertionSlot DEF Layout
  <2> QED  BY <2>1, <2>2
<1>4. NextCnt = n + Len(d1) + Len(d2) /\ NextCnt \in 0..(NumPifo-1)
  <2>1. n + Len(d1) + Len(d2) < NumPifo
    BY DEF Layout
  <2> QED  BY <1>1, <1>2, <1>3, <2>1 DEF NextCnt
<1>5. /\ hi \in Slot(Insertion) /\ lo \in Slot(Insertion)
      /\ hi = <<>> <=> d1 = <<>> /\ d2 = <<>>
      /\ lo # <<>> => hi # <<>> /\ hi[1].raw <= lo[1].raw
      /\ Len(hi) + Len(lo) = Len(d1) + Len(d2)
      /\ \/ lo = <<>> /\ hi = (IF d1 = <<>> THEN d2 ELSE d1) /\ (d1 = <<>> \/ d2 = <<>>)
         \/ hi = d1 /\ lo = d2 /\ lo # <<>>
         \/ hi = d2 /\ lo = d1 /\ lo # <<>>
  BY UpperLower
<1>6. /\ hi # <<>> => hi[1].raw \in Nat /\ hi[1].idx = hi[1].raw
      /\ lo # <<>> => lo[1].raw \in Nat /\ lo[1].idx = lo[1].raw + 1
  <2>1. hi # <<>> => hi[1].raw \in Nat
    BY <1>5, InsertionSlot
  <2>2. lo # <<>> => lo[1].raw \in Nat
    BY <1>5, InsertionSlot
  <2> QED  BY <2>1, <2>2 DEF Layout
<1> HIDE DEF d1, d2, hi, lo, n
<1>7. ASSUME NEW k \in 1..NextCnt
      PROVE  NextArr[k-1] = m[k]
  <2> DEFINE v == k - 1
             lo_move == lo # <<>> /\ v > lo[1].idx
             hi_move == hi # <<>> /\ v > hi[1].idx
             moved == IF lo_move /\ ~PopShift(v - 2) THEN arr[v-2]
                      ELSE IF \/ lo_move /\ PopShift(v - 2)
                              \/ ~lo_move /\ hi_move /\ ~PopShift(v - 1) THEN arr[v-1]
                      ELSE IF ~lo_move /\ ~hi_move /\ PopShift(v) THEN arr[v+1]
                      ELSE arr[v]
  <2>1. v \in Idx /\ v < NumPifo - 1
    BY <1>1, <1>4 DEF Idx
  <2>2. (lo # <<>> /\ v > lo[1].idx /\ v > 1 <=> lo_move) /\ (hi # <<>> /\ v > hi[1].idx /\ v > 0 <=> hi_move)
    BY <1>6, <2>1 DEF Idx
  <2>3. NextArr[v] = IF d1 # <<>> /\ d1[1].idx = v THEN d1[1].el
                     ELSE IF d2 # <<>> /\ d2[1].idx = v THEN d2[1].el
                     ELSE moved
    BY <2>1, <2>2 DEF NextArr, d1, d2, hi, lo
  <2> HIDE DEF moved
  <2>4. lo # <<>> => hi[1].idx # lo[1].idx
    BY <1>5, <1>6
  <2>5. NextArr[v] = IF hi # <<>> /\ hi[1].idx = v THEN hi[1].el
                     ELSE IF lo # <<>> /\ lo[1].idx = v THEN lo[1].el
                     ELSE moved
    BY <1>5, <2>3, <2>4
  <2>6. \A j \in 1..n :
          Kept[j] = IF pop_del = <<>> \/ j <= pop_del[1] THEN arr[j-1] ELSE arr[j]
    BY KeptElements DEF n
  <2>7. pop_del # <<>> => pop_del[1] \in Nat
    BY KeptElements
  <2>8. \A i \in Int : PopShift(i) <=> pop_del # <<>> /\ pop_del[1] <= i
    BY DEF PopShift
  <2>9. /\ hi = <<>> => Len(hi) = 0 /\ lo = <<>>
        /\ hi # <<>> => Len(hi) = 1 /\ hi[1].raw <= n
        /\ lo = <<>> => Len(lo) = 0
        /\ lo # <<>> => Len(lo) = 1 /\ lo[1].raw <= n
    <3>1. Placed(Kept, hi) /\ Placed(Kept, lo)
      BY UpperLower DEF hi, lo
    <3>2. hi # <<>> => hi[1].raw \in 0..n
      BY <3>1 DEF Placed, Rank, n
    <3>3. lo # <<>> => lo[1].raw \in 0..n
      BY <3>1 DEF Placed, Rank, n
    <3>4. Len(hi) = IF hi = <<>> THEN 0 ELSE 1
      BY <1>5, InsertionSlot
    <3>5. Len(lo) = IF lo = <<>> THEN 0 ELSE 1
      BY <1>5, InsertionSlot
    <3>6. hi = <<>> => lo = <<>>
      BY <1>5
    <3>7. /\ hi # <<>> => hi[1].raw <= n
          /\ lo # <<>> => lo[1].raw <= n
      BY <1>2, <3>2, <3>3
    <3> QED  BY <3>4, <3>5, <3>6, <3>7
  <2>10. NextCnt = n + Len(hi) + Len(lo) /\ k \in Nat /\ k >= 1 /\ k <= NextCnt
    <3>1. Len(hi) \in Nat /\ Len(lo) \in Nat
      BY <2>9
    <3>2. Len(hi) + Len(lo) = Len(d1) + Len(d2)
      BY <1>5
    <3>3. NextCnt \in Nat /\ NextCnt = n + Len(d1) + Len(d2)
      BY <1>1, <1>4
    <3> HIDE DEF NextCnt
    <3> QED  BY <1>2, <1>3, <3>1, <3>2, <3>3
  <2>11. m[k] = IF hi = <<>> \/ k <= hi[1].raw THEN Kept[k]
                ELSE IF k = hi[1].raw + 1 THEN hi[1].el
                ELSE IF lo = <<>> \/ k <= lo[1].raw + 1 THEN Kept[k-1]
                ELSE IF k = lo[1].raw + 2 THEN lo[1].el
                ELSE Kept[k-2]
    BY <2>10 DEF Merged, n
  <2> HIDE DEF m
  <2>12. CASE hi = <<>> \/ k <= hi[1].raw
    <3>1. k \in 1..n /\ ~lo_move /\ ~hi_move
      <4>1. CASE hi = <<>>
        BY <1>2, <1>5, <2>9, <2>10, <4>1
      <4>2. CASE hi # <<>>
        <5>1. k <= hi[1].raw
          BY <2>12, <4>2
        <5>2. hi[1].raw \in Nat /\ hi[1].idx = hi[1].raw /\ hi[1].raw <= n
          BY <1>6, <2>9, <4>2
        <5>3. k \in 1..n /\ ~hi_move
          BY <1>2, <2>10, <5>1, <5>2
        <5>4. lo # <<>> => ~(v > lo[1].idx)
          <6>1. lo # <<>> => lo[1].raw \in Nat /\ lo[1].idx = lo[1].raw + 1 /\ hi[1].raw <= lo[1].raw
            BY Zenon, <1>5, <1>6
          <6> QED  BY <2>10, <5>1, <5>2, <6>1
        <5> QED  BY <5>3, <5>4
      <4> QED  BY <4>1, <4>2
    <3>2. NextArr[v] = moved
      BY <1>5, <1>6, <2>5, <2>9, <2>10, <2>12
    <3>3. PopShift(v) <=> ~(pop_del = <<>> \/ k <= pop_del[1])
      BY <2>7, <2>8, <2>10
    <3>4. moved = IF pop_del = <<>> \/ k <= pop_del[1] THEN arr[v] ELSE arr[v+1]
      BY Zenon, <3>1, <3>3 DEF moved
    <3>5. v + 1 = k
      BY <2>10
    <3> QED  BY Zenon, <2>6, <2>11, <2>12, <3>1, <3>2, <3>4, <3>5
  <2>13. CASE ~(hi = <<>> \/ k <= hi[1].raw) /\ k = hi[1].raw + 1
    <3>1. hi[1].idx = v
      BY <1>6, <2>10, <2>13
    <3> QED  BY Zenon, <2>5, <2>11, <2>13, <3>1
  <2>14. CASE /\ ~(hi = <<>> \/ k <= hi[1].raw) /\ k # hi[1].raw + 1
              /\ lo = <<>> \/ k <= lo[1].raw + 1
    <3>1. k - 1 \in 1..n /\ ~lo_move /\ hi_move
      <4>1. hi # <<>> /\ k > hi[1].raw + 1 /\ hi[1].raw \in Nat /\ hi[1].idx = hi[1].raw /\ Len(hi) = 1
        BY <1>6, <2>9, <2>10, <2>14
      <4>2. CASE lo = <<>>
        <5>1. Len(lo) = 0
          BY <2>9, <4>2
        <5>2. k <= n + 1
          BY <1>2, <2>10, <4>1, <5>1
        <5>3. k - 1 \in 1..n /\ k - 1 > hi[1].idx
          BY <1>2, <2>10, <4>1, <5>2
        <5> QED  BY <4>1, <4>2, <5>3
      <4>3. CASE lo # <<>>
        <5>1. k <= lo[1].raw + 1 /\ lo[1].raw <= n /\ lo[1].raw \in Nat /\ lo[1].idx = lo[1].raw + 1
          BY <1>6, <2>9, <2>14, <4>3
        <5>2. k - 1 \in 1..n
          BY <1>2, <2>10, <4>1, <5>1
        <5>3. ~(k - 1 > lo[1].idx) /\ k - 1 > hi[1].idx
          BY <2>10, <4>1, <5>1
        <5> QED  BY <4>1, <5>2, <5>3
      <4> QED  BY <4>2, <4>3
    <3>2. NextArr[v] = moved
      BY <1>5, <1>6, <2>5, <2>9, <2>10, <2>14
    <3>3. PopShift(v - 1) <=> ~(pop_del = <<>> \/ k - 1 <= pop_del[1])
      BY <2>7, <2>8, <2>10
    <3>4. moved = IF pop_del = <<>> \/ k - 1 <= pop_del[1] THEN arr[v-1] ELSE arr[v]
      BY Zenon, <3>1, <3>3 DEF moved
    <3>5. Kept[k-1] = IF pop_del = <<>> \/ k - 1 <= pop_del[1] THEN arr[k-1-1] ELSE arr[k-1]
      BY <2>6, <3>1
    <3> QED  BY Zenon, <2>11, <2>14, <3>2, <3>4, <3>5
  <2>15. CASE /\ ~(hi = <<>> \/ k <= hi[1].raw) /\ k # hi[1].raw + 1
              /\ ~(lo = <<>> \/ k <= lo[1].raw + 1) /\ k = lo[1].raw + 2
    <3>1. lo[1].idx = v /\ hi[1].idx # v
      BY <1>5, <1>6, <2>10, <2>15
    <3> QED  BY Zenon, <2>5, <2>11, <2>15, <3>1
  <2>16. CASE /\ ~(hi = <<>> \/ k <= hi[1].raw) /\ k # hi[1].raw + 1
              /\ ~(lo = <<>> \/ k <= lo[1].raw + 1) /\ k # lo[1].raw + 2
    <3>1. k - 2 \in 1..n /\ lo_move
      <4>1. lo # <<>> /\ hi # <<>> /\ Len(hi) = 1 /\ Len(lo) = 1
        BY <2>9, <2>16
      <4>2. k > lo[1].raw + 2 /\ lo[1].raw \in Nat /\ lo[1].idx = lo[1].raw + 1
        BY <1>6, <2>10, <2>16, <4>1
      <4>3. k <= n + 2
        BY <1>2, <2>10, <4>1
      <4> QED  BY <1>2, <2>10, <4>1, <4>2, <4>3
    <3>2. NextArr[v] = moved
      BY <1>5, <1>6, <2>5, <2>9, <2>10, <2>16
    <3>3. PopShift(v - 2) <=> ~(pop_del = <<>> \/ k - 2 <= pop_del[1])
      BY <2>7, <2>8, <2>10
    <3>4. moved = IF pop_del = <<>> \/ k - 2 <= pop_del[1] THEN arr[v-2] ELSE arr[v-1]
      BY Zenon, <3>1, <3>3 DEF moved
    <3>5. Kept[k-2] = IF pop_del = <<>> \/ k - 2 <= pop_del[1] THEN arr[k-2-1] ELSE arr[k-2]
      BY <2>6, <3>1
    <3>6. k - 2 - 1 = v - 2 /\ k - 2 = v - 1
      BY <2>10
    <3> QED  BY Zenon, <2>11, <2>16, <3>2, <3>4, <3>5, <3>6
  <2> QED  BY <2>12, <2>13, <2>14, <2>15, <2>16
<1>8. m = [k \in 1..NextCnt |-> m[k]]
  <2>1. Len(hi) + Len(lo) = Len(d1) + Len(d2) /\ Len(hi) \in Nat /\ Len(lo) \in Nat
    <3>1. Len(hi) \in Nat
      BY <1>5, InsertionSlot
    <3>2. Len(lo) \in Nat
      BY <1>5, InsertionSlot
    <3> QED  BY <1>5, <3>1, <3>2
  <2>2. NextCnt = Len(Kept) + Len(hi) + Len(lo)
    BY <1>2, <1>3, <1>4, <2>1 DEF n
  <2> QED  BY <2>2 DEF Merged
<1> HIDE DEF m
<1>9. Pf = m
  BY <1>7, <1>8 DEF Pf
<1> QED  BY <1>4, <1>9 DEF m, n, d1, d2, hi, lo
(* The list that the registers stand for, as PifoList makes it. *)
LEMMA ListOfArray ==
  ASSUME Layout
  PROVE  /\ Pf = Push(Push(Kept, El(push_1_del)), El(push_2_del))
         /\ Pf \in Seq(Desc) /\ Sorted(Pf)
         /\ Len(Pf) = NextCnt /\ NextCnt \in 0..(NumPifo-1)
         /\ \A x \in Nat, q \in Nat : Rank(Kept, x, q) =>
              Rank(Pf, x, q + Bit(Passes(push_1_del, x)) + Bit(Passes(push_2_del, x)))
<1> DEFINE u == Push(Push(Kept, El(push_1_del)), El(push_2_del))
<1>1. Kept \in Seq(Desc) /\ Sorted(Kept)
  BY KeptElements
<1>2. /\ push_1_del \in Slot(Insertion) /\ push_2_del \in Slot(Insertion)
      /\ Placed(Kept, push_1_del) /\ Placed(Kept, push_2_del)
  BY Zenon DEF Layout
<1>3. /\ u \in Seq(Desc) /\ Len(u) = Len(Kept) + Len(push_1_del) + Len(push_2_del)
      /\ Sorted(u)
      /\ \A x \in Nat, q \in Nat : Rank(Kept, x, q) =>
           Rank(u, x, q + Bit(Passes(push_1_del, x)) + Bit(Passes(push_2_del, x)))
      /\ u = Merged(Kept, Upper(push_1_del, push_2_del), Lower(push_1_del, push_2_del))
  BY <1>1, <1>2, PushBoth
<1> HIDE DEF u
<1>4. /\ NextCnt = Len(Kept) + Len(push_1_del) + Len(push_2_del)
      /\ NextCnt \in 0..(NumPifo-1)
      /\ Pf = Merged(Kept, push_hi_del, push_lo_del)
  BY ArrayMerged
<1>5. Pf = u
  BY <1>3, <1>4 DEF push_hi_del, push_lo_del
<1> QED  BY Zenon, <1>3, <1>4, <1>5 DEF u

(* The priority encoders yield the first bit set. *)
LEMMA FirstBit ==
  ASSUME LeastExists, NEW T, T \subseteq Idx, T # {}
  PROVE  /\ Encode(T) \in T
         /\ \A j \in T : Encode(T) <= j
<1>1. T \subseteq Nat
  BY DEF Idx
<1>2. \E x \in T : \A y \in T : x <= y
  BY Zenon, <1>1 DEF LeastExists
<1>3. First(T) \in T /\ \A j \in T : First(T) <= j
  BY <1>2 DEF First
<1> QED  BY <1>3 DEF Encode

(* An index below the number of registers does not wrap. *)
LEMMA NoWrap ==
  ASSUME NEW i \in 0..(NumPifo-1)
  PROVE  Wrap(i) = i
BY NumPifoAssumption DEF Wrap

(* The index that pifo.sv computes from the registers as they were, with   *)
(* its corrections for the operations in flight and for the pop of this    *)
(* edge, is the rank of the element in the list that this edge leaves.     *)
LEMMA RawRank ==
  ASSUME LeastExists, Layout, NEW e \in Desc, NEW popped \in Slot(0..(NextCnt-1)),
         NEW t, t = IF popped = <<>> THEN Pf ELSE RemoveAt(Pf, popped[1] + 1)
  PROVE  Rank(t, e.prio, RawIdx(e, popped))
<1> DEFINE x == e.prio
           B == PushBmp(e)
           i0 == Encode(B)
           i == AfterPop(i0)
<1>1. x \in Nat
  BY Zenon, DescriptorAssumption DEF Desc
<1>2. NumPifo \in Nat /\ pf_cnt \in 0..(NumPifo-1) /\ Held \in Seq(Desc) /\ Sorted(Held)
  BY NumPifoAssumption DEF Layout
<1>3. Len(Held) = pf_cnt /\ \A k \in 1..pf_cnt : Held[k] = arr[k-1] /\ Held[k].prio \in Nat
  <2>1. Len(Held) = pf_cnt
    BY KeptElements
  <2>2. \A k \in 1..pf_cnt : Held[k].prio \in Nat
    BY <1>2, <2>1, DescSeq
  <2> QED  BY Zenon, <2>1, <2>2 DEF Held
<1>4. Rank(Held, x, i0)
  <2>1. B \subseteq Idx /\ pf_cnt \in B
    BY <1>2 DEF PushBmp, Idx
  <2>2. i0 \in B /\ \A j \in B : i0 <= j
    BY <2>1, FirstBit
  <2>3. i0 \in 0..pf_cnt
    BY <1>2, <2>1, <2>2 DEF Idx
  <2>4. \A j \in Idx : j \in B <=> j = pf_cnt \/ arr[j].prio > x
    BY DEF PushBmp
  <2> HIDE DEF i0, B
  <2>5. ASSUME NEW k \in 1..pf_cnt
        PROVE  Held[k].prio <= x <=> k <= i0
    <3>1. k - 1 \in Idx /\ Held[k] = arr[k-1] /\ Held[k].prio \in Nat
      BY <1>2, <1>3 DEF Idx
    <3>2. CASE k <= i0
      <4>1. k - 1 \notin B
        BY <2>2, <2>3, <3>2
      <4> QED  BY <1>1, <2>4, <3>1, <3>2, <4>1
    <3>3. CASE ~(k <= i0)
      <4>1. i0 \in Idx /\ i0 # pf_cnt /\ i0 + 1 \in 1..pf_cnt /\ i0 + 1 <= k
        BY <1>2, <2>3, <3>3 DEF Idx
      <4>2. arr[i0].prio > x
        BY <2>2, <2>4, <4>1
      <4>3. Held[i0+1] = arr[i0+1-1] /\ Held[i0+1].prio \in Nat /\ i0 + 1 - 1 = i0
        BY <1>3, <2>3, <4>1
      <4>4. Held[i0+1].prio > x
        BY <4>2, <4>3
      <4>5. Held[i0+1].prio <= Held[k].prio
        BY Zenon, <1>2, <1>3, <4>1 DEF Sorted
      <4> QED  BY <1>1, <3>1, <3>3, <4>3, <4>4, <4>5
    <3> QED  BY <3>2, <3>3
  <2> QED  BY <1>3, <2>3, <2>5 DEF Rank
<1> HIDE DEF i0
<1>5. Rank(Kept, x, i) /\ i \in Nat
  <2>1. i0 \in 0..pf_cnt
    BY <1>3, <1>4 DEF Rank
  <2>2. CASE pop_del = <<>>
    BY <1>4, <2>1, <2>2 DEF Kept, AfterPop, ShiftDown
  <2>3. CASE pop_del # <<>>
    <3>1. pop_del[1] \in 0..(pf_cnt-1)
      BY <2>3, KeptElements
    <3> DEFINE j == pop_del[1] + 1
    <3>2. j \in 1..Len(Held) /\ Kept = RemoveAt(Held, j)
      BY <1>2, <1>3, <2>3, <3>1 DEF Kept
    <3>3. i = IF j <= i0 THEN i0 - 1 ELSE i0
      BY <2>1, <2>3, <3>1 DEF AfterPop, ShiftDown
    <3>4. i \in Nat
      BY <2>1, <3>1, <3>3
    <3> HIDE DEF j
    <3>5. Rank(Kept, x, IF j <= i0 THEN i0 - 1 ELSE i0)
      BY <1>1, <1>2, <1>4, <2>1, <3>2, RemoveRank
    <3> QED  BY <3>3, <3>4, <3>5
  <2> QED  BY <2>2, <2>3
<1> HIDE DEF i
<1>6. ASSUME NEW d \in Slot(Insertion), Placed(Kept, d)
      PROVE  /\ d # <<>>
             /\ d[1].raw < i \/ (d[1].raw = i /\ d[1].el.prio <= e.prio)
             <=> Passes(d, x)
  <2> SUFFICES ASSUME d # <<>>
               PROVE  d[1].raw < i \/ (d[1].raw = i /\ d[1].el.prio <= x) <=> d[1].el.prio <= x
    BY DEF Passes
  <2> DEFINE r == d[1].raw
             y == d[1].el.prio
  <2>1. y \in Nat /\ r \in Nat /\ Rank(Kept, y, r)
    BY Zenon, <1>6, InsertionSlot DEF Placed
  <2>2. Kept \in Seq(Desc)
    BY Zenon, KeptElements
  <2> HIDE DEF x, y, r
  <2>3. y <= x => r <= i
    BY Zenon, <1>1, <1>5, <2>1, <2>2, RankOrder
  <2>4. x <= y => i <= r
    BY Zenon, <1>1, <1>5, <2>1, <2>2, RankOrder
  <2>5. r < i \/ (r = i /\ y <= x) <=> y <= x
    BY <1>1, <1>5, <2>1, <2>3, <2>4
  <2> QED  BY <2>5 DEF y, r
<1> DEFINE k == i + Bit(Passes(push_1_del, x)) + Bit(Passes(push_2_del, x))
<1>7. Rank(Pf, x, k) /\ k \in 0..NextCnt /\ k \in 0..(NumPifo-1)
  <2>1. /\ Len(Pf) = NextCnt /\ NextCnt \in 0..(NumPifo-1)
        /\ \A y \in Nat, q \in Nat : Rank(Kept, y, q) =>
             Rank(Pf, y, q + Bit(Passes(push_1_del, y)) + Bit(Passes(push_2_del, y)))
    BY ListOfArray
  <2> HIDE DEF x
  <2>2. Rank(Pf, x, k)
    BY <1>1, <1>5, <2>1
  <2> HIDE DEF k
  <2>3. k \in 0..Len(Pf)
    BY <2>2 DEF Rank
  <2> QED  BY <1>2, <2>1, <2>2, <2>3
<1>8. RawIdx(e, popped) = ShiftDown(popped, k)
  <2>1. RawIdx(e, popped) = ShiftDown(popped, Wrap(k))
    <3> DEFINE b1 == /\ push_1_del # <<>>
                     /\ \/ push_1_del[1].raw < i
                        \/ push_1_del[1].raw = i /\ push_1_del[1].el.prio <= e.prio
               b2 == /\ push_2_del # <<>>
                     /\ \/ push_2_del[1].raw < i
                        \/ push_2_del[1].raw = i /\ push_2_del[1].el.prio <= e.prio
    <3>1. b1 <=> Passes(push_1_del, x)
      BY Zenon, <1>6 DEF Layout
    <3>2. b2 <=> Passes(push_2_del, x)
      BY Zenon, <1>6 DEF Layout
    <3>3. RawIdx(e, popped) = ShiftDown(popped, Wrap(i + Bit(b1) + Bit(b2)))
      BY Zenon DEF RawIdx, i, i0
    <3> HIDE DEF b1, b2, x
    <3>4. Bit(b1) = Bit(Passes(push_1_del, x)) /\ Bit(b2) = Bit(Passes(push_2_del, x))
      BY <3>1, <3>2 DEF Bit
    <3> QED  BY <3>3, <3>4
  <2>2. Wrap(k) = k
    <3> HIDE DEF k
    <3> QED  BY <1>7, NoWrap
  <2> QED  BY <2>1, <2>2
<1> HIDE DEF k, x
<1>9. Pf \in Seq(Desc) /\ Sorted(Pf) /\ Len(Pf) = NextCnt /\ NextCnt \in Nat
  BY <1>2, ListOfArray
<1>10. CASE popped = <<>>
  <2>1. RawIdx(e, popped) = k /\ t = Pf
    BY <1>8, <1>10 DEF ShiftDown
  <2> QED  BY <1>7, <2>1 DEF x
<1>11. CASE popped # <<>>
  <2>1. PICK p \in 0..(NextCnt-1) : popped = <<p>>
    BY <1>11 DEF Slot
  <2>2. popped[1] = p
    BY <2>1
  <2> DEFINE j == p + 1
  <2>3. j \in 1..Len(Pf) /\ t = RemoveAt(Pf, j)
    BY <1>9, <1>11, <2>2
  <2>4. RawIdx(e, popped) = IF j <= k THEN k - 1 ELSE k
    BY <1>7, <1>8, <1>9, <1>11, <2>2 DEF ShiftDown
  <2> HIDE DEF j
  <2>5. Rank(t, x, IF j <= k THEN k - 1 ELSE k)
    <3>1. \A y \in Nat, q \in Nat : Rank(Pf, y, q) => Rank(t, y, IF j <= q THEN q - 1 ELSE q)
      BY Zenon, <1>9, <2>3, RemoveRank
    <3>2. k \in Nat
      BY <1>7, <1>9
    <3> QED  BY <1>1, <1>7, <3>1, <3>2
  <2> QED  BY <2>4, <2>5 DEF x
<1> QED  BY <1>10, <1>11
(* Which element is popped.  Popped under find is one that the list pops:  *)
(* the first eligible element but for the lower of two insertions.         *)
CanPop(mask) == {i \in DOMAIN Pf : Pf[i].app \in mask /\ Lo # <<Pf[i].app>>}

LEMMA PopIsFirst ==
  ASSUME LeastExists, Layout, Distinct(Pf), pop_del = <<>>, NEW mask
  PROVE  LET popped == PopIdx(TRUE, mask)
         IN  /\ popped \in Slot(0..(NextCnt-1))
             /\ popped = <<>> => CanPop(mask) = {}
             /\ popped # <<>> => /\ popped[1] + 1 \in CanPop(mask)
                                 /\ \A j \in CanPop(mask) : popped[1] + 1 <= j
<1> DEFINE hi == push_hi_del
           lo == push_lo_del
           n == Len(Kept)
           B == PopBmp(mask)
           tmp == Encode(B)
           h == hi[1].raw
           l == lo[1].raw
<1>1. NumPifo \in Nat /\ pf_cnt \in 0..(NumPifo-1)
  BY NumPifoAssumption DEF Layout
<1>2. n = pf_cnt /\ n \in Nat /\ \A k \in 1..n : Kept[k] = arr[k-1]
  <2>1. /\ Len(Kept) = pf_cnt - Len(pop_del)
        /\ \A k \in 1..Len(Kept) :
             Kept[k] = IF pop_del = <<>> \/ k <= pop_del[1] THEN arr[k-1] ELSE arr[k]
    BY KeptElements
  <2>2. Len(pop_del) = 0
    OBVIOUS
  <2> QED  BY <1>1, <2>1, <2>2
<1>3. /\ Pf = Merged(Kept, hi, lo)
      /\ NextCnt = n + Len(push_1_del) + Len(push_2_del)
      /\ NextCnt \in 0..(NumPifo-1)
  BY ArrayMerged
<1>4. /\ hi \in Slot(Insertion) /\ lo \in Slot(Insertion)
      /\ Placed(Kept, hi) /\ Placed(Kept, lo)
      /\ hi = <<>> <=> push_1_del = <<>> /\ push_2_del = <<>>
      /\ lo # <<>> => hi # <<>> /\ hi[1].raw <= lo[1].raw
      /\ Len(hi) + Len(lo) = Len(push_1_del) + Len(push_2_del)
      /\ \/ lo = <<>> /\ hi = (IF push_1_del = <<>> THEN push_2_del ELSE push_1_del)
                         /\ (push_1_del = <<>> \/ push_2_del = <<>>)
         \/ hi = push_1_del /\ lo = push_2_del /\ lo # <<>>
         \/ hi = push_2_del /\ lo = push_1_del /\ lo # <<>>
  BY UpperLower
<1>5. /\ hi = <<>> => Len(hi) = 0 /\ lo = <<>>
      /\ hi # <<>> => Len(hi) = 1 /\ h \in 0..n /\ hi[1].idx = h
      /\ lo = <<>> => Len(lo) = 0
      /\ lo # <<>> => Len(lo) = 1 /\ l \in 0..n /\ hi # <<>> /\ h <= l
  <2>1. Len(hi) = IF hi = <<>> THEN 0 ELSE 1
    BY <1>4, InsertionSlot
  <2>2. Len(lo) = IF lo = <<>> THEN 0 ELSE 1
    BY <1>4, InsertionSlot
  <2>3. hi # <<>> => h \in 0..n
    BY <1>4 DEF Placed, Rank
  <2>4. lo # <<>> => l \in 0..n
    BY <1>4 DEF Placed, Rank
  <2>5. hi # <<>> => hi[1].idx = h
    BY DEF Layout
  <2> QED  BY <1>4, <2>1, <2>2, <2>3, <2>4, <2>5
<1>6. NextCnt = n + Len(hi) + Len(lo)
  <2>1. Len(hi) \in Nat /\ Len(lo) \in Nat
    BY <1>5
  <2>2. Len(push_1_del) \in Nat
    BY InsertionSlot DEF Layout
  <2>3. Len(push_2_del) \in Nat
    BY InsertionSlot DEF Layout
  <2> QED  BY <1>2, <1>3, <1>4, <2>1, <2>2, <2>3
<1>7. DOMAIN Pf = 1..NextCnt
  BY DEF Pf
<1>8. \A k \in 1..NextCnt :
        Pf[k] = IF hi = <<>> \/ k <= h THEN Kept[k]
                ELSE IF k = h + 1 THEN hi[1].el
                ELSE IF lo = <<>> \/ k <= l + 1 THEN Kept[k-1]
                ELSE IF k = l + 2 THEN lo[1].el
                ELSE Kept[k-2]
  BY Zenon, <1>3, <1>6 DEF Merged
<1>9. /\ hi # <<>> => h + 1 \in 1..NextCnt /\ Pf[h+1] = hi[1].el
      /\ lo # <<>> => l + 2 \in 1..NextCnt /\ Pf[l+2] = lo[1].el
  <2>1. hi # <<>> => h + 1 \in 1..NextCnt
    BY <1>2, <1>5, <1>6
  <2>2. lo # <<>> => l + 2 \in 1..NextCnt
    BY <1>2, <1>5, <1>6
  <2> HIDE DEF h, l, hi, lo
  <2>3. hi # <<>> => Pf[h+1] = hi[1].el
    BY <1>2, <1>5, <1>8, <2>1
  <2>4. lo # <<>> => Pf[l+2] = lo[1].el
    BY <1>2, <1>5, <1>8, <2>2
  <2> QED  BY <2>1, <2>2, <2>3, <2>4
<1>10. Distinct(Pf)
  OBVIOUS
<1>11. Lo = IF lo = <<>> THEN <<>> ELSE <<lo[1].el.app>>
  BY DEF Lo
<1>12. B \subseteq 0..(n-1) /\ \A j \in 0..(n-1) : j \in B <=> Kept[j+1].app \in mask
  <2>1. B \subseteq 0..(n-1)
    BY <1>1, <1>2 DEF PopBmp, Idx
  <2>2. ASSUME NEW j \in 0..(n-1)
        PROVE  j \in B <=> Kept[j+1].app \in mask
    <3>1. j \in Idx /\ j < pf_cnt /\ j + 1 \in 1..n /\ j + 1 - 1 = j
      BY <1>1, <1>2 DEF Idx
    <3>2. Kept[j+1] = arr[j]
      BY <1>2, <3>1
    <3> QED  BY <3>1, <3>2 DEF PopBmp
  <2> QED  BY <2>1, <2>2
<1>13. B # {} => /\ tmp \in 0..(n-1) /\ Kept[tmp+1].app \in mask
                 /\ \A j \in B : tmp <= j
  <2>1. B \subseteq Idx
    BY DEF PopBmp
  <2>2. B # {} => tmp \in B /\ \A j \in B : tmp <= j
    BY <2>1, FirstBit
  <2> HIDE DEF tmp, B
  <2> QED  BY Zenon, <1>12, <2>2
<1>14. ASSUME NEW k \in 1..NextCnt
       PROVE  \/ (hi = <<>> \/ k <= h) /\ k \in 1..n /\ Pf[k] = Kept[k]
              \/ hi # <<>> /\ k = h + 1
              \/ /\ hi # <<>> /\ k > h + 1 /\ (lo = <<>> \/ k <= l + 1)
                 /\ k - 1 \in 1..n /\ Pf[k] = Kept[k-1]
              \/ lo # <<>> /\ k = l + 2
              \/ lo # <<>> /\ k > l + 2 /\ k - 2 \in 1..n /\ Pf[k] = Kept[k-2]
  <2> HIDE DEF h, l, hi, lo, n
  <2>1. k \in Nat /\ k >= 1 /\ k <= n + Len(hi) + Len(lo)
    BY <1>1, <1>3, <1>6
  <2>2. CASE hi = <<>> \/ k <= h
    <3>1. k \in 1..n
      BY <1>2, <1>5, <2>1, <2>2
    <3> QED  BY <1>8, <2>2, <3>1
  <2>3. CASE /\ ~(hi = <<>> \/ k <= h) /\ k # h + 1
             /\ lo = <<>> \/ k <= l + 1
    <3>1. k - 1 \in 1..n /\ k > h + 1
      <4>1. hi # <<>> /\ h \in Nat /\ k > h + 1 /\ Len(hi) = 1
        BY <1>2, <1>5, <2>1, <2>3
      <4>2. k <= n + 1
        <5>1. CASE lo = <<>>
          BY <1>2, <1>5, <2>1, <4>1, <5>1
        <5>2. CASE lo # <<>>
          BY <1>2, <1>5, <2>1, <2>3, <5>2
        <5> QED  BY <5>1, <5>2
      <4> QED  BY <1>2, <2>1, <4>1, <4>2
    <3> QED  BY <1>8, <2>3, <3>1
  <2>4. CASE /\ ~(hi = <<>> \/ k <= h) /\ k # h + 1
             /\ ~(lo = <<>> \/ k <= l + 1) /\ k # l + 2
    <3>1. k - 2 \in 1..n /\ k > l + 2
      <4>1. lo # <<>> /\ l \in Nat /\ k > l + 2 /\ Len(lo) = 1 /\ Len(hi) = 1
        BY <1>2, <1>5, <2>1, <2>4
      <4>2. k <= n + 2
        BY <1>2, <2>1, <4>1
      <4> QED  BY <1>2, <2>1, <4>1, <4>2
    <3> QED  BY Zenon, <1>8, <2>4, <3>1
  <2> QED  BY Zenon, <2>2, <2>3, <2>4
<1>15. ASSUME NEW j \in CanPop(mask)
       PROVE  /\ j \in 1..NextCnt
              /\ \/ (hi = <<>> \/ j <= h) /\ j - 1 \in B
                 \/ hi # <<>> /\ j = h + 1 /\ hi[1].el.app \in mask
                 \/ hi # <<>> /\ j > h + 1 /\ (lo = <<>> \/ j <= l + 1) /\ j - 2 \in B
                 \/ lo # <<>> /\ j > l + 2 /\ j - 3 \in B
  <2>1. j \in 1..NextCnt /\ Pf[j].app \in mask /\ Lo # <<Pf[j].app>>
    BY <1>7 DEF CanPop
  <2> HIDE DEF h, l, hi, lo, B
  <2>2. ~(lo # <<>> /\ j = l + 2)
    BY <1>9, <1>11, <2>1
  <2>3. hi # <<>> /\ j = h + 1 => hi[1].el.app \in mask
    BY <1>9, <2>1
  <2>4. \A k \in 1..n : Kept[k].app \in mask => k - 1 \in B
    <3> TAKE k \in 1..n
    <3>1. k - 1 \in 0..(n-1) /\ k - 1 + 1 = k
      BY <1>2
    <3> QED  BY <1>12, <3>1
  <2>5. j - 1 - 1 = j - 2 /\ j - 2 - 1 = j - 3
    BY <2>1
  <2> QED  BY Zenon, <1>14, <2>1, <2>2, <2>3, <2>4, <2>5
<1> DEFINE top == hi # <<>> /\ hi[1].el.app \in mask /\ (B = {} \/ h <= tmp)
           w(d) == Bit(d # <<>> /\ tmp >= d[1].raw)
           idx == tmp + w(hi) + w(lo)
           popped == PopIdx(TRUE, mask)
<1>16. popped = IF top THEN <<h>> ELSE IF B # {} THEN <<Wrap(idx)>> ELSE <<>>
  <2>1. AfterPop(tmp) = tmp
    BY DEF AfterPop, ShiftDown
  <2>2. popped = IF top THEN <<hi[1].idx>>
                 ELSE IF B # {} THEN <<Wrap(tmp + w(push_1_del) + w(push_2_del))>> ELSE <<>>
    BY <2>1 DEF PopIdx
  <2>3. \A d : w(d) \in Nat /\ (d = <<>> => w(d) = 0)
    BY DEF Bit
  <2>4. B # {} => tmp \in Nat
    BY <1>13
  <2> HIDE DEF tmp, hi, lo, w, B, popped
  <2>5. B # {} => tmp + w(push_1_del) + w(push_2_del) = idx
    BY <1>4, <2>3, <2>4
  <2> QED  BY Zenon, <1>5, <2>2, <2>5
<1> HIDE DEF h, l, hi, lo, B, tmp, n, popped
<1>17. CASE top
  <2>1. popped = <<h>> /\ h \in 0..(NextCnt-1)
    <3>1. popped = <<h>>
      BY <1>16, <1>17
    <3>2. hi # <<>> /\ h \in Nat /\ h + 1 \in 1..NextCnt /\ NextCnt \in Nat
      BY <1>1, <1>2, <1>3, <1>5, <1>9, <1>17
    <3> QED  BY <3>1, <3>2
  <2>2. h + 1 \in CanPop(mask)
    <3>1. lo # <<>> => l + 2 # h + 1
      BY <1>5
    <3>2. lo # <<>> => lo[1].el.app # hi[1].el.app
      BY Zenon, <1>7, <1>9, <1>10, <1>17, <3>1 DEF Distinct
    <3> QED  BY Zenon, <1>7, <1>9, <1>11, <1>17, <3>2 DEF CanPop
  <2>3. ASSUME NEW j \in CanPop(mask)
        PROVE  h + 1 <= j
    BY <1>5, <1>13, <1>15, <1>17, <1>1, <1>3
  <2>4. popped \in Slot(0..(NextCnt-1)) /\ popped # <<>> /\ popped[1] = h
    BY <2>1 DEF Slot
  <2> QED  BY Zenon, <2>2, <2>3, <2>4 DEF popped
<1>18. CASE ~top /\ B # {}
  <2>1. tmp \in 0..(n-1) /\ Kept[tmp+1].app \in mask /\ \A j \in B : tmp <= j
    BY <1>13, <1>18
  <2>2. idx = IF hi = <<>> \/ tmp < h THEN tmp ELSE IF lo = <<>> \/ tmp < l THEN tmp + 1 ELSE tmp + 2
    <3>1. w(hi) = IF hi # <<>> /\ tmp >= h THEN 1 ELSE 0
      BY DEF Bit, h
    <3>2. w(lo) = IF lo # <<>> /\ tmp >= l THEN 1 ELSE 0
      BY DEF Bit, l
    <3> HIDE DEF w
    <3> QED  BY <1>2, <1>5, <2>1, <3>1, <3>2
  <2> HIDE DEF idx
  <2>3. idx \in 0..(NextCnt-1) /\ idx \in 0..(NumPifo-1)
    BY <1>1, <1>2, <1>3, <1>5, <1>6, <2>1, <2>2
  <2>4. popped = <<idx>>
    BY <1>16, <1>18, <2>3, NoWrap
  <2>5. Pf[idx+1] = Kept[tmp+1] /\ idx + 1 \in 1..NextCnt /\ (lo # <<>> => idx + 1 # l + 2)
    <3>1. idx + 1 \in 1..NextCnt /\ (lo # <<>> => idx + 1 # l + 2)
      BY <1>2, <1>3, <1>1, <1>5, <2>1, <2>2, <2>3
    <3>2. CASE hi = <<>> \/ tmp < h
      <4>1. idx = tmp /\ (hi = <<>> \/ tmp + 1 <= h)
        BY <1>5, <2>1, <2>2, <3>2
      <4> QED  BY <1>8, <3>1, <4>1
    <3>3. CASE ~(hi = <<>> \/ tmp < h) /\ (lo = <<>> \/ tmp < l)
      <4>1. /\ idx + 1 = tmp + 2 /\ ~(tmp + 2 <= h) /\ tmp + 2 # h + 1 /\ (lo = <<>> \/ tmp + 2 <= l + 1)
            /\ tmp + 2 - 1 = tmp + 1
        BY <1>2, <1>5, <2>1, <2>2, <3>3
      <4> DEFINE q == tmp + 2
      <4>2. q \in 1..NextCnt
        BY <3>1, <4>1
      <4> HIDE DEF q
      <4>3. Pf[q] = Kept[q-1]
        BY Zenon, <1>8, <3>3, <4>1, <4>2 DEF q
      <4>4. q = idx + 1 /\ q - 1 = tmp + 1
        BY <2>1, <4>1 DEF q
      <4> QED  BY <3>1, <4>3, <4>4
    <3>4. CASE ~(hi = <<>> \/ tmp < h) /\ ~(lo = <<>> \/ tmp < l)
      <4>1. /\ idx + 1 = tmp + 3 /\ ~(tmp + 3 <= h) /\ tmp + 3 # h + 1 /\ ~(tmp + 3 <= l + 1)
            /\ tmp + 3 # l + 2 /\ tmp + 3 - 2 = tmp + 1
        BY <1>2, <1>5, <2>1, <2>2, <3>4
      <4> DEFINE q == tmp + 3
      <4>2. q \in 1..NextCnt
        BY <3>1, <4>1
      <4> HIDE DEF q
      <4>3. Pf[q] = Kept[q-2]
        BY Zenon, <1>8, <3>4, <4>1, <4>2 DEF q
      <4>4. q = idx + 1 /\ q - 2 = tmp + 1
        BY <2>1, <4>1 DEF q
      <4> QED  BY <3>1, <4>3, <4>4
    <3> QED  BY <3>1, <3>2, <3>3, <3>4
  <2>6. idx + 1 \in CanPop(mask)
    <3>1. lo # <<>> => lo[1].el.app # Pf[idx+1].app
      BY <1>7, <1>9, <1>10, <2>5 DEF Distinct
    <3> QED  BY Zenon, <1>7, <1>11, <2>1, <2>5, <3>1 DEF CanPop
  <2>7. ASSUME NEW j \in CanPop(mask)
        PROVE  idx + 1 <= j
    <3>1. B \subseteq Int /\ j \in Nat
      BY <1>12, <1>15
    <3>2. hi # <<>> /\ hi[1].el.app \in mask => tmp < h
      BY <1>5, <1>18, <2>1
    <3> QED  BY <1>2, <1>5, <1>15, <2>1, <2>2, <3>1, <3>2
  <2>8. popped \in Slot(0..(NextCnt-1)) /\ popped # <<>> /\ popped[1] = idx
    BY <2>3, <2>4 DEF Slot
  <2> QED  BY Zenon, <2>6, <2>7, <2>8 DEF popped
<1>19. CASE ~top /\ B = {}
  <2>1. popped = <<>>
    BY <1>16, <1>19
  <2>2. CanPop(mask) = {}
    BY <1>15, <1>19
  <2> QED  BY Zenon, <2>1, <2>2 DEF Slot, popped
<1> QED  BY Zenon, <1>17, <1>18, <1>19

(* The operations of the abstract list in PifoArray are those of PifoList. *)
LEMMA SameList ==
  /\ \A s, slot : List!Push(s, slot) = Push(s, slot)
  /\ \A s, i : List!RemoveAt(s, i) = RemoveAt(s, i)
  /\ \A mask : List!Poppable(mask) = CanPop(mask)
<1>1. \A s, e : List!PushIdx(s, e) = PushIdx(s, e)
  BY DEF List!PushIdx, PushIdx
<1>2. \A s, i, e : List!InsertAt(s, i, e) = InsertAt(s, i, e)
  BY DEF List!InsertAt, InsertAt
<1>3. \A s, slot : List!Push(s, slot) = Push(s, slot)
  BY <1>1, <1>2 DEF List!Push, Push
<1>4. \A s, i : List!RemoveAt(s, i) = RemoveAt(s, i)
  BY DEF List!RemoveAt, RemoveAt
<1>5. \A mask : List!Poppable(mask) = CanPop(mask)
  BY DEF List!Poppable, CanPop, Pf, Lo
<1> QED  BY <1>3, <1>4, <1>5

(* What the layout says, as a state predicate. *)
Listed ==
  /\ Pf = Push(Push(Kept, El(push_1_del)), El(push_2_del))
  /\ Pf \in Seq(Desc)

LEMMA LayoutListed == Layout => Listed
BY ListOfArray DEF Listed

(* One edge, on the registers. *)
LEMMA LayoutStep ==
  ASSUME LeastExists, Layout, NEW p1 \in Slot(Desc), NEW p2 \in Slot(Desc), NEW pop, NEW mask,
         ArrClock(pop, p1, p2, mask),
         NEW popped, popped = PopIdx(pop, mask), popped \in Slot(0..(NextCnt-1)),
         NEW t, t = IF popped = <<>> THEN Pf ELSE RemoveAt(Pf, popped[1] + 1),
         Len(t) + Len(p1) + Len(p2) < NumPifo
  PROVE  /\ Layout'
         /\ Held' = Pf /\ Kept' = t
         /\ El(push_1_del') = p1 /\ El(push_2_del') = p2
         /\ Lo' = IF p1 = <<>> \/ p2 = <<>> THEN <<>>
                  ELSE IF p2[1].prio < p1[1].prio THEN <<p1[1].app>>
                  ELSE <<p2[1].app>>
         /\ Out' = IF popped = <<>> THEN <<>> ELSE <<Pf[popped[1] + 1]>>
<1> DEFINE both == p1 # <<>> /\ p2 # <<>>
           second == both /\ p2[1].prio < p1[1].prio
           e1 == p1[1]
           e2 == p2[1]
           r1 == RawIdx(e1, popped)
           r2 == RawIdx(e2, popped)
           d1 == push_1_del'
           d2 == push_2_del'
           n == Len(t)
<1>1. /\ arr' = NextArr /\ pf_cnt' = NextCnt /\ pop_del' = popped
      /\ d1 = IF p1 = <<>> THEN <<>>
              ELSE <<[el |-> e1, raw |-> r1, idx |-> Wrap(r1 + Bit(second))]>>
      /\ d2 = IF p2 = <<>> THEN <<>>
              ELSE <<[el |-> e2, raw |-> r2, idx |-> Wrap(r2 + Bit(both /\ ~second))]>>
  BY Zenon DEF ArrClock
<1>2. NumPifo \in Nat
  BY NumPifoAssumption
<1>3. /\ Pf \in Seq(Desc) /\ Sorted(Pf) /\ Len(Pf) = NextCnt /\ NextCnt \in 0..(NumPifo-1)
  BY ListOfArray
<1>4. Held' = Pf
  BY Zenon, <1>1 DEF Held, Pf
<1>5. Kept' = t
  BY Zenon, <1>1, <1>4 DEF Kept
<1>6. popped # <<>> => popped[1] \in 0..(NextCnt-1) /\ popped = <<popped[1]>>
  BY DEF Slot
<1>7. t \in Seq(Desc) /\ n \in Nat
  <2>1. CASE popped = <<>>
    BY <1>3, <2>1, ListLen
  <2>2. CASE popped # <<>>
    <3> DEFINE i == popped[1] + 1
    <3>1. i \in 1..Len(Pf) /\ t = RemoveAt(Pf, i)
      BY <1>2, <1>3, <1>6, <2>2
    <3> HIDE DEF i
    <3>2. t \in Seq(Desc)
      BY <1>3, <3>1, RemoveAtElements
    <3> QED  BY <3>2, ListLen
  <2> QED  BY <2>1, <2>2
<1>8. /\ p1 = <<>> => Len(p1) = 0
      /\ p1 # <<>> => e1 \in Desc /\ Len(p1) = 1 /\ p1 = <<e1>> /\ e1.prio \in Nat
  <2>1. CASE p1 = <<>>
    BY <2>1
  <2>2. CASE p1 # <<>>
    <3>1. PICK e \in Desc : p1 = <<e>>
      BY <2>2 DEF Slot
    <3>2. p1[1] = e /\ Len(p1) = 1
      BY <3>1
    <3>3. e.prio \in Nat
      BY Zenon, DescriptorAssumption DEF Desc
    <3> QED  BY Zenon, <2>2, <3>1, <3>2, <3>3
  <2> QED  BY <2>1, <2>2
<1>9. /\ p2 = <<>> => Len(p2) = 0
      /\ p2 # <<>> => e2 \in Desc /\ Len(p2) = 1 /\ p2 = <<e2>> /\ e2.prio \in Nat
  <2>1. CASE p2 = <<>>
    BY <2>1
  <2>2. CASE p2 # <<>>
    <3>1. PICK e \in Desc : p2 = <<e>>
      BY <2>2 DEF Slot
    <3>2. p2[1] = e /\ Len(p2) = 1
      BY <3>1
    <3>3. e.prio \in Nat
      BY Zenon, DescriptorAssumption DEF Desc
    <3> QED  BY Zenon, <2>2, <3>1, <3>2, <3>3
  <2> QED  BY <2>1, <2>2
<1>10. p1 # <<>> => Rank(t, e1.prio, r1) /\ r1 \in 0..n
  <2> SUFFICES ASSUME p1 # <<>> PROVE Rank(t, e1.prio, r1) /\ r1 \in 0..n
    BY Zenon
  <2>1. e1 \in Desc
    BY <1>8
  <2> HIDE DEF e1
  <2>2. Rank(t, e1.prio, r1)
    BY Zenon, <2>1, RawRank
  <2> QED  BY Zenon, <2>2 DEF Rank
<1>11. p2 # <<>> => Rank(t, e2.prio, r2) /\ r2 \in 0..n
  <2> SUFFICES ASSUME p2 # <<>> PROVE Rank(t, e2.prio, r2) /\ r2 \in 0..n
    OBVIOUS
  <2>1. e2 \in Desc
    BY <1>9
  <2> HIDE DEF e2
  <2>2. Rank(t, e2.prio, r2)
    BY Zenon, <2>1, RawRank
  <2> QED  BY Zenon, <2>2 DEF Rank
<1>12. p1 # <<>> => Wrap(r1 + Bit(second)) = r1 + Bit(second) /\ r1 \in Nat
  <2> SUFFICES ASSUME p1 # <<>> PROVE Wrap(r1 + Bit(second)) = r1 + Bit(second) /\ r1 \in Nat
    BY Zenon
  <2>1. r1 \in Nat /\ r1 <= n
    BY <1>7, <1>10
  <2>2. Bit(second) \in 0..1
    BY DEF Bit
  <2>3. n + 1 < NumPifo
    BY <1>2, <1>7, <1>8, <1>9
  <2> DEFINE b == Bit(second)
  <2> HIDE DEF b, r1, n
  <2>4. r1 + b \in 0..(NumPifo-1)
    BY <1>2, <1>7, <2>1, <2>2, <2>3 DEF b
  <2>5. Wrap(r1 + b) = r1 + b
    BY <2>4, NoWrap
  <2> QED  BY Zenon, <2>1, <2>5 DEF b
<1>13. p2 # <<>> => Wrap(r2 + Bit(both /\ ~second)) = r2 + Bit(both /\ ~second) /\ r2 \in Nat
  <2> SUFFICES ASSUME p2 # <<>> PROVE Wrap(r2 + Bit(both /\ ~second)) = r2 + Bit(both /\ ~second) /\ r2 \in Nat
    OBVIOUS
  <2>1. r2 \in Nat /\ r2 <= n
    BY <1>7, <1>11
  <2>2. Bit(both /\ ~second) \in 0..1
    BY DEF Bit
  <2>3. n + 1 < NumPifo
    BY <1>2, <1>7, <1>8, <1>9
  <2> DEFINE b == Bit(both /\ ~second)
  <2> HIDE DEF b, r2, n
  <2>4. r2 + b \in 0..(NumPifo-1)
    BY <1>2, <1>7, <2>1, <2>2, <2>3 DEF b
  <2>5. Wrap(r2 + b) = r2 + b
    BY Zenon, <2>4, NoWrap
  <2> QED  BY Zenon, <2>1, <2>5 DEF b
<1> HIDE DEF r1, r2
<1> DEFINE i1 == [el |-> e1, raw |-> r1, idx |-> r1 + Bit(second)]
           i2 == [el |-> e2, raw |-> r2, idx |-> r2 + Bit(both /\ ~second)]
<1>14. /\ d1 = IF p1 = <<>> THEN <<>> ELSE <<i1>>
       /\ d2 = IF p2 = <<>> THEN <<>> ELSE <<i2>>
  BY Zenon, <1>1, <1>12, <1>13
<1>15. \A b : Bit(b) \in Nat
  BY DEF Bit
<1>16. /\ p1 # <<>> => i1 \in Insertion
       /\ p2 # <<>> => i2 \in Insertion
  <2> HIDE DEF e1, e2, second, both
  <2>1. p1 # <<>> => r1 + Bit(second) \in Nat
    BY <1>12, <1>15
  <2>2. p2 # <<>> => r2 + Bit(both /\ ~second) \in Nat
    BY <1>13, <1>15
  <2> QED  BY Zenon, <1>8, <1>9, <1>12, <1>13, <2>1, <2>2 DEF Insertion
<1>17. d1 \in Slot(Insertion) /\ d2 \in Slot(Insertion)
  <2> HIDE DEF i1, i2, d1, d2
  <2> QED  BY Zenon, <1>14, <1>16 DEF Slot
<1>18. /\ d1 = <<>> <=> p1 = <<>>
       /\ d1 # <<>> => d1[1] = i1
       /\ d2 = <<>> <=> p2 = <<>>
       /\ d2 # <<>> => d2[1] = i2
  <2> HIDE DEF i1, i2, d1, d2
  <2> QED  BY Zenon, <1>14
<1>19. /\ i1.el = e1 /\ i1.raw = r1 /\ i1.idx = r1 + Bit(second)
       /\ i2.el = e2 /\ i2.raw = r2 /\ i2.idx = r2 + Bit(both /\ ~second)
  BY Zenon
<1> HIDE DEF i1, i2, d1, d2
<1>20. Placed(t, d1) /\ Placed(t, d2)
  BY Zenon, <1>10, <1>11, <1>18, <1>19 DEF Placed
<1>21. El(d1) = p1 /\ El(d2) = p2
  BY Zenon, <1>8, <1>9, <1>18, <1>19 DEF El
<1>22. Len(d1) = Len(p1) /\ Len(d2) = Len(p2)
  BY <1>8, <1>9, <1>14
<1> DEFINE hi == Upper(d1, d2)
           lo == Lower(d1, d2)
<1>23. push_hi_del' = hi /\ push_lo_del' = lo
  BY Zenon DEF push_hi_del, push_lo_del, d1, d2, Upper, Lower, SecondIsUpper
<1>24. /\ hi # <<>> => hi[1].idx = hi[1].raw
       /\ lo # <<>> => lo[1].idx = lo[1].raw + 1
       /\ lo = IF ~both THEN <<>> ELSE IF second THEN d1 ELSE d2
  <2>1. CASE ~both
    <3>1. Bit(second) = 0 /\ Bit(both /\ ~second) = 0
      BY Zenon, <2>1 DEF Bit
    <3>2. (d1 # <<>> => d1[1].idx = d1[1].raw) /\ (d2 # <<>> => d2[1].idx = d2[1].raw)
      BY <1>12, <1>13, <1>18, <1>19, <3>1
    <3> QED  BY Zenon, <1>18, <2>1, <3>2 DEF Upper, Lower, SecondIsUpper
  <2>2. CASE both
    <3>1. d1 # <<>> /\ d2 # <<>> /\ d1[1] = i1 /\ d2[1] = i2
      BY Zenon, <1>18, <2>2
    <3>2. hi = (IF second THEN d2 ELSE d1) /\ lo = (IF second THEN d1 ELSE d2)
      BY Zenon, <1>19, <2>2, <3>1 DEF Upper, Lower, SecondIsUpper
    <3>3. Bit(second) = (IF second THEN 1 ELSE 0) /\ Bit(both /\ ~second) = (IF second THEN 0 ELSE 1)
      BY Zenon, <2>2 DEF Bit
    <3>4. r1 \in Nat /\ r2 \in Nat
      BY Zenon, <1>12, <1>13, <2>2
    <3> HIDE DEF second, hi, lo
    <3> QED  BY <1>19, <2>2, <3>1, <3>2, <3>3, <3>4
  <2> QED  BY Zenon, <2>1, <2>2
<1>25. Lo' = IF p1 = <<>> \/ p2 = <<>> THEN <<>>
             ELSE IF p2[1].prio < p1[1].prio THEN <<p1[1].app>>
             ELSE <<p2[1].app>>
  <2>1. Lo' = IF lo = <<>> THEN <<>> ELSE <<lo[1].el.app>>
    BY Zenon, <1>23 DEF Lo
  <2> HIDE DEF hi, lo
  <2>2. CASE ~both
    BY Zenon, <1>24, <2>1, <2>2
  <2>3. CASE both
    <3>1. d1 # <<>> /\ d2 # <<>> /\ d1[1].el = p1[1] /\ d2[1].el = p2[1]
      BY Zenon, <1>18, <1>19, <2>3
    <3> QED  BY Zenon, <1>24, <2>1, <2>3, <3>1
  <2> QED  BY Zenon, <2>2, <2>3
<1>26. Out' = IF popped = <<>> THEN <<>> ELSE <<Pf[popped[1] + 1]>>
  <2>1. popped # <<>> => NextArr[popped[1]] = Pf[popped[1]+1]
    <3> SUFFICES ASSUME popped # <<>> PROVE NextArr[popped[1]] = Pf[popped[1]+1]
      BY Zenon
    <3> DEFINE q == popped[1] + 1
    <3>1. q \in 1..NextCnt /\ q - 1 = popped[1]
      BY <1>2, <1>3, <1>6
    <3> HIDE DEF q
    <3>2. Pf[q] = NextArr[q-1]
      BY Zenon, <3>1 DEF Pf
    <3> QED  BY Zenon, <3>1, <3>2 DEF q
  <2> QED  BY Zenon, <1>1, <2>1 DEF Out
<1>27. Layout'
  <2> HIDE DEF hi, lo
  <2>1. pf_cnt' \in 0..(NumPifo-1) /\ Held' \in Seq(Desc) /\ Sorted(Held')
    BY Zenon, <1>1, <1>3, <1>4
  <2>2. pop_del' \in Slot(0..(pf_cnt'-1))
    BY Zenon, <1>1
  <2>3. /\ push_1_del' \in Slot(Insertion) /\ push_2_del' \in Slot(Insertion)
        /\ Placed(Kept', push_1_del') /\ Placed(Kept', push_2_del')
    BY Zenon, <1>5, <1>17, <1>20 DEF d1, d2
  <2>4. Len(Kept') + Len(push_1_del') + Len(push_2_del') < NumPifo
    BY Zenon, <1>5, <1>22 DEF d1, d2
  <2> QED  BY Zenon, <1>23, <1>24, <2>1, <2>2, <2>3, <2>4 DEF Layout, Placed, Sorted
<1> QED  BY Zenon, <1>4, <1>5, <1>21, <1>25, <1>26, <1>27 DEF d1, d2

(* The output register holds an element. *)
LEMMA OutType ==
  ASSUME Layout
  PROVE  Out \in Slot(Desc) /\ (Out = <<>> <=> pop_del = <<>>)
<1>1. /\ Len(Held) = pf_cnt
      /\ pop_del # <<>> => pop_del[1] \in 0..(pf_cnt-1)
  BY KeptElements
<1>2. Held \in Seq(Desc) /\ pf_cnt \in Nat
  BY NumPifoAssumption DEF Layout
<1>3. CASE pop_del = <<>>
  BY <1>3 DEF Out, Slot
<1>4. CASE pop_del # <<>>
  <2> DEFINE q == pop_del[1] + 1
  <2>1. q \in 1..pf_cnt /\ q - 1 = pop_del[1]
    BY <1>1, <1>2, <1>4
  <2> HIDE DEF q
  <2>2. Held[q] = arr[q-1]
    BY <2>1 DEF Held
  <2>3. Held[q] \in Desc
    BY <1>1, <1>2, <2>1, ListLen
  <2>4. Out = <<Held[q]>>
    BY <1>4, <2>1, <2>2 DEF Out
  <2> QED  BY <1>4, <2>3, <2>4 DEF Slot
<1> QED  BY <1>3, <1>4

(* A list with distinct applications is no longer than their number:       *)
(* DistinctBound, at the end, proves it with the library on finite sets.   *)
AppsBound ==
  /\ Cardinality(App) \in Nat
  /\ \A s \in Seq(Desc) : Distinct(s) => Len(s) <= Cardinality(App)

(* One edge keeps the invariant and is an edge of the list. *)
LEMMA ArrStep ==
  ASSUME LeastExists, AppsBound, ArrInv, NEW pop \in BOOLEAN, NEW p1 \in Slot(Desc), NEW p2 \in Slot(Desc),
         List!Discipline(pop, p1, p2),
         NEW mask, ArrClock(pop, p1, p2, mask)
  PROVE  ArrInv' /\ List!ListClock(pop, p1, p2, mask)
<1> DEFINE popped == PopIdx(pop, mask)
           t == IF popped = <<>> THEN Pf ELSE RemoveAt(Pf, popped[1] + 1)
           u == Push(Push(t, p1), p2)
           gone == IF popped = <<>> THEN <<>> ELSE <<Pf[popped[1] + 1]>>
<1>1. Layout /\ Distinct(Pf) /\ (Out # <<>> => Out[1].app \notin Apps(Pf))
  BY DEF ArrInv
<1>2. /\ pop => Out = <<>>
      /\ p2 \in {<<>>, Out}
      /\ p1 # <<>> => /\ p1[1].app \notin Apps(Pf)
                      /\ Out # <<>> => Out[1].app # p1[1].app
  BY Zenon DEF List!Discipline, Out, Pf, Apps
<1>3. Out \in Slot(Desc) /\ (Out = <<>> <=> pop_del = <<>>)
  BY <1>1, OutType
<1>4. /\ Pf \in Seq(Desc) /\ Len(Pf) = NextCnt /\ NextCnt \in 0..(NumPifo-1)
  BY <1>1, ListOfArray
<1>5. /\ popped \in Slot(0..(NextCnt-1))
      /\ popped = <<>> => ~pop \/ CanPop(mask) = {}
      /\ popped # <<>> => /\ pop /\ popped[1] + 1 \in CanPop(mask)
                          /\ \A j \in CanPop(mask) : popped[1] + 1 <= j
  <2>1. CASE ~pop
    <3>1. popped = <<>>
      BY <2>1 DEF PopIdx
    <3> QED  BY <2>1, <3>1 DEF Slot
  <2>2. CASE pop
    <3>1. pop_del = <<>> /\ pop = TRUE
      BY <1>2, <1>3, <2>2
    <3>2. /\ PopIdx(TRUE, mask) \in Slot(0..(NextCnt-1))
          /\ PopIdx(TRUE, mask) = <<>> => CanPop(mask) = {}
          /\ PopIdx(TRUE, mask) # <<>> =>
               /\ PopIdx(TRUE, mask)[1] + 1 \in CanPop(mask)
               /\ \A j \in CanPop(mask) : PopIdx(TRUE, mask)[1] + 1 <= j
      BY Zenon, <1>1, <3>1, PopIsFirst
    <3> QED  BY Zenon, <3>1, <3>2
  <2> QED  BY <2>1, <2>2
<1> HIDE DEF popped
<1>6. /\ t \in Seq(Desc) /\ Distinct(t) /\ Apps(t) \subseteq Apps(Pf)
      /\ gone \in Slot(Desc) /\ (popped # <<>> => gone # <<>> /\ gone[1].app \notin Apps(t))
      /\ popped # <<>> => gone[1].app \in Apps(Pf)
  <2>1. CASE popped = <<>>
    BY Zenon, <1>1, <1>4, <2>1 DEF Slot
  <2>2. CASE popped # <<>>
    <3> DEFINE i == popped[1] + 1
    <3>1. i \in DOMAIN Pf
      BY <1>5, <2>2 DEF CanPop
    <3>2. i \in 1..Len(Pf) /\ t = RemoveAt(Pf, i) /\ gone = <<Pf[i]>>
      BY <1>4, <2>2, <3>1, ListLen
    <3> HIDE DEF i, t, gone
    <3>3. /\ RemoveAt(Pf, i) \in Seq(Desc) /\ Distinct(RemoveAt(Pf, i))
          /\ Apps(RemoveAt(Pf, i)) = Apps(Pf) \ {Pf[i].app}
          /\ Pf[i] \in Desc
      BY Zenon, <1>1, <1>4, <3>2, RemoveApps
    <3>4. Pf[i].app \in Apps(Pf)
      BY <3>1 DEF Apps
    <3> QED  BY Zenon, <2>2, <3>2, <3>3, <3>4 DEF Slot
  <2> QED  BY Zenon, <2>1, <2>2
<1> HIDE DEF t, gone
<1>7. /\ u \in Seq(Desc) /\ Distinct(u)
      /\ Apps(u) = Apps(t) \cup SlotApps(p1) \cup SlotApps(p2)
      /\ Len(u) = Len(t) + Len(p1) + Len(p2)
  <2>1. p1 # <<>> => p1[1].app \notin Apps(t)
    BY <1>2, <1>6
  <2>2. p2 # <<>> => p2[1].app \notin Apps(t) /\ p2[1].app \notin SlotApps(p1)
    <3> SUFFICES ASSUME p2 # <<>>
                 PROVE  p2[1].app \notin Apps(t) /\ p2[1].app \notin SlotApps(p1)
      OBVIOUS
    <3>1. p2 = Out /\ Out # <<>>
      BY <1>2
    <3>2. p2[1].app \notin Apps(t)
      BY <1>1, <1>6, <3>1
    <3>3. p1 # <<>> => SlotApps(p1) = {p1[1].app}
      BY SlotAppsOf
    <3>4. p1 = <<>> => SlotApps(p1) = {}
      BY SlotAppsOf
    <3> QED  BY <1>2, <3>1, <3>2, <3>3, <3>4
  <2> QED  BY <1>6, <2>1, <2>2, PushTwo
<1>8. Len(t) + Len(p1) + Len(p2) < NumPifo
  <2>1. Len(u) <= Cardinality(App) /\ Len(u) \in Nat
    <3> HIDE DEF u
    <3> QED  BY <1>7, ListLen DEF AppsBound
  <2>2. Cardinality(App) \in Nat
    BY DEF AppsBound
  <2> QED  BY <1>7, <2>1, <2>2, NumPifoAssumption
<1>9. /\ Layout'
      /\ Kept' = t
      /\ El(push_1_del') = p1 /\ El(push_2_del') = p2
      /\ Lo' = IF p1 = <<>> \/ p2 = <<>> THEN <<>>
               ELSE IF p2[1].prio < p1[1].prio THEN <<p1[1].app>>
               ELSE <<p2[1].app>>
      /\ Out' = gone
  BY <1>1, <1>5, <1>8, LayoutStep DEF popped, t, gone
<1>10. Layout' => Listed'
  BY LayoutListed, PTL
<1>11. Pf' = u
  BY Zenon, <1>9, <1>10 DEF Listed, El
<1>12. ArrInv'
  <2>1. Out' # <<>> => Out'[1].app \notin Apps(Pf')
    <3> SUFFICES ASSUME gone # <<>>
                 PROVE  gone[1].app \notin Apps(u)
      BY Zenon, <1>9, <1>11
    <3>1. popped # <<>> /\ pop
      BY <1>5 DEF gone
    <3>2. p2 = <<>>
      BY <1>2, <3>1
    <3>3. SlotApps(p2) = {} /\ (p1 = <<>> => SlotApps(p1) = {}) /\ (p1 # <<>> => SlotApps(p1) = {p1[1].app})
      BY <3>2, SlotAppsOf
    <3> QED  BY Zenon, <1>2, <1>6, <1>7, <3>1, <3>3
  <2> HIDE DEF u, t, gone
  <2>2. Distinct(Pf)'
    BY Zenon, <1>7, <1>11 DEF Distinct
  <2>3. (Out # <<>> => Out[1].app \notin Apps(Pf))'
    BY Zenon, <2>1 DEF Apps
  <2> QED  BY Zenon, <1>9, <2>2, <2>3 DEF ArrInv
<1>13. List!ListClock(pop, p1, p2, mask)
  <2>1. (\A s, slot : List!Push(s, slot) = Push(s, slot)) /\ (\A s, i : List!RemoveAt(s, i) = RemoveAt(s, i))
        /\ List!Poppable(mask) = CanPop(mask)
    BY SameList
  <2> HIDE DEF u
  <2>2. /\ pop \in BOOLEAN /\ u = List!Push(List!Push(t, p1), p2)
    BY <2>1 DEF u
  <2>3. CASE popped = <<>>
    <3>1. t = Pf /\ gone = <<>> /\ (~pop \/ List!Poppable(mask) = {})
      BY <1>5, <2>1, <2>3 DEF t, gone
    <3> QED  BY Zenon, <1>9, <1>11, <2>2, <3>1 DEF List!ListClock, Pf, Lo, Out
  <2>4. CASE popped # <<>>
    <3> DEFINE i == popped[1] + 1
    <3>1. /\ i \in List!Poppable(mask) /\ \A j \in List!Poppable(mask) : i <= j
          /\ pop /\ t = List!RemoveAt(Pf, i) /\ gone = <<Pf[i]>>
      BY Zenon, <1>5, <2>1, <2>4 DEF t, gone
    <3> HIDE DEF i
    <3> QED  BY Zenon, <1>9, <1>11, <2>2, <3>1 DEF List!ListClock, Pf, Lo, Out
  <2> QED  BY <2>3, <2>4
<1> QED  BY <1>12, <1>13

(* The array as it is reset holds nothing. *)
LEMMA ArrStart ==
  ASSUME ArrInit
  PROVE  ArrInv /\ List!ListInit
<1>1. pf_cnt = 0 /\ pop_del = <<>> /\ push_1_del = <<>> /\ push_2_del = <<>> /\ NumPifo \in Nat /\ NumPifo > 2
  BY NumPifoAssumption DEF ArrInit
<1>2. push_hi_del = <<>> /\ push_lo_del = <<>>
  BY <1>1 DEF push_hi_del, push_lo_del, Upper, Lower, SecondIsUpper
<1>3. NextCnt = 0
  BY <1>1 DEF NextCnt
<1>4. Held = <<>> /\ Pf = <<>> /\ Kept = <<>>
  BY <1>1, <1>3 DEF Held, Pf, Kept
<1>5. Layout
  BY <1>1, <1>2, <1>4 DEF Layout, Sorted, Placed, Slot
<1>6. Distinct(Pf) /\ Out = <<>> /\ Lo = <<>>
  BY <1>1, <1>2, <1>4 DEF Distinct, Out, Lo
<1> QED  BY <1>4, <1>5, <1>6 DEF ArrInv, List!ListInit, Pf, Out, Lo

(* Every step of the array is a step of the list, or of neither. *)
LEMMA ArrNextStep ==
  ASSUME LeastExists, AppsBound, ArrInv, [ArrNext]_arrVars
  PROVE  ArrInv' /\ [List!ListNext]_(List!listVars)
<1>1. ASSUME ArrInv, ArrNext
      PROVE  ArrInv' /\ List!ListNext
  <2>1. PICK pop \in BOOLEAN, p1 \in Slot(Desc), p2 \in Slot(Desc) :
          /\ List!Discipline(pop, p1, p2)
          /\ \E mask \in List!Masks(pop) : ArrClock(pop, p1, p2, mask)
    BY <1>1 DEF ArrNext
  <2>2. PICK mask \in List!Masks(pop) : ArrClock(pop, p1, p2, mask)
    BY <2>1
  <2>3. ArrInv' /\ List!ListClock(pop, p1, p2, mask)
    BY <1>1, <2>1, <2>2, ArrStep
  <2>4. List!Slot(List!Desc) = Slot(Desc)
    BY DEF List!Slot, List!Desc, Slot, Desc
  <2> QED  BY <2>1, <2>2, <2>3, <2>4 DEF List!ListNext
<1>2. ASSUME ArrInv, UNCHANGED arrVars
      PROVE  ArrInv' /\ UNCHANGED List!listVars
  <2>1. arr' = arr /\ pf_cnt' = pf_cnt /\ pop_del' = pop_del /\ push_1_del' = push_1_del /\ push_2_del' = push_2_del
    BY <1>2 DEF arrVars
  <2>2. push_hi_del' = push_hi_del /\ push_lo_del' = push_lo_del
    BY <2>1 DEF push_hi_del, push_lo_del, Upper, Lower, SecondIsUpper
  <2>3. NextCnt' = NextCnt /\ NextArr' = NextArr
    BY <2>1, <2>2 DEF NextCnt, NextArr, PopShift
  <2>4. Pf' = Pf /\ Lo' = Lo /\ Out' = Out /\ Held' = Held
    BY <2>1, <2>2, <2>3 DEF Pf, Lo, Out, Held
  <2>5. Kept' = Kept
    BY <2>1, <2>4 DEF Kept
  <2>6. Layout'
    BY Zenon, <1>2, <2>1, <2>2, <2>4, <2>5 DEF ArrInv, Layout, Sorted, Placed
  <2>7. ArrInv'
    BY <1>2, <2>4, <2>6 DEF ArrInv, Distinct, Apps
  <2> QED  BY Zenon, <2>4, <2>7 DEF List!listVars, Pf, Lo, Out
<1> QED  BY <1>1, <1>2

INSTANCE FiniteSetTheorems

(* A list with distinct applications is no longer than their number. *)
LEMMA DistinctBound ==
  ASSUME NEW s \in Seq(Desc), Distinct(s), IsFiniteSet(App)
  PROVE  Len(s) <= Cardinality(App)
<1> DEFINE f == [k \in 1..Len(s) |-> s[k].app]
<1>1. Len(s) \in Nat /\ DOMAIN s = 1..Len(s)  BY Zenon, ListLen
<1>2. \A k \in 1..Len(s) : s[k].app \in App
  <2> TAKE k \in 1..Len(s)
  <2>1. s[k] \in Desc  BY Zenon, ListLen
  <2> QED  BY Zenon, <2>1 DEF Desc
<1>3. f \in [1..Len(s) -> App]  BY Zenon, <1>2
<1>4. \A j, k \in 1..Len(s) : f[j] = f[k] => j = k  BY Zenon, <1>1 DEF Distinct
<1>5. Cardinality(1..Len(s)) = Len(s) /\ IsFiniteSet(1..Len(s))
  <2>1. /\ Cardinality(1..Len(s)) = IF 1 > Len(s) THEN 0 ELSE Len(s)-1+1
        /\ IsFiniteSet(1..Len(s))
    BY <1>1, FS_Interval
  <2> QED  BY <1>1, <2>1
<1> HIDE DEF f
<1>6. ~(Cardinality(App) < Cardinality(1..Len(s)))
  <2> DEFINE S == 1..Len(s)
  <2>1. f \in [S -> App] /\ IsFiniteSet(S) /\ \A j, k \in S : f[j] = f[k] => j = k
    BY Zenon, <1>3, <1>4, <1>5
  <2> HIDE DEF S
  <2>2. Cardinality(App) < Cardinality(S) => \E j, k \in S : j # k /\ f[j] = f[k]
    BY <2>1, FS_PigeonHole, ZenonT(30)
  <2> QED  BY Zenon, <2>1, <2>2 DEF S
<1>7. Cardinality(App) \in Nat
  BY FS_CardinalityType
<1> QED  BY <1>1, <1>5, <1>6, <1>7

(* A set of naturals has a least element. *)
LEMMA NatMin == LeastExists
<1> SUFFICES ASSUME NEW T \in SUBSET Nat, T # {}
             PROVE  \E x \in T : \A y \in T : x <= y
  BY DEF LeastExists
<1>1. IsWellFoundedOn(OpToRel(<,Nat), Nat)
  BY Zenon, NatLessThanWellFounded
<1>2. PICK x \in T : \A y \in T : ~(<<y, x>> \in OpToRel(<,Nat))
  BY Zenon, <1>1, WFMin
<1>3. \A y \in T : ~(y < x)
  BY ZenonT(30), <1>2 DEF OpToRel
<1> QED  BY <1>3

(* Every clock of the register array of pifo.sv is a clock of the list,    *)
(* for any number of applications and priorities and any array with more   *)
(* registers than applications: the indices computed from the registers as *)
(* they were, corrected for the pop and the two insertions in flight, put  *)
(* an element where the list puts it and pop the one that the list pops.   *)
THEOREM ArrayImplementsList == ArrSpec => ArrayIsList
<1>1. ArrInit => ArrInv /\ List!ListInit
  BY Zenon, ArrStart
<1>2. ArrInv /\ [ArrNext]_arrVars => ArrInv' /\ [List!ListNext]_(List!listVars)
  <2>1. AppsBound
    BY NumPifoAssumption, DistinctBound, FS_CardinalityType DEF AppsBound
  <2> QED  BY <2>1, NatMin, ArrNextStep
<1> QED  BY <1>1, <1>2, PTL DEF ArrSpec, ArrayIsList, List!ListSpec
=============================================================================
