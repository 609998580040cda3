------------------------- MODULE RxSchedulerProofs --------------------------
(***************************************************************************)
(* The scheduler's safety for every set of at most 8 applications, all     *)
(* queue sizes and depths, both policies and every credit limit.           *)
(***************************************************************************)
EXTENDS RxScheduler, AxisFifoProofs, PifoListProofs

(* Leaves may take longer than the default limit among so many facts. *)
USE SMTT(30)

(***************************************************************************)
(* The dispatcher: its credit is exact, and every result of the reduce     *)
(* tree finds its own descriptor, for all depths and credits that          *)
(* DispatchAssumption allows.                                              *)
(***************************************************************************)
(* The number of requests in stage j of the tree t; and of those at least  *)
(* as old as the one in stage i (the tree has at most 5 stages).           *)
Held(t, j) == IF j <= Latency THEN Len(t[j]) ELSE 0
Rank(t, i) ==
  Held(t, i) + Held(t, i+1) + Held(t, i+2) + Held(t, i+3) + Held(t, i+4)

(* The inductive invariant.  The requests in the tree are the descriptors  *)
(* in in_find_min_fifo, in the same order; and a request older than one    *)
(* clock has had the time to bring a descriptor to the FIFO's output.      *)
DispInv ==
  /\ DispTypeOK
  /\ out_fifo_counter = Occupancy(in_find_min_fifo) + Occupancy(out_fifo)
  /\ out_fifo_counter <= Credits
  /\ Rank(tree, 1) = Occupancy(in_find_min_fifo)
  /\ (\E i \in 2..Latency : tree[i] # <<>>) => TValid(in_find_min_fifo)
  /\ \A i \in 1..Latency : tree[i] # <<>> =>
       Word(in_find_min_fifo, Rank(tree, i)) = tree[i][1].desc

(* The tree has two stages for RSS and five for find-min. *)
LEMMA LatencyType == Latency \in {2, 5} /\ Latency \in Nat /\ Latency >= 2
BY DispatchAssumption DEF Latency

(* A one-register FIFO's occupancy in terms of its memory and output. *)
LEMMA OccupancyParts ==
  ASSUME SetsCount, NEW D, NEW depth, NEW f, IsFifo(f, D, depth, 1)
  PROVE  /\ Occupancy(f) \in Nat
         /\ MemLen(f) \in Nat
         /\ Occupancy(f) = MemLen(f) + (IF TValid(f) THEN 1 ELSE 0)
         /\ MemLen(f) = 0 <=> f.mem = <<>>
<1>1. TValid(f) <=> f.pipe[1] # <<>>
  <2>1. f.pipe \in [1..1 -> Slot(D)]  BY Zenon DEF IsFifo
  <2>2. Len(f.pipe) = 1  BY <2>1
  <2> QED  BY <2>2 DEF TValid
<1>2. RegLen(f, 1) = IF TValid(f) THEN 1 ELSE 0
  BY <1>1, RegLenType
<1>3. Occupancy(f) = MemLen(f) + RegLen(f, 1)
  BY OccupancyOne
<1>4. MemLen(f) \in Nat /\ (MemLen(f) = 0 <=> f.mem = <<>>)
  BY MemLenType
<1> QED  BY <1>2, <1>3, <1>4

(* A stage holds at most one request. *)
LEMMA HeldType ==
  ASSUME NEW t \in [1..Latency -> Slot(Request)], NEW j \in Nat \ {0}
  PROVE  /\ Held(t, j) \in 0..1
         /\ j <= Latency => (t[j] # <<>> <=> Held(t, j) = 1)
         /\ j > Latency => Held(t, j) = 0
<1>1. CASE j <= Latency
  <2> DEFINE r == t[j]
  <2>1. r \in Slot(Request)  BY <1>1, LatencyType
  <2>2. Held(t, j) = Len(r)  BY <1>1 DEF Held
  <2> HIDE DEF r
  <2>3. Len(r) \in Nat /\ Len(r) <= 1 /\ (r = <<>> <=> Len(r) = 0)
    BY Zenon, <2>1, SlotIsSeq
  <2>4. Held(t, j) \in 0..1  BY <2>2, <2>3
  <2>5. r # <<>> <=> Held(t, j) = 1  BY <2>2, <2>3
  <2>6. ~(j > Latency)  BY <1>1, LatencyType
  <2> QED  BY Zenon, <2>4, <2>5, <2>6 DEF r
<1>2. CASE j > Latency
  BY <1>2, LatencyType DEF Held
<1> QED  BY <1>1, <1>2, LatencyType

(* A rank counts the request itself and, if it is another one, the oldest; *)
(* the ranks grow towards stage 1.                                         *)
LEMMA RankBounds ==
  ASSUME NEW t \in [1..Latency -> Slot(Request)], NEW i \in 1..Latency
  PROVE  /\ Rank(t, i) \in Nat /\ Rank(t, 1) \in Nat
         /\ Held(t, i) <= Rank(t, i)
         /\ i < Latency => Held(t, i) + Held(t, Latency) <= Rank(t, i)
         /\ Rank(t, i) <= Rank(t, 1)
         /\ Rank(t, Latency) = Held(t, Latency)
<1>1. \A j \in Nat \ {0} : Held(t, j) \in 0..1 /\ (j > Latency => Held(t, j) = 0)
  BY HeldType
<1>2. CASE Latency = 2
  <2>1. Held(t, 1) \in 0..1 /\ Held(t, 2) \in 0..1  BY <1>1
  <2>2. /\ Held(t, 3) = 0 /\ Held(t, 4) = 0 /\ Held(t, 5) = 0
        /\ Held(t, 6) = 0
    BY <1>1, <1>2
  <2>3. Rank(t, 1) = Held(t, 1) + Held(t, 2) /\ Rank(t, 2) = Held(t, 2)
    BY <2>1, <2>2 DEF Rank
  <2>4. i = 1 \/ i = 2  BY <1>2
  <2> QED  BY <1>2, <2>1, <2>3, <2>4
<1>3. CASE Latency = 5
  <2>1. /\ Held(t, 1) \in 0..1 /\ Held(t, 2) \in 0..1 /\ Held(t, 3) \in 0..1
        /\ Held(t, 4) \in 0..1 /\ Held(t, 5) \in 0..1
    BY <1>1
  <2>2. /\ Held(t, 6) = 0 /\ Held(t, 7) = 0 /\ Held(t, 8) = 0
        /\ Held(t, 9) = 0
    BY <1>1, <1>3
  <2>3. /\ Rank(t, 1) = Held(t, 1) + Held(t, 2) + Held(t, 3) + Held(t, 4) + Held(t, 5)
        /\ Rank(t, 2) = Held(t, 2) + Held(t, 3) + Held(t, 4) + Held(t, 5)
        /\ Rank(t, 3) = Held(t, 3) + Held(t, 4) + Held(t, 5)
        /\ Rank(t, 4) = Held(t, 4) + Held(t, 5)
        /\ Rank(t, 5) = Held(t, 5)
    BY <2>1, <2>2 DEF Rank
  <2>4. i = 1 \/ i = 2 \/ i = 3 \/ i = 4 \/ i = 5  BY <1>3
  <2> QED  BY <1>3, <2>1, <2>3, <2>4
<1> QED  BY Zenon, <1>2, <1>3, LatencyType

(* One clock: every request moves on a stage and the oldest leaves. *)
LEMMA RankShift ==
  ASSUME NEW t \in [1..Latency -> Slot(Request)],
         NEW u \in [1..Latency -> Slot(Request)],
         \A i \in 2..Latency : u[i] = t[i-1]
  PROVE  /\ \A i \in 2..Latency : Rank(u, i) = Rank(t, i-1) - Held(t, Latency)
         /\ Rank(u, 1) = Held(u, 1) + Rank(t, 1) - Held(t, Latency)
<1>1. \A j \in Nat \ {0} :
        /\ Held(t, j) \in 0..1 /\ (j > Latency => Held(t, j) = 0)
        /\ Held(u, j) \in 0..1 /\ (j > Latency => Held(u, j) = 0)
  BY HeldType
<1>2. \A j \in 2..Latency : Held(u, j) = Held(t, j-1)
  BY LatencyType DEF Held
<1>3. CASE Latency = 2
  <2>1. Held(t, 1) \in 0..1 /\ Held(t, 2) \in 0..1 /\ Held(u, 1) \in 0..1  BY <1>1
  <2>2. /\ Held(t, 3) = 0 /\ Held(t, 4) = 0 /\ Held(t, 5) = 0
        /\ Held(u, 3) = 0 /\ Held(u, 4) = 0 /\ Held(u, 5) = 0 /\ Held(u, 6) = 0
    BY <1>1, <1>3
  <2>3. Held(u, 2) = Held(t, 1)  BY <1>2, <1>3
  <2>4. /\ Rank(t, 1) = Held(t, 1) + Held(t, 2)
        /\ Rank(u, 1) = Held(u, 1) + Held(t, 1) /\ Rank(u, 2) = Held(t, 1)
    BY <2>1, <2>2, <2>3 DEF Rank
  <2>5. \A i \in 2..Latency : i = 2 /\ i - 1 = 1  BY <1>3
  <2> QED  BY <1>3, <2>1, <2>4, <2>5
<1>4. CASE Latency = 5
  <2>1. /\ Held(t, 1) \in 0..1 /\ Held(t, 2) \in 0..1 /\ Held(t, 3) \in 0..1
        /\ Held(t, 4) \in 0..1 /\ Held(t, 5) \in 0..1 /\ Held(u, 1) \in 0..1
    BY <1>1
  <2>2. /\ Held(t, 6) = 0 /\ Held(t, 7) = 0 /\ Held(t, 8) = 0
        /\ Held(u, 6) = 0 /\ Held(u, 7) = 0 /\ Held(u, 8) = 0 /\ Held(u, 9) = 0
    BY <1>1, <1>4
  <2>3. /\ Held(u, 2) = Held(t, 1) /\ Held(u, 3) = Held(t, 2)
        /\ Held(u, 4) = Held(t, 3) /\ Held(u, 5) = Held(t, 4)
    BY <1>2, <1>4
  <2>4. /\ Rank(t, 1) = Held(t, 1) + Held(t, 2) + Held(t, 3) + Held(t, 4) + Held(t, 5)
        /\ Rank(t, 2) = Held(t, 2) + Held(t, 3) + Held(t, 4) + Held(t, 5)
        /\ Rank(t, 3) = Held(t, 3) + Held(t, 4) + Held(t, 5)
        /\ Rank(t, 4) = Held(t, 4) + Held(t, 5)
    BY <2>1, <2>2 DEF Rank
  <2>5. /\ Rank(u, 1) = Held(u, 1) + Held(t, 1) + Held(t, 2) + Held(t, 3) + Held(t, 4)
        /\ Rank(u, 2) = Held(t, 1) + Held(t, 2) + Held(t, 3) + Held(t, 4)
        /\ Rank(u, 3) = Held(t, 2) + Held(t, 3) + Held(t, 4)
        /\ Rank(u, 4) = Held(t, 3) + Held(t, 4)
        /\ Rank(u, 5) = Held(t, 4)
    BY <2>1, <2>2, <2>3 DEF Rank
  <2>6. \A i \in 2..Latency : (i = 2 /\ i-1 = 1) \/ (i = 3 /\ i-1 = 2)
                             \/ (i = 4 /\ i-1 = 3) \/ (i = 5 /\ i-1 = 4)
    BY <1>4
  <2> QED  BY <1>4, <2>1, <2>4, <2>5, <2>6
<1> QED  BY Zenon, <1>3, <1>4, LatencyType

-----------------------------------------------------------------------------
(* The empty dispatcher satisfies the invariant. *)
LEMMA DispInitInv ==
  ASSUME SetsCount, DispInit
  PROVE  DispInv
<1>1. /\ IsFifo(EmptyFifo(1), Desc, InDepth, 1)
      /\ IsFifo(EmptyFifo(1), Desc, OutDepth, 1)
  BY DispatchAssumption DEF IsFifo, EmptyFifo, Slot
<1>2. tree = [i \in 1..Latency |-> <<>>]
  BY Zenon DEF DispInit
<1>3. tree \in [1..Latency -> Slot(Request)]
  BY <1>2 DEF Slot
<1>4. DispTypeOK
  BY <1>1, <1>3, DispatchAssumption DEF DispInit, DispTypeOK
<1>5. \A i \in 1..Latency : tree[i] = <<>>
  BY Zenon, <1>2
<1>6. ~TValid(EmptyFifo(1)) /\ EmptyFifo(1).mem = <<>>
  BY DEF TValid, EmptyFifo
<1>7. Occupancy(EmptyFifo(1)) = 0
  BY <1>1, <1>6, OccupancyParts
<1>8. Rank(tree, 1) = 0
  <2>1. \A j \in Nat \ {0} : Held(tree, j) = 0
    <3> TAKE j \in Nat \ {0}
    <3>1. /\ Held(tree, j) \in 0..1
          /\ j <= Latency => (tree[j] # <<>> <=> Held(tree, j) = 1)
          /\ j > Latency => Held(tree, j) = 0
      BY ZenonT(30), <1>3, HeldType
    <3>2. j <= Latency => tree[j] = <<>>  BY <1>5, LatencyType
    <3> QED  BY <3>1, <3>2, LatencyType
  <2>2. /\ Held(tree, 1) = 0 /\ Held(tree, 1+1) = 0 /\ Held(tree, 1+2) = 0
        /\ Held(tree, 1+3) = 0 /\ Held(tree, 1+4) = 0
    BY <2>1
  <2> QED  BY <2>2 DEF Rank
<1>9. /\ in_find_min_fifo = EmptyFifo(1) /\ out_fifo = EmptyFifo(1)
      /\ out_fifo_counter = 0 /\ 0 <= Credits
  BY DispatchAssumption DEF DispInit
<1>10. 2..Latency \subseteq 1..Latency
  BY LatencyType
<1> QED  BY <1>4, <1>5, <1>7, <1>8, <1>9, <1>10 DEF DispInv

(* What the invariant says when the tree delivers a result. *)
LEMMA DispResult ==
  ASSUME SetsCount, DispInv, min_queue_en
  PROVE  /\ TValid(in_find_min_fifo)
         /\ TReady(out_fifo, OutDepth)
         /\ TData(in_find_min_fifo) = tree[Latency][1].desc
         /\ Held(tree, Latency) = 1
<1>1. /\ IsFifo(in_find_min_fifo, Desc, InDepth, 1)
      /\ IsFifo(out_fifo, Desc, OutDepth, 1)
      /\ tree \in [1..Latency -> Slot(Request)]
  BY Zenon DEF DispInv, DispTypeOK
<1>2. tree[Latency] # <<>> /\ Latency \in 2..Latency /\ Latency \in 1..Latency
  BY LatencyType DEF min_queue_en
<1>3. TValid(in_find_min_fifo)
  BY Zenon, <1>2 DEF DispInv
<1>4. Held(tree, Latency) = 1 /\ Rank(tree, Latency) = 1
  <2>1. Held(tree, Latency) = 1
    BY <1>1, <1>2, HeldType, LatencyType
  <2>2. Rank(tree, Latency) = Held(tree, Latency)
    BY Zenon, <1>1, <1>2, RankBounds
  <2> QED  BY <2>1, <2>2
<1>5. Word(in_find_min_fifo, 1) = tree[Latency][1].desc
  BY Zenon, <1>2, <1>4 DEF DispInv
<1>6. TData(in_find_min_fifo) = tree[Latency][1].desc
  BY Zenon, <1>3, <1>5 DEF Word
<1>7. TReady(out_fifo, OutDepth)
  <2>1. Occupancy(in_find_min_fifo) \in Nat /\ Occupancy(in_find_min_fifo) >= 1
    BY <1>1, <1>3, OccupancyParts
  <2>2. MemLen(out_fifo) \in Nat /\ Occupancy(out_fifo) \in Nat /\ MemLen(out_fifo) <= Occupancy(out_fifo)
    <3>1. /\ MemLen(out_fifo) \in Nat /\ Occupancy(out_fifo) \in Nat
          /\ Occupancy(out_fifo) = MemLen(out_fifo) + (IF TValid(out_fifo) THEN 1 ELSE 0)
      BY Zenon, <1>1, OccupancyParts
    <3> QED  BY <3>1
  <2>3. /\ out_fifo_counter = Occupancy(in_find_min_fifo) + Occupancy(out_fifo)
        /\ out_fifo_counter <= Credits
    BY Zenon DEF DispInv
  <2>4. MemLen(out_fifo) < OutDepth
    BY <2>1, <2>2, <2>3, DispatchAssumption
  <2> QED  BY <2>4 DEF TReady, MemLen
<1> QED  BY Zenon, <1>3, <1>4, <1>6, <1>7

(* A clock edge at which the dispatcher is offered a descriptor only when  *)
(* it is ready preserves the invariant.                                    *)
LEMMA DispClockInv ==
  ASSUME SetsCount, DispInv, NEW s \in Slot(Desc), NEW drop \in BOOLEAN,
         NEW m_ready \in BOOLEAN, s # <<>> => s_packet_desc_ready,
         DispClock(s, drop, m_ready)
  PROVE  DispInv'
<1> DEFINE f == in_find_min_fifo
           o == out_fifo
           L == Latency
           tready == m_out_fifo_packet_desc_ready
           moved == IF /\ TValid(in_find_min_fifo)
                       /\ m_out_fifo_packet_desc_ready
                       /\ ~if_drop
                    THEN <<TData(in_find_min_fifo)>> ELSE <<>>
           p == IF min_queue_en THEN 1 ELSE 0
           d == IF if_drop THEN 1 ELSE 0
           q == IF m_packet_desc_valid /\ m_ready THEN 1 ELSE 0
<1>0. out_fifo_counter' = (out_fifo_counter + Len(s) - q - d) % 256
  BY Zenon DEF DispClock
<1>1. /\ f' = Clock(f, InDepth, s, tready)
      /\ o' = Clock(o, OutDepth, moved, m_ready)
  BY Zenon DEF DispClock
<1>2. tree' = [i \in 1..L |-> IF i > 1 THEN tree[i-1]
                              ELSE IF s = <<>> THEN <<>>
                              ELSE <<[desc |-> s[1], drop |-> drop /\ ~FindMin]>>]
  BY Zenon DEF DispClock
<1>3. /\ IsFifo(f, Desc, InDepth, 1)
      /\ IsFifo(o, Desc, OutDepth, 1)
      /\ tree \in [1..L -> Slot(Request)]
      /\ InDepth \in Nat /\ OutDepth \in Nat /\ Credits \in 1..255
  BY Zenon, DispatchAssumption DEF DispInv, DispTypeOK
<1>4. L \in Nat /\ L >= 2 /\ 1 \in 1..L
  BY LatencyType
<1>5. tready \in BOOLEAN /\ (tready <=> min_queue_en) /\ (TValid(f) /\ tready <=> min_queue_en)
  BY Zenon, DispResult DEF m_out_fifo_packet_desc_ready, min_queue_en
<1>6. moved \in Slot(Desc) /\ Len(moved) = p - d /\ d <= p /\ p \in 0..1 /\ d \in 0..1 /\ q \in 0..1
  <2>1. min_queue_en => TData(f) \in Desc
    <3> SUFFICES ASSUME min_queue_en PROVE TData(f) \in Desc  BY Zenon
    <3>1. f.pipe \in [1..1 -> Slot(Desc)]  BY Zenon, <1>3 DEF IsFifo
    <3>2. Len(f.pipe) = 1  BY <3>1
    <3>3. f.pipe[1] \in Slot(Desc) /\ f.pipe[1] # <<>>
      BY <3>1, <3>2, DispResult DEF TValid
    <3>4. f.pipe[1][1] \in Desc  BY Zenon, <3>3, SlotIsSeq
    <3> QED  BY Zenon, <3>2, <3>4 DEF TData
  <2>2. if_drop => min_queue_en  BY Zenon DEF if_drop
  <2>3. CASE min_queue_en /\ ~if_drop
    <3>1. moved = <<TData(f)>> /\ TData(f) \in Desc  BY Zenon, <1>5, <2>1, <2>3
    <3>2. moved \in Slot(Desc) /\ Len(moved) = 1  BY Zenon, <3>1 DEF Slot
    <3> QED  BY <2>3, <3>2
  <2>4. CASE ~min_queue_en \/ if_drop
    <3>1. moved = <<>>  BY Zenon, <1>5, <2>2, <2>4
    <3>2. moved \in Slot(Desc) /\ Len(moved) = 0  BY Zenon, <3>1 DEF Slot
    <3> QED  BY <2>2, <2>4, <3>2
  <2> QED  BY Zenon, <2>3, <2>4
<1>7. /\ s # <<>> => TReady(f, InDepth) /\ out_fifo_counter < Credits
      /\ moved # <<>> => TReady(o, OutDepth)
      /\ TValid(o) <=> m_packet_desc_valid
  BY Zenon, DispResult DEF s_packet_desc_ready, m_packet_desc_valid, m_out_fifo_packet_desc_ready
<1>8. Len(s) \in 0..1 /\ (s # <<>> <=> Len(s) = 1) /\ (moved = <<>> => Len(moved) = 0)
  BY <1>6, SlotIsSeq
<1>9. /\ Occupancy(f) \in Nat /\ Occupancy(o) \in Nat
      /\ out_fifo_counter = Occupancy(f) + Occupancy(o)
      /\ out_fifo_counter <= Credits
      /\ Rank(tree, 1) = Occupancy(f)
  BY <1>3, OccupancyParts DEF DispInv
<1> HIDE DEF moved, f, o, tready, L, p, q, d
<1>10. IsFifo(f', Desc, InDepth, 1) /\ IsFifo(o', Desc, OutDepth, 1)
  BY <1>1, <1>3, <1>5, <1>6, ClockType
<1>11. Occupancy(f') = Occupancy(f) + Len(s) - p
  <2>1. Written(f, InDepth, s) = Len(s) /\ Read(f, tready) = p
    BY Zenon, <1>5, <1>7, <1>8 DEF Written, Read, p
  <2>2. Occupancy(Clock(f, InDepth, s, tready))
          = Occupancy(f) + Written(f, InDepth, s) - Read(f, tready)
    BY <1>3, <1>5, ClockOne
  <2> QED  BY Zenon, <1>1, <2>1, <2>2
<1>12. Occupancy(o') = Occupancy(o) + Len(moved) - q
  <2>1. Written(o, OutDepth, moved) = Len(moved) /\ Read(o, m_ready) = q
    BY Zenon, <1>7, <1>8 DEF Written, Read, q
  <2>2. Occupancy(Clock(o, OutDepth, moved, m_ready))
          = Occupancy(o) + Written(o, OutDepth, moved) - Read(o, m_ready)
    BY <1>3, <1>6, ClockOne
  <2> QED  BY Zenon, <1>1, <2>1, <2>2
<1>13. Occupancy(f') \in Nat /\ Occupancy(o') \in Nat
  BY Zenon, <1>10, OccupancyParts
<1>14. /\ out_fifo_counter' = Occupancy(f') + Occupancy(o')
       /\ out_fifo_counter' <= Credits
       /\ out_fifo_counter' \in 0..Credits
  <2> DEFINE c == out_fifo_counter + Len(s) - q - d
             n == Len(s)
  <2>1. c = Occupancy(f') + Occupancy(o')  BY <1>6, <1>8, <1>9, <1>11, <1>12
  <2>2. n \in 0..1 /\ (n = 1 => out_fifo_counter < Credits)
    BY Zenon, <1>7, <1>8
  <2>3. c <= out_fifo_counter + n /\ out_fifo_counter \in Nat /\ c \in Int
    BY <1>6, <1>9, <2>2
  <2>4. out_fifo_counter' = c % 256  BY Zenon, <1>0
  <2> HIDE DEF n, c
  <2>5. Credits \in 1..255 /\ out_fifo_counter <= Credits  BY Zenon, <1>3, <1>9
  <2>6. c <= Credits
    <3>1. CASE n = 0  BY <2>3, <2>5, <3>1
    <3>2. CASE n = 1  BY <2>2, <2>3, <2>5, <3>2
    <3> QED  BY <2>2, <3>1, <3>2
  <2>7. c >= 0  BY <1>13, <2>1
  <2>8. c \in 0..Credits  BY <2>3, <2>5, <2>6, <2>7
  <2>9. c % 256 = c  BY <2>5, <2>8
  <2> QED  BY <2>1, <2>4, <2>6, <2>8, <2>9
<1>15. tree' \in [1..L -> Slot(Request)]
  <2>1. \A i \in 2..L : tree[i-1] \in Slot(Request)  BY <1>3, <1>4
  <2>2. s # <<>> => <<[desc |-> s[1], drop |-> drop /\ ~FindMin]>> \in Slot(Request)
    BY ZenonT(30), SlotIsSeq, DispatchAssumption DEF Slot, Request
  <2>3. <<>> \in Slot(Request)  BY Zenon DEF Slot
  <2>4. \A i \in 1..L : i > 1 => i \in 2..L  BY <1>4
  <2> QED  BY Zenon, <1>2, <2>1, <2>2, <2>3, <2>4
<1>16. /\ \A i \in 2..L : tree'[i] = tree[i-1]
       /\ s = <<>> => tree'[1] = <<>>
       /\ s # <<>> => tree'[1] # <<>> /\ tree'[1][1].desc = s[1]
  BY <1>2, <1>4
<1>17. Held(tree', 1) = Len(s) /\ Held(tree, L) = p
  <2>1. Held(tree', 1) = 1 <=> s # <<>>  BY <1>4, <1>15, <1>16, HeldType DEF L
  <2>2. Held(tree', 1) \in 0..1 /\ Held(tree, L) \in 0..1  BY <1>3, <1>4, <1>15, HeldType DEF L
  <2>3. Held(tree, L) = 1 <=> min_queue_en  BY <1>3, <1>4, HeldType DEF L, min_queue_en
  <2>4. Held(tree, L) = p  BY <2>2, <2>3 DEF p
  <2>5. Held(tree', 1) = Len(s)
    <3> DEFINE n == Len(s)
               h == Held(tree', 1)
    <3>1. n \in 0..1 /\ h \in 0..1 /\ (h = 1 <=> n = 1)  BY Zenon, <1>8, <2>1, <2>2
    <3> HIDE DEF n, h
    <3>2. h = n  BY <3>1
    <3> QED  BY Zenon, <3>2 DEF h, n
  <2> QED  BY Zenon, <2>4, <2>5
<1>18. /\ \A i \in 2..L : Rank(tree', i) = Rank(tree, i-1) - p
       /\ Rank(tree', 1) = Len(s) + Rank(tree, 1) - p
  BY ZenonT(30), <1>3, <1>15, <1>16, <1>17, RankShift DEF L
<1>19. Rank(tree', 1) = Occupancy(f')
  BY <1>6, <1>8, <1>9, <1>11, <1>18
<1>20. (\E i \in 2..L : tree'[i] # <<>>) => TValid(f')
  <2> SUFFICES ASSUME NEW i \in 2..L, tree'[i] # <<>>, ~TValid(f') PROVE FALSE
    BY Zenon
  <2>1. TValid(Clock(f, InDepth, s, tready)) <=> (TValid(f) /\ ~tready) \/ f.mem # <<>>
    BY <1>3, <1>5, ClockOne, Zenon
  <2>2. f.mem = <<>> /\ (TValid(f) => p = 1)
    BY Zenon, <1>1, <1>5, <2>1 DEF p
  <2>3. i - 1 \in 1..L /\ i - 1 < L /\ tree[i-1] # <<>> /\ i - 1 \in Nat \ {0} /\ i - 1 <= L
    BY <1>4, <1>16
  <2>4. Held(tree, i-1) = 1
    BY ZenonT(30), <1>3, <2>3, HeldType DEF L
  <2>5. /\ Rank(tree, i-1) \in Nat
        /\ Held(tree, i-1) + Held(tree, L) <= Rank(tree, i-1)
        /\ Rank(tree, i-1) <= Rank(tree, 1)
    BY Zenon, <1>3, <2>3, RankBounds DEF L
  <2>6. 1 + p <= Occupancy(f)
    BY <1>6, <1>9, <1>17, <2>4, <2>5
  <2>7. Occupancy(f) = IF TValid(f) THEN 1 ELSE 0
    BY <1>3, <2>2, OccupancyParts
  <2> QED  BY <1>6, <2>2, <2>6, <2>7
<1>21. \A i \in 1..L : tree'[i] # <<>> => Word(f', Rank(tree', i)) = tree'[i][1].desc
  <2>1. p = IF TValid(f) /\ tready THEN 1 ELSE 0
    BY Zenon, <1>5 DEF p
  <2>2. /\ \A k \in 1 .. Occupancy(f) - p :
             Word(Clock(f, InDepth, s, tready), k) = Word(f, k + p)
        /\ s # <<>> /\ TReady(f, InDepth) =>
             Word(Clock(f, InDepth, s, tready), Occupancy(f) - p + 1) = s[1]
    BY <1>3, <1>5, <1>6, <2>1, ClockOneOrder
  <2>3. ASSUME NEW i \in 2..L, tree'[i] # <<>>
        PROVE  Word(f', Rank(tree', i)) = tree'[i][1].desc
    <3>1. i - 1 \in 1..L /\ i - 1 < L /\ tree[i-1] # <<>> /\ i - 1 \in Nat \ {0} /\ i - 1 <= L
      BY <1>4, <1>16, <2>3
    <3>2. Held(tree, i-1) = 1
      BY ZenonT(30), <1>3, <3>1, HeldType DEF L
    <3>3. /\ Rank(tree, i-1) \in Nat
          /\ Held(tree, i-1) + Held(tree, L) <= Rank(tree, i-1)
          /\ Rank(tree, i-1) <= Rank(tree, 1)
      BY <1>3, <3>1, RankBounds DEF L
    <3>4. /\ Rank(tree', i) = Rank(tree, i-1) - p
          /\ Rank(tree', i) \in 1 .. Occupancy(f) - p
          /\ Rank(tree', i) + p = Rank(tree, i-1)
      <4> DEFINE r == Rank(tree, i-1)
                 u == Rank(tree', i)
                 n == Occupancy(f)
      <4>1. u = r - p  BY <1>18
      <4>2. r \in Nat /\ p \in 0..1 /\ n \in Nat /\ 1 + p <= r /\ r <= n
        BY <1>6, <1>9, <1>17, <3>2, <3>3
      <4> HIDE DEF r, u, n
      <4>3. u = r - p /\ u \in 1 .. n - p /\ u + p = r  BY <4>1, <4>2
      <4> QED  BY Zenon, <4>3 DEF r, u, n
    <3>5. Word(f', Rank(tree', i)) = Word(f, Rank(tree, i-1))
      BY <1>1, <2>2, <3>4, Zenon
    <3>6. Word(f, Rank(tree, i-1)) = tree[i-1][1].desc
      BY Zenon, <3>1 DEF DispInv, L, f
    <3> QED  BY Zenon, <1>16, <3>5, <3>6
  <2>4. ASSUME tree'[1] # <<>>
        PROVE  Word(f', Rank(tree', 1)) = tree'[1][1].desc
    <3>1. s # <<>> /\ tree'[1][1].desc = s[1]  BY Zenon, <1>16, <2>4
    <3>2. Len(s) = 1  BY Zenon, <1>8, <3>1
    <3>3. Rank(tree', 1) = Occupancy(f) - p + 1  BY <1>6, <1>9, <1>18, <3>2
    <3> QED  BY <1>1, <1>7, <2>2, <3>1, <3>3, Zenon
  <2>5. \A i \in 1..L : i = 1 \/ i \in 2..L  BY <1>4
  <2> QED  BY Zenon, <2>3, <2>4, <2>5
<1>22. L = Latency' /\ f' = in_find_min_fifo' /\ o' = out_fifo'
  BY DEF L, f, o, Latency
<1>23. DispTypeOK'
  BY Zenon, <1>10, <1>14, <1>15 DEF DispTypeOK, L, f, o, Latency
<1> QED
  BY Zenon, <1>14, <1>19, <1>20, <1>21, <1>23 DEF DispInv, L, f, o, Latency

(* A ready dispatcher that accepts nothing is still ready a clock later. *)
LEMMA DispStaysReady ==
  ASSUME SetsCount, DispInv, NEW drop \in BOOLEAN, NEW m_ready \in BOOLEAN,
         s_packet_desc_ready, DispClock(<<>>, drop, m_ready)
  PROVE  s_packet_desc_ready'
<1> DEFINE f == in_find_min_fifo
           tready == m_out_fifo_packet_desc_ready
           d == IF if_drop THEN 1 ELSE 0
           q == IF m_packet_desc_valid /\ m_ready THEN 1 ELSE 0
           c == out_fifo_counter
           i == Occupancy(in_find_min_fifo)
           o == Occupancy(out_fifo)
<1>1. /\ IsFifo(f, Desc, InDepth, 1) /\ IsFifo(out_fifo, Desc, OutDepth, 1)
      /\ InDepth \in Nat /\ Credits \in 1..255 /\ tready \in BOOLEAN
  BY Zenon, DispatchAssumption DEF DispInv, DispTypeOK, m_out_fifo_packet_desc_ready, min_queue_en
<1>2. MemLen(f) \in Nat /\ MemLen(f) < InDepth /\ c < Credits
  BY <1>1, MemLenType DEF s_packet_desc_ready, TReady, MemLen
<1>3. f' = Clock(f, InDepth, <<>>, tready)  BY DEF DispClock
<1>4. TReady(f', InDepth)
  <2>1. <<>> \in Slot(Desc)  BY DEF Slot
  <2>2. MemLen(Clock(f, InDepth, <<>>, tready)) <= MemLen(f)
    BY <1>1, <2>1, ClockOne
  <2>3. IsFifo(Clock(f, InDepth, <<>>, tready), Desc, InDepth, 1)
    BY <1>1, <2>1, ClockType
  <2>4. MemLen(f') \in Nat  BY <1>3, <2>3, MemLenType
  <2>5. MemLen(f') < InDepth  BY <1>1, <1>2, <1>3, <2>2, <2>4
  <2> QED  BY <2>5 DEF TReady, MemLen
<1>5. d \in 0..1 /\ q \in 0..1 /\ i \in Nat /\ o \in Nat /\ c = i + o
  BY <1>1, OccupancyParts DEF DispInv
<1>6. d = 1 => i >= 1
  <2>1. if_drop => TValid(f)  BY Zenon, DispResult DEF if_drop
  <2>2. TValid(f) => i >= 1  BY <1>1, OccupancyParts
  <2> QED  BY <2>1, <2>2
<1>7. q = 1 => o >= 1
  <2>1. m_packet_desc_valid => o >= 1  BY <1>1, OccupancyParts DEF m_packet_desc_valid
  <2> QED  BY <2>1
<1>8. c' = (c + 0 - q - d) % 256
  <2>1. Len(<<>>) = 0  OBVIOUS
  <2> QED  BY Zenon, <2>1 DEF DispClock
<1>9. c' < Credits
  <2> DEFINE n == c + 0 - q - d
  <2> HIDE DEF d, q, c, i, o
  <2>1. n \in 0..255 /\ n < Credits
    BY <1>1, <1>2, <1>5, <1>6, <1>7
  <2>2. c' = n % 256  BY <1>8
  <2> HIDE DEF n
  <2>3. n % 256 = n  BY <2>1
  <2> QED  BY <2>1, <2>2, <2>3
<1> QED  BY Zenon, <1>4, <1>9 DEF s_packet_desc_ready

(* An edge of the dispatcher, and a step that leaves it alone, keep it. *)
LEMMA DispStep ==
  ASSUME SetsCount, DispInv, [DispNext]_dispVars
  PROVE  DispInv'
<1>1. CASE DispNext
  <2>1. PICK s \in Slot(Desc), drop \in BOOLEAN, m_ready \in BOOLEAN :
          /\ s # <<>> => s_packet_desc_ready
          /\ DispClock(s, drop, m_ready)
    BY Zenon, <1>1 DEF DispNext
  <2> QED  BY <2>1, DispClockInv
<1>2. CASE UNCHANGED dispVars
  BY Zenon, <1>2 DEF dispVars, DispInv, DispTypeOK, Latency
<1> QED  BY <1>1, <1>2

(***************************************************************************)
(* The queue manager's edge, for all applications, queue sizes and depths. *)
(***************************************************************************)
(* After a reset every queue is empty and its counter zero. *)
LEMMA QMInitInv ==
  ASSUME SetsCount, QMInit
  PROVE  QMTypeOK /\ OccupancyIsExact
<1> DEFINE e == EmptyFifo(2)
<1>1. QueueDepth \in Nat  BY QueueManagerAssumption
<1>2. \A a \in App : app_fifo[a] = e  BY Zenon DEF QMInit, OutputStages
<1>3. IsFifo(e, Desc, QueueDepth, 2) /\ Occupancy(e) = 0  BY Zenon, <1>1, EmptyTwo
<1> HIDE DEF e
<1>4. QMTypeOK
  <2>1. \A a \in App : IsFifo(app_fifo[a], Desc, QueueDepth, OutputStages)
    BY Zenon, <1>2, <1>3 DEF OutputStages
  <2>2. <<>> \in Slot(Desc)  BY DEF Slot
  <2> QED  BY <2>1, <2>2 DEF QMInit, QMTypeOK
<1>5. OccupancyIsExact
  <2> SUFFICES ASSUME NEW a \in App
               PROVE  /\ fifo_counter[a] = Occupancy(app_fifo[a])
                      /\ QueueSize[a] > 0 => fifo_counter[a] <= QueueSize[a] - 1
    BY Zenon DEF OccupancyIsExact
  <2>1. fifo_counter[a] = 0 /\ QueueSize[a] \in Nat
    BY QueueManagerAssumption DEF QMInit
  <2> QED  BY <1>2, <1>3, <2>1
<1> QED  BY <1>4, <1>5

(* A stuttering step changes nothing. *)
LEMMA QMUnchanged ==
  ASSUME QMTypeOK, OccupancyIsExact, UNCHANGED qmVars
  PROVE  QMTypeOK' /\ OccupancyIsExact'
<1>1. UNCHANGED <<app_fifo, fifo_counter, if_handler_oustand, grant>>
  BY DEF qmVars
<1>2. QMTypeOK'  BY <1>1 DEF QMTypeOK
<1>3. OccupancyIsExact'  BY Zenon, <1>1 DEF OccupancyIsExact
<1> QED  BY <1>2, <1>3

(* A 10-bit value. *)
LEMMA TenBits == \A x \in Int : x % 1024 \in 0..1023
OBVIOUS

(* The queue manager's edge keeps its types. *)
LEMMA QMClockType ==
  ASSUME QMTypeOK, NEW in \in Slot(Desc), NEW req \in Slot(App), QMClock(in, req)
  PROVE  QMTypeOK'
<1>0. fifo_counter \in [App -> 0..1023]  BY Zenon DEF QMTypeOK
<1>1. QueueDepth \in Nat  BY QueueManagerAssumption
<1>2. \A a \in App : IsFifo(app_fifo'[a], Desc, QueueDepth, OutputStages)
  <2> TAKE a \in App
  <2>1. IsFifo(app_fifo[a], Desc, QueueDepth, 2)  BY DEF QMTypeOK, OutputStages
  <2> DEFINE word == IF Stored(in, a) THEN in ELSE <<>>
             rd   == req = <<a>>
  <2>2. word \in Slot(Desc) /\ rd \in BOOLEAN  BY Zenon DEF Slot
  <2>3. app_fifo'[a] = Clock(app_fifo[a], QueueDepth, word, rd)  BY Zenon DEF QMClock
  <2> HIDE DEF word, rd
  <2>4. IsFifo(Clock(app_fifo[a], QueueDepth, word, rd), Desc, QueueDepth, 2)
    BY <1>1, <2>1, <2>2, ClockType
  <2> QED  BY Zenon, <2>3, <2>4 DEF OutputStages
<1>3. DOMAIN app_fifo' = App  BY Zenon DEF QMClock
<1>4. fifo_counter' \in [App -> 0..1023]
  <2> DEFINE cnt(a) == fifo_counter[a]
                + (IF Stored(in, a) /\ TReady(app_fifo[a], QueueDepth) THEN 1 ELSE 0)
                - (IF out_app_fifo_valid(a) /\ req = <<a>> THEN 1 ELSE 0)
  <2>1. \A a \in App : cnt(a) \in Int
    <3> TAKE a \in App
    <3>1. fifo_counter[a] \in Int  BY <1>0
    <3> QED  BY <3>1
  <2>2. fifo_counter' = [a \in App |-> cnt(a) % 1024]  BY Zenon DEF QMClock
  <2> HIDE DEF cnt
  <2> DEFINE v(a) == cnt(a) % 1024
  <2>3. \A a \in App : v(a) \in 0..1023
    BY <2>1, TenBits DEF v
  <2>4. fifo_counter' = [a \in App |-> v(a)]  BY <2>2
  <2> HIDE DEF v
  <2> QED  BY <2>3, <2>4
<1>5. if_handler_oustand' \in [App -> BOOLEAN]
  BY DEF QMClock, OutstandNext, QMTypeOK, Granted
<1>6. grant' \in Slot(Desc)
  <2>1. CASE grant' = <<>>  BY Zenon, <2>1 DEF Slot
  <2>2. ASSUME NEW a \in App, pifo_enqueue_arb_valid(a),
               grant' = <<[app |-> a, prio |-> TData(app_fifo[a]).prio]>>
        PROVE  grant' \in Slot(Desc)
    <3>1. IsFifo(app_fifo[a], Desc, QueueDepth, 2)  BY DEF QMTypeOK, OutputStages
    <3>2. TValid(app_fifo[a])  BY Zenon, <2>2 DEF pifo_enqueue_arb_valid, out_app_fifo_valid
    <3>3. TData(app_fifo[a]) \in Desc  BY Zenon, <3>1, <3>2, HeadTwo
    <3>4. TData(app_fifo[a]).prio \in Prio  BY Zenon, <3>3 DEF Desc
    <3>5. [app |-> a, prio |-> TData(app_fifo[a]).prio] \in Desc  BY Zenon, <3>4 DEF Desc
    <3> QED  BY Zenon, <2>2, <3>5 DEF Slot
  <2> QED  BY Zenon, <2>1, <2>2 DEF QMClock, Arbitrate
<1> QED  BY <1>2, <1>3, <1>4, <1>5, <1>6 DEF QMTypeOK

(* The queue manager's edge keeps every counter exact and within bounds. *)
LEMMA QMClockOccupancy ==
  ASSUME SetsCount, QMTypeOK, OccupancyIsExact, NEW in \in Slot(Desc), NEW req \in Slot(App),
         QMClock(in, req)
  PROVE  OccupancyIsExact'
<1> SUFFICES ASSUME NEW a \in App
             PROVE  /\ fifo_counter'[a] = Occupancy(app_fifo'[a])
                    /\ QueueSize[a] > 0 => fifo_counter'[a] <= QueueSize[a] - 1
  BY Zenon DEF OccupancyIsExact
<1>0. fifo_counter[a] \in Nat
  <2>1. fifo_counter \in [App -> 0..1023]  BY Zenon DEF QMTypeOK
  <2> QED  BY <2>1
<1> DEFINE f    == app_fifo[a]
           word == IF Stored(in, a) THEN in ELSE <<>>
           rd   == req = <<a>>
           g    == Clock(f, QueueDepth, word, rd)
           w    == IF Stored(in, a) /\ TReady(app_fifo[a], QueueDepth) THEN 1 ELSE 0
           r    == IF out_app_fifo_valid(a) /\ req = <<a>> THEN 1 ELSE 0
           c    == fifo_counter[a]
<1>1. QueueDepth \in 1..1021 /\ QueueDepth \in Nat /\ QueueSize[a] \in Nat
  BY QueueManagerAssumption
<1>2. IsFifo(f, Desc, QueueDepth, 2) /\ word \in Slot(Desc) /\ rd \in BOOLEAN
  BY DEF QMTypeOK, OutputStages, Slot
<1>3. app_fifo'[a] = g /\ fifo_counter'[a] = (c + w - r) % 1024
  BY Zenon DEF QMClock
<1>4. c \in Nat /\ c = Occupancy(f) /\ (QueueSize[a] > 0 => c <= QueueSize[a] - 1)
  <2>2. c \in Nat  BY <1>0, Zenon
  <2>3. c = Occupancy(f) /\ (QueueSize[a] > 0 => c <= QueueSize[a] - 1)
    BY Zenon DEF OccupancyIsExact
  <2> QED  BY <2>2, <2>3, Zenon
<1>5. Written(f, QueueDepth, word) = w
  <2>1. Stored(in, a) => Len(word) = 1  BY Zenon, SlotIsSeq DEF Stored
  <2>2. ~Stored(in, a) => Len(word) = 0  BY Zenon
  <2> QED  BY ZenonT(30), <2>1, <2>2 DEF Written
<1>6. Read(f, rd) = r  BY DEF Read, out_app_fifo_valid
<1>7. w \in 0..1 /\ r \in 0..1 /\ (w = 1 => ~if_free(a))  BY DEF Stored
<1> HIDE DEF word, rd, f, w, r
<1>8. Occupancy(g) = Occupancy(f) + Written(f, QueueDepth, word) - Read(f, rd)
  BY <1>1, <1>2, ClockTwo
<1>9. IsFifo(g, Desc, QueueDepth, 2)  BY <1>1, <1>2, ClockType
<1>10. Occupancy(g) \in 0..(QueueDepth + 2)  BY <1>1, <1>9, OccupancyTwoBound
<1> HIDE DEF g
<1> DEFINE n == c + w - r
<1>11. Occupancy(g) = n  BY Zenon, <1>4, <1>5, <1>6, <1>8
<1>12. w = 1 => (QueueSize[a] > 0 => c < QueueSize[a] - 1)
  BY <1>1, <1>4, <1>7 DEF if_free
<1> DEFINE qs == QueueSize[a]
<1>13. qs > 0 => n <= qs - 1
  <2>1. qs \in Nat /\ (w = 1 => (qs > 0 => c < qs - 1)) /\ c \in Nat /\ (qs > 0 => c <= qs - 1)
    BY <1>1, <1>4, <1>12
  <2> HIDE DEF qs, c
  <2> QED  BY <1>7, <2>1
<1> HIDE DEF n
<1>14. n \in 0..1023
  <2>1. n \in 0..(QueueDepth + 2)  BY <1>10, <1>11
  <2>2. QueueDepth \in 1..1021  BY <1>1
  <2> QED  BY <2>1, <2>2
<1>15. n % 1024 = n  BY <1>14
<1> QED  BY <1>3, <1>11, <1>13, <1>15 DEF n

-----------------------------------------------------------------------------
(* The applications in the PIFO's list or on its output. *)
Members == Apps(pf) \cup SlotApps(ovld_0)

(***************************************************************************)
(* The inductive invariant.  if_pifo_enqueued is membership in the PIFO; a *)
(* handler that waits has its application there; and a popped application  *)
(* meets a ready dispatcher, so that its handler's flag is cleared at the  *)
(* edge at which the application may leave the PIFO.                       *)
(***************************************************************************)
SchedInv ==
  /\ QMTypeOK
  /\ WarpTypeOK
  /\ DispInv
  /\ s_packet_desc \in Slot(Desc)
  /\ ListInv
  /\ \A a \in App : if_pifo_enqueued[a] <=> a \in Members
  /\ pifo_counter_reg = Len(pf) + Len(ovld_0)
  /\ \A a \in App : if_handler_oustand[a] => if_pifo_enqueued[a]
  /\ PoppedIsRequested
  /\ OccupancyIsExact

(* Insertions have the type of the elements. *)
LEMMA PushTypes ==
  ASSUME SchedInv
  PROVE  /\ push_1(grant) \in Slot(Desc) /\ push_2 \in Slot(Desc)
         /\ grant \in Slot(Desc) /\ ovld_0 \in Slot(Desc)
         /\ \A ready \in BOOLEAN : pop_0(ready) \in BOOLEAN
         /\ s_packet_desc_ready \in BOOLEAN
<1>1. grant \in Slot(Desc) /\ ovld_0 \in Slot(Desc) /\ <<>> \in Slot(Desc)
  BY Zenon DEF SchedInv, QMTypeOK, ListInv, Slot
<1> QED  BY Zenon, <1>1 DEF push_1, push_2, pop_0, s_packet_desc_ready, TReady

(* A list with distinct applications is no longer than their number. *)
LEMMA ListBound ==
  ASSUME SetsCount, NEW s \in Seq(Desc), Distinct(s), IsFiniteSet(App)
  PROVE  Len(s) <= Cardinality(App)
<1> DEFINE f == [k \in 1..Len(s) |-> s[k].app]
<1>1. Len(s) \in Nat /\ DOMAIN s = 1..Len(s)  BY Zenon, ListLen
<1>2. \A k \in 1..Len(s) : s[k].app \in App
  <2> TAKE k \in 1..Len(s)
  <2>1. s[k] \in Desc  BY Zenon, ListLen
  <2> QED  BY Zenon, <2>1 DEF Desc
<1>3. f \in [1..Len(s) -> App]  BY <1>2
<1>4. \A j, k \in 1..Len(s) : f[j] = f[k] => j = k  BY <1>1 DEF Distinct
<1>5. Cardinality(1..Len(s)) = Len(s) /\ IsFiniteSet(1..Len(s))
  <2>1. /\ Cardinality(1..Len(s)) = IF 1 > Len(s) THEN 0 ELSE Len(s)-1+1
        /\ IsFiniteSet(1..Len(s))
    <3>1. 1 \in Int /\ Len(s) \in Int  BY <1>1
    <3> QED  BY Zenon, <3>1, CountInterval
  <2> QED  BY <1>1, <2>1
<1> HIDE DEF f
<1>6. Cardinality(1..Len(s)) <= Cardinality(App)
  <2>1. f \in Injection(1..Len(s), App)  BY <1>3, <1>4 DEF Injection, IsInjective
  <2> QED  BY Zenon, <2>1, CountInjection
<1> QED  BY Zenon, <1>5, <1>6

(* pifo_warp drives the PIFO as its list view requires. *)
LEMMA WarpDiscipline ==
  ASSUME SchedInv, NEW ready \in BOOLEAN
  PROVE  Discipline(pop_0(ready), push_1(grant), push_2)
<1>1. pop_0(ready) => ovld_0 = <<>>  BY DEF pop_0
<1>2. push_2 \in {<<>>, ovld_0}  BY DEF push_2
<1>3. ASSUME push_1(grant) # <<>>
      PROVE  /\ \A i \in DOMAIN pf : pf[i].app # push_1(grant)[1].app
             /\ ovld_0 # <<>> => ovld_0[1].app # push_1(grant)[1].app
  <2>1. push_1(grant) = grant /\ grant # <<>> /\ ~if_pifo_enqueued[grant[1].app]
    BY <1>3 DEF push_1
  <2>2. grant[1].app \in App
    <3>1. grant[1] \in Desc  BY <2>1, PushTypes, SlotAppsOf
    <3> QED  BY <3>1 DEF Desc
  <2>3. grant[1].app \notin Members  BY Zenon, <2>1, <2>2 DEF SchedInv
  <2>4. ovld_0 # <<>> => SlotApps(ovld_0) = {ovld_0[1].app}  BY Zenon, PushTypes, SlotAppsOf
  <2> QED  BY <2>1, <2>3, <2>4 DEF Members, Apps
<1> QED  BY Zenon, <1>1, <1>2, <1>3 DEF Discipline

(* pifo_warp's edge keeps if_pifo_enqueued and pifo_counter_reg exact. *)
LEMMA WarpStep ==
  ASSUME SetsCount, LeastExists, SchedInv, NEW empty, NEW ready \in BOOLEAN, NEW mask,
         WarpClock(grant, empty, ready, mask)
  PROVE  /\ WarpTypeOK' /\ ListInv'
         /\ \A a \in App : if_pifo_enqueued'[a] <=> a \in Members'
         /\ pifo_counter_reg' = Len(pf') + Len(ovld_0')
         /\ ovld_0' # <<>> => pop_0(ready)
<1> DEFINE p1 == push_1(grant)
           p2 == push_2
           pop == pop_0(ready)
<1>1. /\ p1 \in Slot(Desc) /\ p2 \in Slot(Desc) /\ ovld_0 \in Slot(Desc)
      /\ pop \in BOOLEAN /\ ListInv /\ Discipline(pop, p1, p2)
      /\ ListClock(pop, p1, p2, mask)
  BY Zenon, PushTypes, WarpDiscipline DEF WarpClock, SchedInv
<1>2. /\ p1 # <<>> => p1 = grant
      /\ p2 # <<>> => p2 = ovld_0
  BY Zenon DEF push_1, push_2
<1>3. \A a \in App : if_pifo_enqueued'[a] <=>
        \/ p1 # <<>> /\ grant[1].app = a
        \/ p2 # <<>> /\ p2[1].app = a
        \/ if_pifo_enqueued[a] /\ ~(ovld_0 # <<>> /\ ovld_0[1].app = a)
  BY DEF WarpClock
<1>4. pifo_counter_reg' = (pifo_counter_reg + Len(p1) + Len(p2) - Len(ovld_0)) % 32
  BY Zenon DEF WarpClock
<1>5. if_empty' \in [App -> BOOLEAN] /\ if_pifo_enqueued' \in [App -> BOOLEAN]
  BY DEF WarpClock, SchedInv, WarpTypeOK
<1> HIDE DEF p1, p2, pop
<1>6. /\ ListInv'
      /\ Apps(pf') \cup SlotApps(ovld_0') = Apps(pf) \cup SlotApps(p1) \cup SlotApps(p2)
      /\ Len(pf') + Len(ovld_0') = Len(pf) + Len(p1) + Len(p2)
      /\ push_lo' \in Slot(App)
      /\ ovld_0' # <<>> => pop
  BY Zenon, <1>1, ListStep
<1>7. \A x \in Slot(Desc) :
        /\ x = <<>> => SlotApps(x) = {} /\ Len(x) = 0
        /\ x # <<>> => SlotApps(x) = {x[1].app} /\ Len(x) = 1
  BY Zenon, SlotAppsOf
<1>8. \A a \in App : if_pifo_enqueued'[a] <=> a \in Members'
  <2> SUFFICES ASSUME NEW a \in App
               PROVE  if_pifo_enqueued'[a] <=> a \in Members'
    OBVIOUS
  <2>1. if_pifo_enqueued[a] <=> a \in Apps(pf) \/ a \in SlotApps(ovld_0)
    BY Zenon DEF SchedInv, Members
  <2>2. ovld_0 # <<>> => SlotApps(ovld_0) = {ovld_0[1].app} /\ ovld_0[1].app \notin Apps(pf)
    BY Zenon, <1>1, <1>7 DEF ListInv
  <2>3. ovld_0 = <<>> => SlotApps(ovld_0) = {}  BY Zenon, <1>1, <1>7
  <2>4. (p1 # <<>> /\ grant[1].app = a) <=> a \in SlotApps(p1)  BY <1>1, <1>2, <1>7
  <2>5. (p2 # <<>> /\ p2[1].app = a) <=> a \in SlotApps(p2)  BY <1>1, <1>7
  <2>6. (if_pifo_enqueued[a] /\ ~(ovld_0 # <<>> /\ ovld_0[1].app = a)) <=> a \in Apps(pf)
    BY Zenon, <2>1, <2>2, <2>3
  <2>7. a \in Members' <=> a \in Apps(pf) \/ a \in SlotApps(p1) \/ a \in SlotApps(p2)
    BY Zenon, <1>6 DEF Members
  <2> QED  BY Zenon, <1>3, <2>4, <2>5, <2>6, <2>7
<1>9. pifo_counter_reg' = Len(pf') + Len(ovld_0') /\ pifo_counter_reg' \in 0..31
  <2> DEFINE n == Len(pf')
             v == Len(ovld_0')
             k == Len(p1)
             l == Len(p2)
             o == Len(ovld_0)
             m == Len(pf)
  <2>1. pf' \in Seq(Desc) /\ Distinct(pf') /\ ovld_0' \in Slot(Desc)  BY Zenon, <1>6 DEF ListInv
  <2>2. n <= Cardinality(App) /\ n \in Nat  BY Zenon, <2>1, PifoWarpAssumption, ListBound, ListLen
  <2>3. v \in 0..1 /\ k \in 0..1 /\ l \in 0..1 /\ o \in 0..1  BY <1>1, <1>7, <2>1
  <2>4. m \in Nat  BY Zenon, <1>1, ListLen DEF ListInv
  <2>5. pifo_counter_reg = m + o  BY Zenon DEF SchedInv
  <2>6. n + v = m + k + l  BY Zenon, <1>6
  <2>7. pifo_counter_reg' = (pifo_counter_reg + k + l - o) % 32  BY Zenon, <1>4
  <2>8. Cardinality(App) <= 8 /\ Cardinality(App) \in Nat
    BY Zenon, PifoWarpAssumption, CountType
  <2> HIDE DEF n, v, k, l, o, m
  <2> DEFINE t == pifo_counter_reg + k + l - o
  <2>9. t = n + v  BY <2>2, <2>3, <2>4, <2>5, <2>6
  <2>10. n + v \in 0..31  BY <2>2, <2>3, <2>8
  <2>11. pifo_counter_reg' = t % 32  BY <2>7
  <2> HIDE DEF t
  <2>12. t % 32 = t  BY <2>9, <2>10
  <2>13. pifo_counter_reg' = n + v  BY Zenon, <2>9, <2>11, <2>12
  <2> QED  BY Zenon, <2>10, <2>13 DEF n, v
<1>10. WarpTypeOK'  BY Zenon, <1>5, <1>6, <1>9 DEF WarpTypeOK, ListInv
<1> QED  BY Zenon, <1>6, <1>8, <1>9, <1>10 DEF pop

(* The empty scheduler satisfies the invariant. *)
LEMMA SchedInitInv ==
  ASSUME SetsCount, Init
  PROVE  SchedInv
<1>1. /\ QMInit /\ WarpInit /\ DispInit /\ s_packet_desc = <<>> /\ <<>> \in Slot(Desc)
      /\ <<>> \in Slot(App)
  BY Zenon DEF Init, Slot
<1>2. DispInv  BY Zenon, <1>1, DispInitInv
<1>7. QMTypeOK /\ OccupancyIsExact  BY <1>1, QMInitInv
<1>8. WarpTypeOK  BY <1>1 DEF WarpInit, ListInit, WarpTypeOK
<1>9. ListInv  BY <1>1 DEF WarpInit, ListInit, ListInv, Distinct
<1>10. Members = {} /\ Len(pf) = 0 /\ Len(ovld_0) = 0
  BY <1>1 DEF WarpInit, ListInit, Members, Apps, SlotApps
<1>12. PoppedIsRequested  BY <1>1 DEF PoppedIsRequested, WarpInit, ListInit
<1>13. /\ \A a \in App : if_pifo_enqueued[a] = FALSE /\ if_handler_oustand[a] = FALSE
       /\ pifo_counter_reg = 0
  BY Zenon, <1>1 DEF WarpInit, QMInit
<1> QED  BY <1>1, <1>2, <1>7, <1>8, <1>9, <1>10, <1>12, <1>13 DEF SchedInv

(* Every clock edge preserves the invariant. *)
LEMMA SchedCycleInv ==
  ASSUME SetsCount, LeastExists, SchedInv, NEW mask \in SUBSET App, NEW m_ready \in BOOLEAN,
         NEW drop \in BOOLEAN, NEW next \in Slot(Desc),
         Cycle(mask, m_ready, drop, next)
  PROVE  SchedInv'
<1> DEFINE ready == s_packet_desc_ready
           req   == qm_packet_desc_req
           qd    == qm_packet_desc
<1>1. /\ QMClock(s_packet_desc, req)
      /\ WarpClock(grant, sche_pifo_empty, ready, mask)
      /\ DispClock(qd, drop, m_ready)
      /\ s_packet_desc' = next
  BY Zenon DEF Cycle
<1>2. /\ QMTypeOK /\ WarpTypeOK /\ DispInv /\ s_packet_desc \in Slot(Desc) /\ ListInv
      /\ PoppedIsRequested /\ OccupancyIsExact /\ ready \in BOOLEAN
      /\ ovld_0 \in Slot(Desc)
  BY Zenon, PushTypes DEF SchedInv
<1>3. ovld_0 # <<>> => ovld_0[1].app \in App /\ req = <<ovld_0[1].app>> /\ ready
  <2>1. ovld_0 # <<>> => ovld_0[1] \in Desc  BY Zenon, <1>2, SlotAppsOf
  <2> QED  BY Zenon, <1>2, <2>1 DEF Desc, PoppedIsRequested, qm_packet_desc_req
<1>4. ovld_0 = <<>> => req = <<>> /\ qd = <<>>
  BY Zenon DEF qm_packet_desc_req, qm_packet_desc
<1>5. req \in Slot(App)
  <2>1. CASE ovld_0 = <<>>  BY Zenon, <1>4, <2>1 DEF Slot
  <2>2. CASE ovld_0 # <<>>  BY Zenon, <1>3, <2>2 DEF Slot
  <2> QED  BY Zenon, <2>1, <2>2
<1>6. qd \in Slot(Desc) /\ (qd # <<>> => ready)
  <2>1. CASE qd = <<>>  BY Zenon, <2>1 DEF Slot
  <2>2. CASE qd # <<>>
    <3> DEFINE a == ovld_0[1].app
    <3>1. a \in App /\ TValid(app_fifo[a]) /\ qd = <<TData(app_fifo[a])>> /\ ready
      BY Zenon, <1>3, <1>4, <2>2 DEF qm_packet_desc, out_app_fifo_valid
    <3>2. IsFifo(app_fifo[a], Desc, QueueDepth, 2)  BY Zenon, <1>2, <3>1 DEF QMTypeOK, OutputStages
    <3> HIDE DEF a
    <3>3. TData(app_fifo[a]) \in Desc  BY Zenon, <3>1, <3>2, HeadTwo
    <3> QED  BY Zenon, <3>1, <3>3 DEF Slot
  <2> QED  BY Zenon, <2>1, <2>2
<1> HIDE DEF req, qd
<1>7. QMTypeOK'  BY Zenon, <1>1, <1>2, <1>5, QMClockType
<1>8. OccupancyIsExact'  BY Zenon, <1>1, <1>2, <1>5, QMClockOccupancy
<1>9. /\ WarpTypeOK' /\ ListInv'
      /\ \A a \in App : if_pifo_enqueued'[a] <=> a \in Members'
      /\ pifo_counter_reg' = Len(pf') + Len(ovld_0')
      /\ ovld_0' # <<>> => pop_0(ready)
  BY Zenon, <1>1, <1>2, WarpStep
<1>10. DispInv'  BY Zenon, <1>1, <1>2, <1>6, DispClockInv
<1>11. PoppedIsRequested'
  <2> SUFFICES ASSUME ovld_0' # <<>> PROVE s_packet_desc_ready'
    BY Zenon DEF PoppedIsRequested
  <2>1. ready /\ ovld_0 = <<>>  BY Zenon, <1>9 DEF pop_0
  <2>2. DispClock(<<>>, drop, m_ready)  BY <1>1, <1>4, <2>1
  <2> QED  BY Zenon, <1>2, <2>1, <2>2, DispStaysReady
<1>12. \A a \in App : if_handler_oustand'[a] => if_pifo_enqueued'[a]
  <2> SUFFICES ASSUME NEW a \in App, if_handler_oustand'[a] PROVE if_pifo_enqueued'[a]
    BY Zenon
  <2>1. req # <<a>> /\ (if_handler_oustand[a] \/ Granted(a))
    BY ZenonT(30), <1>1 DEF QMClock, OutstandNext
  <2>2. ~(ovld_0 # <<>> /\ ovld_0[1].app = a)  BY Zenon, <1>3, <2>1
  <2>3. if_pifo_enqueued'[a] <=>
          \/ push_1(grant) # <<>> /\ grant[1].app = a
          \/ push_2 # <<>> /\ push_2[1].app = a
          \/ if_pifo_enqueued[a] /\ ~(ovld_0 # <<>> /\ ovld_0[1].app = a)
    BY Zenon, <1>1 DEF WarpClock
  <2>4. CASE if_pifo_enqueued[a]  BY Zenon, <2>2, <2>3, <2>4
  <2>5. CASE ~if_pifo_enqueued[a]
    <3>1. Granted(a)  BY Zenon, <2>1, <2>5 DEF SchedInv
    <3>2. push_1(grant) # <<>> /\ grant[1].app = a  BY Zenon, <2>5, <3>1 DEF Granted, push_1
    <3> QED  BY Zenon, <2>3, <3>2
  <2> QED  BY Zenon, <2>4, <2>5
<1> QED  BY Zenon, <1>1, <1>7, <1>8, <1>9, <1>10, <1>11, <1>12 DEF SchedInv

(* And so does a step that leaves the scheduler alone. *)
LEMMA SchedStep ==
  ASSUME SetsCount, LeastExists, SchedInv, [Next]_vars
  PROVE  SchedInv'
<1>1. CASE Next
  <2>1. PICK mask \in SUBSET App, m_ready \in BOOLEAN, drop \in BOOLEAN,
             next \in Slot(Desc) : Cycle(mask, m_ready, drop, next)
    BY <1>1 DEF Next
  <2> QED  BY <2>1, SchedCycleInv
<1>2. CASE UNCHANGED vars
  <2>1. UNCHANGED qmVars /\ UNCHANGED warpVars /\ UNCHANGED dispVars /\ UNCHANGED s_packet_desc
    BY Zenon, <1>2 DEF vars
  <2>2. /\ UNCHANGED <<app_fifo, fifo_counter, if_handler_oustand, grant>>
        /\ UNCHANGED <<pf, push_lo, ovld_0, if_empty, if_pifo_enqueued, pifo_counter_reg>>
        /\ UNCHANGED <<in_find_min_fifo, tree, out_fifo, out_fifo_counter>>
    BY Zenon, <2>1 DEF qmVars, warpVars, listVars, dispVars
  <2>3. QMTypeOK' /\ OccupancyIsExact'
    BY Zenon, <2>1, QMUnchanged DEF SchedInv
  <2>4. WarpTypeOK' /\ ListInv' /\ Members' = Members
    BY Zenon, <2>2 DEF SchedInv, WarpTypeOK, ListInv, Members
  <2>5. DispInv'
    BY Zenon, <2>2 DEF SchedInv, DispInv, DispTypeOK
  <2>6. PoppedIsRequested'
    BY Zenon, <2>2 DEF SchedInv, PoppedIsRequested, s_packet_desc_ready
  <2> QED  BY Zenon, <2>1, <2>2, <2>3, <2>4, <2>5, <2>6 DEF SchedInv
<1> QED  BY Zenon, <1>1, <1>2

(* InPifo is membership. *)
LEMMA InPifoIsMember ==
  ASSUME SchedInv, NEW a \in App
  PROVE  InPifo(a) <=> a \in Members
<1>1. /\ ovld_0 = <<>> => SlotApps(ovld_0) = {}
      /\ ovld_0 # <<>> => SlotApps(ovld_0) = {ovld_0[1].app}
  BY Zenon, PushTypes, SlotAppsOf
<1> QED  BY Zenon, <1>1 DEF InPifo, Members, Apps

(* Under the invariant no application is forgotten. *)
LEMMA InvWakeup ==
  ASSUME SchedInv
  PROVE  NoLostWakeup
<1> SUFFICES ASSUME NEW a \in App, out_app_fifo_valid(a)
             PROVE  InPifo(a) \/ pifo_enqueue_arb_valid(a) \/ Granted(a)
  BY Zenon DEF NoLostWakeup
<1>1. if_handler_oustand[a] => a \in Members  BY Zenon DEF SchedInv
<1> QED  BY <1>1, InPifoIsMember DEF pifo_enqueue_arb_valid

(* Nor is one in the PIFO twice. *)
LEMMA InvPifoOnce ==
  ASSUME SchedInv
  PROVE  PifoHoldsEachAppOnce
<1>1. \A i, j \in DOMAIN pf : pf[i].app = pf[j].app => i = j
  BY Zenon DEF SchedInv, ListInv, Distinct
<1>2. \A i \in DOMAIN pf : /\ ovld_0 # <<pf[i]>>
                           /\ ovld_0 # <<>> => ovld_0[1].app # pf[i].app
  <2> SUFFICES ASSUME NEW i \in DOMAIN pf
               PROVE  /\ ovld_0 # <<pf[i]>>
                      /\ ovld_0 # <<>> => ovld_0[1].app # pf[i].app
    BY Zenon
  <2>1. ovld_0 # <<>> => ovld_0[1].app # pf[i].app
    BY Zenon DEF SchedInv, ListInv, Apps
  <2>2. <<pf[i]>> # <<>> /\ <<pf[i]>>[1] = pf[i]  BY Zenon
  <2> QED  BY <2>1, <2>2
<1>3. \A a \in App : if_pifo_enqueued[a] <=> InPifo(a)
  BY Zenon, InPifoIsMember DEF SchedInv
<1>4. pifo_counter_reg = Len(pf) + Len(ovld_0)  BY Zenon DEF SchedInv
<1> QED  BY <1>1, <1>2, <1>3, <1>4 DEF PifoHoldsEachAppOnce

(* A step of the scheduler is a step of the list view. *)
LEMMA InvUsedAsList ==
  ASSUME SchedInv, [Next]_vars
  PROVE  [ListNext]_listVars
<1>1. CASE Next
  <2> DEFINE ready == s_packet_desc_ready
             pop == pop_0(ready)
  <2>1. PICK mask \in SUBSET App, m_ready \in BOOLEAN, drop \in BOOLEAN,
             next \in Slot(Desc) :
          /\ pop \/ mask = {}
          /\ WarpClock(grant, sche_pifo_empty, ready, mask)
    BY Zenon, <1>1 DEF Next, Cycle
  <2>2. ListClock(pop, push_1(grant), push_2, mask)  BY Zenon, <2>1 DEF WarpClock
  <2>3. mask \in Masks(pop)  BY Zenon, <2>1 DEF Masks
  <2>4. ready \in BOOLEAN /\ pop \in BOOLEAN /\ push_1(grant) \in Slot(Desc) /\ push_2 \in Slot(Desc)
    BY Zenon, PushTypes
  <2>5. Discipline(pop, push_1(grant), push_2)  BY Zenon, <2>4, WarpDiscipline
  <2> HIDE DEF pop
  <2>6. ListNext  BY <2>2, <2>3, <2>4, <2>5 DEF ListNext
  <2> QED  BY Zenon, <2>6
<1>2. CASE UNCHANGED vars
  BY Zenon, <1>2 DEF vars, warpVars
<1> QED  BY Zenon, <1>1, <1>2

(***************************************************************************)
(* The theorems, where the library discharges what the lemmas assume.      *)
(***************************************************************************)
INSTANCE FiniteSetTheorems

(* Cardinalities. *)
LEMMA Counted == SetsCount
<1>1. /\ IsFiniteSet({}) /\ Cardinality({}) = 0
      /\ \A x : IsFiniteSet({x}) /\ Cardinality({x}) = 1
  BY Zenon, FS_EmptySet, FS_Singleton
<1>2. \A S : IsFiniteSet(S) => Cardinality(S) \in Nat /\ (Cardinality(S) = 0 => S = {})
  BY Zenon, FS_CardinalityType, FS_EmptySet
<1>3. \A S, x : IsFiniteSet(S) =>
        /\ IsFiniteSet(S \cup {x})
        /\ Cardinality(S \cup {x}) = IF x \in S THEN Cardinality(S) ELSE Cardinality(S) + 1
        /\ IsFiniteSet(S \ {x})
        /\ Cardinality(S \ {x}) = IF x \in S THEN Cardinality(S) - 1 ELSE Cardinality(S)
  BY Zenon, FS_AddElement, FS_RemoveElement
<1>4. \A a, b \in Int : IsFiniteSet(a..b)
                        /\ Cardinality(a..b) = IF a > b THEN 0 ELSE b - a + 1
  BY Zenon, FS_Interval
<1>5. \A S, T : IsFiniteSet(S) /\ T \in SUBSET S =>
        IsFiniteSet(T) /\ Cardinality(T) <= Cardinality(S)
  BY Zenon, FS_Subset
<1>6. \A S, T : IsFiniteSet(S) /\ ExistsBijection(S, T) => Cardinality(T) = Cardinality(S)
  BY Zenon, FS_Bijection
<1>7. \A S, T, f : IsFiniteSet(T) /\ f \in Injection(S, T) => Cardinality(S) <= Cardinality(T)
  BY Zenon, FS_Injection
<1> QED  BY Zenon, <1>1, <1>2, <1>3, <1>4, <1>5, <1>6, <1>7 DEF SetsCount

(* A set of naturals has a least element. *)
LEMMA NatMin == LeastExists
<1> SUFFICES ASSUME NEW T \in SUBSET Nat, T # {}
             PROVE  \E x \in T : \A y \in T : x <= y
  BY Zenon DEF LeastExists
<1>1. IsWellFoundedOn(OpToRel(<,Nat), Nat)
  BY Zenon, NatLessThanWellFounded
<1>2. PICK x \in T : \A y \in T : ~(<<y, x>> \in OpToRel(<,Nat))
  BY Zenon, <1>1, WFMin
<1>3. \A y \in T : ~(y < x)
  BY ZenonT(30), <1>2 DEF OpToRel
<1> QED  BY <1>3

(* The invariant is inductive, and so holds in every reachable state. *)
THEOREM DispInvariance == DispSpec => []DispInv
<1>1. DispInit => DispInv
  BY Zenon, Counted, DispInitInv
<1>2. DispInv /\ [DispNext]_dispVars => DispInv'
  BY Zenon, Counted, DispStep
<1> QED  BY <1>1, <1>2, PTL DEF DispSpec

(* desc_dispatch's registers and FIFOs stay within their widths and depths. *)
THEOREM DispTypeCorrect == DispSpec => []DispTypeOK
<1>1. DispInv => DispTypeOK  BY Zenon DEF DispInv
<1> QED  BY DispInvariance, <1>1, PTL

(* out_fifo_counter is exactly the number of descriptors inside            *)
(* desc_dispatch and never exceeds the credits: no coincidence of an       *)
(* acceptance, a departure and a drop makes it leak or underflow.          *)
THEOREM CreditCorrect == DispSpec => []CreditIsOccupancy
<1>1. DispInv => CreditIsOccupancy  BY Zenon DEF DispInv, CreditIsOccupancy
<1> QED  BY DispInvariance, <1>1, PTL

(* A result of the reduce tree finds its own descriptor at the head of     *)
(* in_find_min_fifo and room in out_fifo, for both policies and any        *)
(* pattern of requests and of the receive engine's ready.                  *)
THEOREM ResultCorrect == DispSpec => []ResultMeetsItsDescriptor
<1>1. DispInv => ResultMeetsItsDescriptor
  BY Zenon, Counted, DispResult DEF ResultMeetsItsDescriptor
<1> QED  BY DispInvariance, <1>1, PTL

(* The invariant holds in every reachable state. *)
THEOREM SchedInvariance == Spec => []SchedInv
<1>1. Init => SchedInv
  BY Zenon, Counted, SchedInitInv
<1>2. SchedInv /\ [Next]_vars => SchedInv'
  BY Zenon, Counted, NatMin, SchedStep
<1> QED  BY <1>1, <1>2, PTL DEF Spec

(* The registers of the three components keep their types. *)
THEOREM TypeCorrect == Spec => []TypeOK
<1>1. SchedInv => TypeOK
  BY Zenon DEF SchedInv, DispInv, TypeOK
<1> QED  BY <1>1, SchedInvariance, PTL

(* No application with a descriptor to give is ever forgotten: it is in    *)
(* the PIFO, or its handler is asking for it to be inserted.               *)
THEOREM WakeupCorrect == Spec => []NoLostWakeup
<1>1. SchedInv => NoLostWakeup
  BY Zenon, InvWakeup
<1> QED  BY <1>1, SchedInvariance, PTL

(* pifo_warp never inserts an application twice, and its flags and counter *)
(* are exact.                                                              *)
THEOREM PifoOnceCorrect == Spec => []PifoHoldsEachAppOnce
<1>1. SchedInv => PifoHoldsEachAppOnce
  BY Zenon, InvPifoOnce
<1> QED  BY <1>1, SchedInvariance, PTL

(* Whatever the dispatcher does in the clock between, a popped application *)
(* is asked for its descriptor.                                            *)
THEOREM RequestCorrect == Spec => []PoppedIsRequested
<1>1. SchedInv => PoppedIsRequested  BY Zenon DEF SchedInv
<1> QED  BY <1>1, SchedInvariance, PTL

(* The counter that decides on drops is the queue's occupancy, and stays   *)
(* below the configured size.                                              *)
THEOREM OccupancyCorrect == Spec => []OccupancyIsExact
<1>1. SchedInv => OccupancyIsExact  BY Zenon DEF SchedInv
<1> QED  BY <1>1, SchedInvariance, PTL

(* Every edge of the scheduler is an edge of the list view that Discipline *)
(* allows, so PifoArray's refinement applies to the PIFO as it is used.    *)
THEOREM UsedAsListCorrect == Spec => PifoUsedAsList
<1>1. Init => ListInit  BY Zenon DEF Init, WarpInit
<1>2. SchedInv /\ [Next]_vars => [ListNext]_listVars
  BY Zenon, InvUsedAsList
<1> QED  BY <1>1, <1>2, SchedInvariance, PTL DEF Spec, PifoUsedAsList, ListSpec

(* The dispatcher's promises hold in the scheduler, whatever the queue     *)
(* manager and the PIFO offer it: a result of the reduce tree always meets *)
(* its own descriptor, and out_fifo has room for it.                       *)
THEOREM ResultInScheduler == Spec => []ResultMeetsItsDescriptor
<1>1. SchedInv => ResultMeetsItsDescriptor
  BY Zenon, Counted, DispResult DEF SchedInv, ResultMeetsItsDescriptor
<1> QED  BY <1>1, SchedInvariance, PTL

(* And the credit counter is what in_find_min_fifo and out_fifo hold.      *)
THEOREM CreditInScheduler == Spec => []CreditIsOccupancy
<1>1. SchedInv => CreditIsOccupancy
  BY Zenon DEF SchedInv, DispInv, CreditIsOccupancy
<1> QED  BY <1>1, SchedInvariance, PTL
=============================================================================
