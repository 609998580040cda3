---------------------------- MODULE MqnicProofs -----------------------------
(***************************************************************************)
(* No completion is forgotten by the driver of mqnic.py, for any number of *)
(* rings of any size, as long as the event ring has room for four events   *)
(* for each index.                                                         *)
(***************************************************************************)
EXTENDS MqnicHandlerProofs

(* Leaves may take longer than the default limit among so many facts. *)
USE SMTT(30)

(***************************************************************************)
(* The NIC gives a completion or an event.                                 *)
(***************************************************************************)
(* A queue gets an entry and is disarmed. *)
Filled(f, k, q, v) == [f EXCEPT ![k][q].head = v, ![k][q].armed = FALSE]

LEMMA FilledQueue ==
  ASSUME NEW f, Grid(f, Kinds), NEW k \in Kinds, NEW q \in Queues, IsQueue(f[k][q]), NEW v,
         NEW g, g = Filled(f, k, q, v)
  PROVE  /\ Only(g, f, Kinds, k, q) /\ IsQueue(g[k][q])
         /\ g[k][q].head = v /\ ~g[k][q].armed
         /\ g[k][q].tail = f[k][q].tail /\ g[k][q].active = f[k][q].active
<1> DEFINE y == [f[k][q] EXCEPT !.head = v]
           m == Update(f, k, q, y)
           z == [m[k][q] EXCEPT !.armed = FALSE]
<1>1. g = Update(m, k, q, z)
  BY Zenon DEF Filled, Update
<1>2. IsQueue(y) /\ y.head = v /\ y.tail = f[k][q].tail /\ y.active = f[k][q].active
  BY DEF IsQueue
<1> HIDE DEF y
<1>3. Only(m, f, Kinds, k, q) /\ m[k][q] = y
  BY OnlyUpdate
<1> HIDE DEF m
<1>4. /\ IsQueue(z) /\ z.head = v /\ z.armed = FALSE /\ z.tail = f[k][q].tail
      /\ z.active = f[k][q].active
  <2>1. z = [y EXCEPT !.armed = FALSE]
    BY <1>3
  <2>2. /\ IsQueue(z) /\ z.head = y.head /\ z.armed = FALSE /\ z.tail = y.tail
        /\ z.active = y.active
    <3> HIDE DEF z
    <3> QED  BY Zenon, <1>2, <2>1 DEF IsQueue
  <2> QED  BY Zenon, <1>2, <2>2
<1> HIDE DEF z
<1>5. Only(g, m, Kinds, k, q) /\ g[k][q] = z
  <2>1. Grid(m, Kinds)
    BY <1>3 DEF Only
  <2> QED  BY <1>1, <2>1, OnlyUpdate
<1>6. Only(g, f, Kinds, k, q)
  BY <1>3, <1>5 DEF Only
<1> QED  BY Zenon, <1>4, <1>5, <1>6

(* NicComplete. *)
LEMMA CompleteStep ==
  ASSUME Shape, EqInv, CqInv, NEW k \in {"rx", "tx"}, NEW q \in Queues, NicComplete(k, q)
  PROVE  Shape' /\ EqInv' /\ CqInv'
<1> DEFINE kk == CqOf(k)
           n == nic[kk][q]
           c == <<kk, q>>
           ok == n.active /\ CqUsed(kk, q) < Size
<1>1. /\ ring' = ring /\ msi' = msi /\ handler' = handler /\ opener' = opener
      /\ inflight[k][q] # <<>>
      /\ inflight' = Update(inflight, k, q, Tail(inflight[k][q]))
  BY Zenon DEF NicComplete, Driver, Update
<1>2. c \in Cqs /\ Opened(c) /\ kk \in {"rxcq", "txcq"} /\ kk \in Kinds /\ RingOf(kk) = k
  <2>1. c \in Cqs /\ Opened(c)
    BY <1>1, ActiveOpened
  <2> QED  BY <2>1 DEF CqOf, Kinds, RingOf
<1>3. Grid(nic, Kinds) /\ Grid(entries, Kinds) /\ Grid(ring, Kinds) /\ Grid(inflight, {"rx", "tx"})
      /\ IsQueue(n) /\ k \in Kinds
  BY <1>2 DEF Shape, Kinds
<1>4. Only(inflight', inflight, {"rx", "tx"}, k, q)
  BY <1>1, <1>3, OnlyUpdate
<1>5. IsHandler(handler') /\ SameEvent
  BY <1>1 DEF SameEvent, Shape
<1>6. CASE ~ok
  <2>1. nic' = nic /\ entries' = entries /\ evq' = evq
    BY Zenon, <1>6 DEF NicComplete
  <2>2. /\ Only(nic', nic, Kinds, k, q) /\ Only(ring', ring, Kinds, k, q)
        /\ Only(entries', entries, Kinds, k, q)
    BY Zenon, <1>1, <1>3, <2>1, OnlySame
  <2>3. IsQueue(nic'[k][q])
    BY Zenon, <1>3, <2>1 DEF Shape
  <2> HIDE DEF kk
  <2> QED  BY Zenon, <1>1, <1>2, <1>4, <1>5, <2>1, <2>2, <2>3, RingStep DEF Ticks, kk
<1>7. CASE ok
  <2> DEFINE v == Ptr(n.head + 1)
             w == [entries[kk][q] EXCEPT ![Slot(n.head)] = Head(inflight[k][q])]
  <2>1. /\ nic' = Filled(nic, kk, q, v) /\ entries' = Update(entries, kk, q, w)
        /\ evq' = IF n.armed THEN Append(evq, c) ELSE evq
    BY Zenon, <1>7 DEF NicComplete, Filled, Update
  <2> HIDE DEF v, w, ok
  <2>2. /\ Only(nic', nic, Kinds, kk, q) /\ IsQueue(nic'[kk][q]) /\ ~nic'[kk][q].armed
    <3>1. IsQueue(nic[kk][q])
      BY <1>3
    <3>2. kk \in Kinds /\ Grid(nic, Kinds)
      BY Zenon, <1>2, <1>3
    <3>3. nic' = Filled(nic, kk, q, v)
      BY Zenon, <2>1
    <3> HIDE DEF kk
    <3> QED  BY <3>1, <3>2, <3>3, FilledQueue
  <2>3. Only(entries', entries, Kinds, kk, q)
    <3> HIDE DEF kk
    <3> QED  BY Zenon, <1>2, <1>3, <2>1, OnlyUpdate
  <2>4. evq' \in Seq(Cqs)
    BY <1>2, <2>1 DEF Shape
  <2>5. /\ Shape'
        /\ nic'["eq"][0] = nic["eq"][0] /\ entries'["eq"][0] = entries["eq"][0]
        /\ \A d \in Cqs : /\ d # c => nic'[d[1]][d[2]] = nic[d[1]][d[2]]
                          /\ nic'[RingOf(d[1])][d[2]] = nic[RingOf(d[1])][d[2]]
    <3>1. opener' \in Nat \ {0} /\ Grid(inflight', {"rx", "tx"})
      BY Zenon, <1>1, <1>4 DEF Shape, Only
    <3> HIDE DEF kk
    <3> QED  BY Zenon, <1>1, <1>2, <1>5, <2>2, <2>3, <2>4, <3>1, CqOnly
  <2>6. PICK S : S = Served
    OBVIOUS
  <2>7. PICK R : R = Raised
    OBVIOUS
  <2>8. S \in Nat /\ R \in Nat /\ S <= R
    <3>1. /\ Served \in Nat /\ Raised \in Nat /\ EqHead \in Nat /\ Written \in Nat
          /\ Served <= EqHead /\ EqHead <= Written /\ Written <= Raised
      BY Zenon, Bounds
    <3> HIDE DEF Served, Raised, EqHead, Written
    <3> QED  BY <2>6, <2>7, <3>1
  <2>9. /\ EqTail' = EqTail /\ EqHead' = EqHead /\ EqUsed' = EqUsed /\ Written' = Written
        /\ \A i \in 0..(R - 1) : Event(i)' = Event(i)
        /\ ~n.armed => Raised' = R
        /\ n.armed => Raised' = R + 1 /\ Event(R)' = c
    <3>1. ring'["eq"][0] = ring["eq"][0]
      BY Zenon, <1>1
    <3>2. CASE ~n.armed
      <4>1. SameEventRing
        BY Zenon, <2>1, <2>5, <3>1, <3>2 DEF SameEventRing
      <4> QED  BY Zenon, <2>7, <3>2, <4>1, SameEvents
    <3>3. CASE n.armed
      <4>1. evq' = Append(evq, c)
        BY Zenon, <2>1, <3>3
      <4> HIDE DEF c
      <4>2. /\ EqTail' = EqTail /\ EqHead' = EqHead /\ EqUsed' = EqUsed /\ Written' = Written
            /\ Raised' = R + 1 /\ Event(R)' = c
            /\ \A i \in 0..(R - 1) : Event(i)' = Event(i)
        BY Zenon, <1>2, <2>5, <2>7, <3>1, <4>1, EventAppended
      <4> QED  BY Zenon, <3>3, <4>2
    <3> QED  BY Zenon, <3>2, <3>3
  <2>10. Served' = S
    BY Zenon, <1>1, <2>6, <2>9 DEF Served
  <2>11. CqInv'
    <3> DEFINE here == \E i \in S..(R - 1) : Event(i) = c
    <3>1. c[1] = kk /\ c[2] = q
      OBVIOUS
    <3>2. (n.armed => ~here) /\ (~n.armed => here)
      <4>1. Pending(c) <=> here
        BY Zenon, <2>6, <2>7 DEF Pending
      <4>2. here => ~n.armed
        <5> SUFFICES ASSUME here PROVE ~n.armed
          BY Zenon
        <5>1. PICK i \in Served..(Raised - 1) : Event(i) = c
          BY Zenon, <2>6, <2>7
        <5> HIDE DEF Served, Raised, Event, c
        <5>2. ~nic[c[1]][c[2]].armed
          BY Zenon, <5>1 DEF CqInv
        <5> QED  BY Zenon, <3>1, <5>2
      <4>3. n.armed \/ Pending(c)
        <5> HIDE DEF c, Pending, Opened
        <5> QED  BY Zenon, <1>2, <3>1 DEF CqInv
      <4> HIDE DEF here, n
      <4> QED  BY <4>1, <4>2, <4>3
    <3>3. \A i \in S..(R - 1) : Event(i)' = Event(i)
      <4> HIDE DEF Event
      <4> QED  BY <2>8, <2>9
    <3>4. \A d \in Cqs : ~Opened(d) =>
              /\ ring'[d[1]][d[2]] = ring[d[1]][d[2]]
              /\ inflight'[RingOf(d[1])][d[2]] = inflight[RingOf(d[1])][d[2]]
              /\ nic'[RingOf(d[1])][d[2]].active = nic[RingOf(d[1])][d[2]].active
      <4> SUFFICES ASSUME NEW d \in Cqs, ~Opened(d)
                   PROVE  inflight'[RingOf(d[1])][d[2]] = inflight[RingOf(d[1])][d[2]]
        BY Zenon, <1>1, <2>5
      <4>1. /\ d[1] \in {"rxcq", "txcq"} /\ d[2] \in Queues /\ d = <<d[1], d[2]>>
            /\ RingOf(d[1]) \in {"rx", "tx"}
        BY CqParts
      <4>2. d # c
        BY <1>2
      <4>3. RingOf(d[1]) # k \/ d[2] # q
        BY <4>1, <4>2 DEF RingOf, CqOf
      <4> QED  BY <1>4, <4>1, <4>3 DEF Only
    <3>5. ~nic'[c[1]][c[2]].armed
      BY <2>2, <3>1
    <3>6. here <=> \E i \in Served'..(R - 1) : Event(i) = c
      BY <2>10
    <3>7. here \in BOOLEAN
      OBVIOUS
    <3>8. (~here \/ Raised' = R) /\ (here \/ Raised' = R + 1)
      <4> HIDE DEF here, n, Raised
      <4> QED  BY <2>9, <3>2
    <3>9. Raised' = R \/ (Raised' = R + 1 /\ Event(R)' = c)
      BY Zenon, <2>9
    <3>10. opener' = opener /\ \A d \in Cqs : d # c => nic'[d[1]][d[2]] = nic[d[1]][d[2]]
      BY Zenon, <1>1, <2>5
    <3> HIDE DEF c, kk, n, here, Served, Raised, Event, Opened
    <3>11. c \in Cqs /\ Opened(c) /\ S \in Nat /\ R \in Nat /\ S = Served /\ R = Raised /\ S <= R
           /\ Served' = S
      BY <1>2, <2>6, <2>7, <2>8, <2>10
    <3>12. Touch(c, S, R, here)
      BY Zenon, <3>3, <3>4, <3>5, <3>6, <3>7, <3>8, <3>9, <3>10, <3>11 DEF Touch
    <3> QED  BY Zenon, <3>12, CqTouch
  <2>12. handler.pc \in AtCq => Event(Served)' = <<handler'.kind, handler'.q>>
    <3> SUFFICES ASSUME handler.pc \in AtCq PROVE Event(Served)' = <<handler'.kind, handler'.q>>
      OBVIOUS
    <3>1. Served \in Served..(Raised - 1) /\ Event(Served) = <<handler.kind, handler.q>>
      BY Zenon, AtEvent
    <3>2. S \in 0..(R - 1) /\ Event(S) = <<handler.kind, handler.q>>
      BY <2>6, <2>7, <2>8, <3>1
    <3>3. Event(S)' = Event(S)
      BY Zenon, <2>9, <3>2
    <3>4. Event(Served)' = Event(S)'
      BY <2>10
    <3> HIDE DEF Event
    <3> QED  BY Zenon, <1>1, <3>2, <3>3, <3>4
  <2>13. Served' = Served
    BY <2>6, <2>10
  <2> HIDE DEF EqTail, EqHead, EqUsed, Written, Raised, Served, Event, AtCq
  <2>14. EqInv'
    BY Zenon, <1>1, <2>5, <2>9, <2>12, <2>13 DEF EqInv
  <2> QED  BY Zenon, <2>5, <2>11, <2>14
<1> QED  BY Zenon, <1>6, <1>7

(* NicEvent: there is always room for the event, as at most 2 * NQ events  *)
(* are raised and not served and at most 2 * NQ served but still in the    *)
(* event queue.                                                            *)
LEMMA EventStep ==
  ASSUME Shape, EqInv, CqInv, Raised - Served <= 2 * NQ, NicEvent
  PROVE  Shape' /\ EqInv' /\ CqInv'
<1> DEFINE n == nic["eq"][0]
           v == (n.head + 1) % EqMod
           e == entries["eq"][0]
           w == [e EXCEPT ![n.head % EqSize] = Head(evq)]
<1>1. PICK L : L = Len(evq)
  BY Zenon
<1>2. PICK M : M = Written
  OBVIOUS
<1>3. PICK T : T = EqTail
  OBVIOUS
<1>4. PICK S : S = Served
  OBVIOUS
<1>5. PICK R : R = Raised
  OBVIOUS
<1>6. /\ evq \in Seq(Cqs) /\ evq # <<>> /\ L \in Nat \ {0}
      /\ Head(evq) = evq[1] /\ evq[1] \in Cqs
      /\ Tail(evq) \in Seq(Cqs) /\ Len(Tail(evq)) = L - 1
      /\ \A j \in 1..(L - 1) : Tail(evq)[j] = evq[j + 1]
  <2>1. evq \in Seq(Cqs) /\ evq # <<>>
    BY Zenon DEF Shape, NicEvent
  <2> QED  BY <1>1, <2>1
<1>7. /\ T \in Nat /\ M \in Nat /\ S \in Nat /\ R \in Nat /\ EqHead \in Nat /\ EqUsed = M - T
      /\ T <= S /\ S <= EqHead /\ EqHead <= M /\ R = M + L /\ EqHead - T <= 2 * NQ
      /\ R - S <= 2 * NQ
  <2>1. /\ EqTail \in Nat /\ EqHead \in Nat /\ EqUsed \in Nat /\ Written \in Nat
        /\ Served \in Nat /\ Raised \in Nat
        /\ EqTail <= Served /\ Served <= EqHead /\ EqHead <= Written
        /\ Written = EqTail + EqUsed /\ Raised = Written + Len(evq)
    BY Bounds
  <2>2. EqHead - EqTail <= 2 * NQ
    BY DEF EqInv
  <2> HIDE DEF EqTail, EqHead, EqUsed, Written, Raised, Served
  <2> QED  BY <1>1, <1>2, <1>3, <1>4, <1>5, <2>1, <2>2
<1>8. EqUsed + 1 <= EqSize /\ EqUsed \in Nat /\ EqUsed + 1 < EqMod
  <2> HIDE DEF EqUsed, EqHead
  <2> QED  BY <1>6, <1>7, Zero
<1>9. /\ \A i \in S..(R - 1) : Event(i) \in Cqs /\ Opened(Event(i))
      /\ opener > 2 /\ n.active
  <2>1. \A i \in S..(R - 1) : Event(i) \in Cqs /\ Opened(Event(i))
    BY Zenon, <1>4, <1>5 DEF CqInv
  <2>2. M \in S..(R - 1)
    <3> HIDE DEF EqUsed, EqHead
    <3> QED  BY <1>6, <1>7
  <2>3. Event(M) \in Cqs /\ opener > ArmPos(Event(M))
    BY <2>1, <2>2 DEF Opened
  <2>4. ArmPos(Event(M)) \in Nat /\ ArmPos(Event(M)) > 3
    <3> HIDE DEF Event
    <3>1. Event(M)[2] \in Nat /\ NQ \in Nat
      BY <2>3, CqParts, Zero
    <3> QED  BY <3>1 DEF ArmPos
  <2>5. opener > 2
    <3> HIDE DEF ArmPos, Event
    <3> QED  BY <2>3, <2>4 DEF Shape
  <2> QED  BY <2>1, <2>5 DEF EqInv, Shape
<1>10. /\ ring' = ring /\ handler' = handler /\ opener' = opener /\ inflight' = inflight
       /\ evq' = Tail(evq)
       /\ msi' = IF n.armed THEN msi + 1 ELSE msi
       /\ nic' = Filled(nic, "eq", 0, v) /\ entries' = Update(entries, "eq", 0, w)
  <2>1. EqUsed < EqSize
    <3> HIDE DEF EqUsed
    <3> QED  BY <1>8, Zero
  <2> QED  BY Zenon, <1>9, <2>1 DEF NicEvent, Driver, Filled, Update
<1>11. /\ Grid(nic, Kinds) /\ Grid(ring, Kinds) /\ Grid(entries, Kinds) /\ IsQueue(nic["eq"][0])
       /\ 0 \in Queues /\ "eq" \in Kinds /\ IsRing(ring["eq"][0])
       /\ e = [i \in 0..(EqSize - 1) |-> e[i]]
       /\ msi \in Nat /\ opener \in Nat /\ IsHandler(handler)
  BY Zenon, Zero DEF Shape
<1>12. /\ n.head = M % EqMod /\ n.tail = T % EqMod
       /\ n.head % EqSize = M % EqSize /\ v = (M + 1) % EqMod
       /\ M % EqSize \in 0..(EqSize - 1)
  <2>1. n.head = M % EqMod /\ n.tail = T % EqMod
    BY Zenon, <1>2, <1>3 DEF EqInv
  <2>2. M \in Int /\ EqMod \in Nat \ {0} /\ EqSize \in Nat \ {0} /\ 0 \in Int /\ 1 \in Int
    BY <1>7, Zero
  <2>3. ((M % EqMod) + 0) % EqSize = (M + 0) % EqSize
    BY <2>2, SlotOfPointer, Zenon
  <2>4. M % EqMod \in Int
    BY <2>2
  <2>5. (M % EqMod) % EqSize = M % EqSize
    BY <2>2, <2>3, <2>4
  <2>6. ((M % EqMod) + 1) % EqMod = (M + 1) % EqMod
    BY <2>2, ModOfMod, Zenon
  <2>7. M % EqSize \in 0..(EqSize - 1)
    BY <2>2
  <2> QED  BY Zenon, <2>1, <2>5, <2>6, <2>7
<1> HIDE DEF v
<1>13. /\ Only(nic', nic, Kinds, "eq", 0) /\ IsQueue(nic'["eq"][0]) /\ nic'["eq"][0].head = v
       /\ ~nic'["eq"][0].armed /\ nic'["eq"][0].tail = n.tail /\ nic'["eq"][0].active = n.active
  <2>1. nic' = Filled(nic, "eq", 0, v)
    BY Zenon, <1>10
  <2> QED  BY <1>11, <2>1, FilledQueue
<1>14. /\ w = [i \in 0..(EqSize - 1) |-> w[i]]
       /\ \A i \in 0..(EqSize - 1) : w[i] = IF i = M % EqSize THEN evq[1] ELSE e[i]
  <2> DEFINE m == M % EqSize
             a == evq[1]
  <2>1. w = [e EXCEPT ![m] = a] /\ m \in 0..(EqSize - 1)
    BY Zenon, <1>6, <1>12
  <2> HIDE DEF w, e, m, a
  <2>2. /\ w = [i \in 0..(EqSize - 1) |-> w[i]]
        /\ \A i \in 0..(EqSize - 1) : w[i] = IF i = m THEN a ELSE e[i]
    BY Zenon, <1>11, <2>1
  <2> QED  BY Zenon, <2>2 DEF m, a
<1> HIDE DEF w
<1>15. Only(entries', entries, Kinds, "eq", 0) /\ entries'["eq"][0] = w
  BY <1>10, <1>11, OnlyUpdate
<1>16. Only(ring', ring, Kinds, "eq", 0)
  BY Zenon, <1>10, <1>11, OnlySame
<1>17. Shape' /\ Calm
  <2>1. msi' \in Nat
    BY <1>10, <1>11
  <2>2. Ticks /\ IsHandler(handler') /\ IsRing(ring'["eq"][0]) /\ evq' \in Seq(Cqs)
    BY Zenon, <1>6, <1>10, <1>11 DEF Ticks
  <2> QED  BY Zenon, <1>10, <1>13, <1>14, <1>15, <1>16, <2>1, <2>2, EqOnly
<1>18. EqTail' = T /\ EqHead' = EqHead
  BY Zenon, <1>3, <1>10 DEF EqTail, EqHead
<1>19. EqUsed' = (M + 1) - T
  <2>1. EqUsed' = (((M + 1) % EqMod) - (T % EqMod)) % EqMod
    BY Zenon, <1>12, <1>13 DEF EqUsed
  <2>2. M + 1 \in Int /\ T \in Int /\ EqMod \in Nat \ {0} /\ (M + 1) - T \in 0..(EqMod - 1)
    <3> HIDE DEF EqUsed, EqHead
    <3> QED  BY <1>7, <1>8, Zero
  <2>3. (((M + 1) % EqMod) - (T % EqMod)) % EqMod = (M + 1) - T
    BY Zenon, <2>2, ModDistance
  <2> QED  BY <2>1, <2>3
<1>20. Written' = M + 1 /\ Raised' = R
  <2>1. Written' = T + ((M + 1) - T)
    BY <1>18, <1>19 DEF Written
  <2>2. T + ((M + 1) - T) = M + 1 /\ (M + 1) + (L - 1) = R
    <3> HIDE DEF EqUsed, EqHead
    <3> QED  BY <1>6, <1>7
  <2>3. Written' = M + 1
    BY <2>1, <2>2
  <2>4. Raised' = (M + 1) + (L - 1)
    BY Zenon, <1>6, <1>10, <2>3 DEF Raised
  <2> QED  BY <2>2, <2>3, <2>4
<1>21. ASSUME NEW i \in S..(R - 1)
       PROVE  Event(i)' = Event(i)
  <2>1. /\ Event(i) = IF i < M THEN e[i % EqSize] ELSE evq[i - M + 1]
        /\ Event(i)' = IF i < M + 1 THEN w[i % EqSize] ELSE Tail(evq)[i - (M + 1) + 1]
    BY Zenon, <1>2, <1>10, <1>15, <1>20 DEF Event
  <2>2. i \in Nat /\ i \in Int
    BY <1>7
  <2>3. CASE i < M
    <3>1. M - i \in 1..(EqSize - 1) /\ EqSize \in Nat \ {0}
      <4> HIDE DEF EqUsed, EqHead
      <4> QED  BY <1>7, <1>8, <2>2, <2>3, Zero
    <3>2. M % EqSize # i % EqSize
      <4>1. M \in Int
        BY <1>7
      <4> QED  BY <2>2, <3>1, <4>1, ModDistinct, Zenon
    <3>3. i % EqSize \in 0..(EqSize - 1)
      BY <2>2, <3>1
    <3>4. w[i % EqSize] = e[i % EqSize]
      BY Zenon, <1>14, <3>2, <3>3
    <3>5. i < M + 1
      BY <1>7, <2>2, <2>3
    <3> QED  BY Zenon, <2>1, <2>3, <3>4, <3>5
  <2>4. CASE i = M
    <3>1. i < M + 1 /\ ~(i < M) /\ i - M + 1 = 1
      BY <1>7, <2>4
    <3>2. w[M % EqSize] = evq[1]
      BY <1>12, <1>14
    <3> QED  BY <2>1, <2>4, <3>1, <3>2
  <2>5. CASE i > M
    <3>1. /\ ~(i < M + 1) /\ ~(i < M) /\ i - (M + 1) + 1 \in 1..(L - 1)
          /\ i - (M + 1) + 1 + 1 = i - M + 1
      <4> HIDE DEF EqUsed, EqHead
      <4> QED  BY <1>6, <1>7, <2>2, <2>5
    <3>2. Tail(evq)[i - (M + 1) + 1] = evq[i - M + 1]
      BY <1>6, <3>1
    <3> QED  BY Zenon, <2>1, <3>1, <3>2
  <2> QED  BY <1>7, <2>2, <2>3, <2>4, <2>5
<1>22. Served' = S
  BY Zenon, <1>3, <1>4, <1>10, <1>18 DEF Served
<1>23. CqInv'
  BY Zenon, <1>4, <1>5, <1>17, <1>20, <1>21, <1>22, CqCalm
<1>24. handler.pc \in AtCq => Event(Served)' = <<handler.kind, handler.q>>
  <2> SUFFICES ASSUME handler.pc \in AtCq PROVE Event(Served)' = <<handler.kind, handler.q>>
    BY Zenon
  <2>1. Served \in Served..(Raised - 1) /\ Event(Served) = <<handler.kind, handler.q>>
    BY Zenon, AtEvent
  <2>2. S \in S..(R - 1) /\ Event(S) = <<handler.kind, handler.q>>
    BY Zenon, <1>4, <1>5, <2>1
  <2>3. Event(S)' = Event(S)
    BY Zenon, <1>21, <2>2
  <2>4. Event(Served)' = Event(S)'
    BY Zenon, <1>22
  <2> HIDE DEF Event
  <2> QED  BY Zenon, <2>2, <2>3, <2>4
<1>25. n.armed \/ msi > 0 \/ handler.pc # "idle"
  BY Zenon, <1>9 DEF EqInv
<1>26. /\ handler.pc \in AtCq => S < EqHead
       /\ handler.pc = "eq_tail" => S = EqHead
  BY Zenon, <1>4 DEF EqInv
<1> HIDE DEF EqTail, EqHead, EqUsed, Written, Raised, Served, Event, AtCq
<1>27. EqInv'
  <2>1. EqTail' \in Nat /\ EqHead' \in Nat /\ EqUsed' \in 0..EqSize
    BY <1>7, <1>8, <1>18, <1>19, Zero
  <2>2. nic'["eq"][0].tail = EqTail' % EqMod /\ nic'["eq"][0].head = Written' % EqMod
    BY Zenon, <1>12, <1>13, <1>18, <1>20
  <2>3. EqHead' \in EqTail'..Written' /\ EqHead' - EqTail' <= 2 * NQ /\ Served' \in EqTail'..EqHead'
    BY <1>7, <1>18, <1>20, <1>22, Zero
  <2>4. /\ handler'.pc \in AtCq => Served' < EqHead' /\ Event(Served)' = <<handler'.kind, handler'.q>>
        /\ handler'.pc = "eq_tail" => Served' = EqHead'
    BY Zenon, <1>10, <1>18, <1>22, <1>24, <1>26
  <2>5. ~nic'["eq"][0].armed /\ nic'["eq"][0].active
    BY Zenon, <1>9, <1>13
  <2>6. ~(opener' <= 2)
    BY <1>9, <1>10, <1>11
  <2>7. msi' > 0 \/ handler'.pc # "idle"
    BY <1>10, <1>11, <1>25
  <2> QED  BY Zenon, <2>1, <2>2, <2>3, <2>4, <2>5, <2>6, <2>7 DEF EqInv
<1> QED  BY <1>17, <1>23, <1>27

(***************************************************************************)
(* open.                                                                   *)
(***************************************************************************)
LEMMA ArmPosAt ==
  ASSUME NEW c \in Cqs
  PROVE  \E q \in 0..(NQ - 1) : \/ c = <<"rxcq", q>> /\ ArmPos(c) = 4 + 2 * q
                                \/ c = <<"txcq", q>> /\ ArmPos(c) = 4 + 3 * NQ + 2 * q
<1>1. c[1] \in {"rxcq", "txcq"} /\ c[2] \in 0..(NQ - 1) /\ c = <<c[1], c[2]>>
  BY CqParts, Zero
<1> QED  BY <1>1 DEF ArmPos

(* The positions at which open arms no completion queue. *)
LEMMA OpenTicks ==
  ASSUME Shape, opener' = opener + 1, NEW q \in Queues,
         opener \in {1, 2, 3 + 2 * q, 3 + 2 * NQ + q, 3 + 3 * NQ + 2 * q, 3 + 5 * NQ + q, 3 + 6 * NQ}
  PROVE  Ticks
<1>1. NQ \in Nat \ {0} /\ q \in 0..(NQ - 1)
  BY Zero
<1>2. ASSUME NEW c \in Cqs PROVE ArmPos(c) # opener
  <2>1. PICK p \in 0..(NQ - 1) : \/ c = <<"rxcq", p>> /\ ArmPos(c) = 4 + 2 * p
                                 \/ c = <<"txcq", p>> /\ ArmPos(c) = 4 + 3 * NQ + 2 * p
    BY ArmPosAt
  <2> HIDE DEF ArmPos, NQ
  <2>2. ArmPos(c) = 4 + 2 * p \/ ArmPos(c) = 4 + 3 * NQ + 2 * p
    BY Zenon, <2>1
  <2>3. CASE opener = 1 \/ opener = 2
    BY <1>1, <2>2, <2>3
  <2>4. CASE opener = 3 + 2 * q
    BY <1>1, <2>2, <2>4
  <2>5. CASE opener = 3 + 2 * NQ + q
    BY <1>1, <2>2, <2>5
  <2>6. CASE opener = 3 + 3 * NQ + 2 * q
    BY <1>1, <2>2, <2>6
  <2>7. CASE opener = 3 + 5 * NQ + q
    BY <1>1, <2>2, <2>7
  <2>8. CASE opener = 3 + 6 * NQ
    BY <1>1, <2>2, <2>8
  <2> QED  BY <2>3, <2>4, <2>5, <2>6, <2>7, <2>8
<1> QED  BY <1>2 DEF Ticks

(* An update that puts back what was there. *)
LEMMA SameUpdate ==
  ASSUME NEW K, NEW f, Grid(f, K), NEW k \in K, NEW q \in Queues, NEW g, g = Update(f, k, q, f[k][q])
  PROVE  g = f
<1>1. Grid(g, K) /\ \A i \in K, j \in Queues : g[i][j] = f[i][j]
  BY GridUpdate
<1>2. [i \in K |-> [j \in Queues |-> g[i][j]]] = [i \in K |-> [j \in Queues |-> f[i][j]]]
  BY <1>1
<1> QED  BY Zenon, <1>1, <1>2 DEF Grid

(* A queue with its pointers set, inactive or activated. *)
Unset(a, b) == [NicQueue EXCEPT !.head = a, !.tail = b]
Activation(a, b) == [Unset(a, b) EXCEPT !.active = TRUE]

LEMMA UnsetRecord ==
  ASSUME NEW a, NEW b
  PROVE  Unset(a, b) = [active |-> FALSE, armed |-> FALSE, head |-> a, tail |-> b]
<1> DEFINE o == 0
           x == Unset(a, b)
           z == [NicQueue EXCEPT !.head = a]
<1>1. NicQueue = [active |-> FALSE, armed |-> FALSE, head |-> o, tail |-> o]
  BY DEF NicQueue
<1>2. z = [NicQueue EXCEPT !.head = a]
  OBVIOUS
<1>3. x = [z EXCEPT !.tail = b]
  BY DEF Unset
<1> HIDE DEF o, x, z
<1>4. z = [active |-> FALSE, armed |-> FALSE, head |-> a, tail |-> o]
  BY Zenon, <1>1, <1>2
<1>5. x = [active |-> FALSE, armed |-> FALSE, head |-> a, tail |-> b]
  BY Zenon, <1>3, <1>4
<1> QED  BY <1>5 DEF x

LEMMA UnsetQueue ==
  ASSUME NEW a, NEW b, NEW x, x = Unset(a, b)
  PROVE  IsQueue(x) /\ ~x.active /\ ~x.armed /\ x.head = a /\ x.tail = b
BY Zenon, UnsetRecord DEF IsQueue

LEMMA Activated ==
  ASSUME NEW a, NEW b, NEW x, x = Activation(a, b)
  PROVE  IsQueue(x) /\ x.active /\ ~x.armed /\ x.head = a /\ x.tail = b
<1>1. x = [active |-> TRUE, armed |-> FALSE, head |-> a, tail |-> b]
  BY Zenon, UnsetRecord DEF Activation
<1> QED  BY <1>1 DEF IsQueue

(* The event queue is activated. *)
LEMMA OpenEq ==
  ASSUME Shape, EqInv, CqInv, opener = 1, opener' = 2, inflight' = inflight, handler' = handler,
         Activate("eq", 0)
  PROVE  Shape' /\ EqInv' /\ CqInv'
<1> DEFINE r == ring["eq"][0]
           x == EqActivate(r)
<1>1. /\ nic' = Update(nic, "eq", 0, x) /\ ring' = Update(ring, "eq", 0, r)
      /\ entries' = Update(entries, "eq", 0, entries["eq"][0])
      /\ evq' = evq /\ msi' = msi
  BY DEF Activate, With, Update
<1>2. /\ Grid(nic, Kinds) /\ Grid(ring, Kinds) /\ Grid(entries, Kinds)
      /\ 0 \in Queues /\ "eq" \in Kinds /\ IsRing(r) /\ IsHandler(handler)
  BY Zenon, Zero DEF Shape
<1>3. ring' = ring /\ entries' = entries
  BY <1>1, <1>2, SameUpdate
<1>4. /\ IsQueue(x) /\ x.active /\ ~x.armed /\ x.head = EqHead % EqMod /\ x.tail = EqTail % EqMod
  <2> DEFINE a == EqHead % EqMod
             b == EqTail % EqMod
  <2>1. x = Activation(a, b)
    BY DEF EqActivate, EqInit, Activation, Unset, EqHead, EqTail
  <2> HIDE DEF a, b, x
  <2>2. IsQueue(x) /\ x.active /\ ~x.armed /\ x.head = a /\ x.tail = b
    BY <2>1, Activated
  <2> QED  BY <2>2 DEF a, b
<1> HIDE DEF x
<1>5. Only(nic', nic, Kinds, "eq", 0) /\ nic'["eq"][0] = x
  BY <1>1, <1>2, OnlyUpdate
<1>6. Only(ring', ring, Kinds, "eq", 0) /\ Only(entries', entries, Kinds, "eq", 0)
  BY Zenon, <1>2, <1>3, OnlySame
<1>7. Ticks
  BY Zero, OpenTicks
<1>8. Shape' /\ Calm
  BY Zenon, <1>1, <1>2, <1>3, <1>4, <1>5, <1>6, <1>7, EqOnly DEF Shape
<1>9. EqUsed = 0 /\ msi = 0 /\ handler.pc = "idle"
  BY DEF EqInv
<1>10. EqHead = Written /\ EqTail = Written
  <2>1. /\ EqTail \in Nat /\ EqHead \in Nat /\ EqHead <= Written /\ EqTail <= EqHead
        /\ Written = EqTail + EqUsed
    BY Bounds
  <2>2. EqTail <= Served /\ Served <= EqHead
    BY Bounds
  <2> HIDE DEF EqTail, EqHead, EqUsed, Written
  <2> QED  BY <1>9, <2>1
<1>11. SameEventRing
  <2>1. nic["eq"][0].head = Written % EqMod /\ nic["eq"][0].tail = EqTail % EqMod
    BY Zenon DEF EqInv
  <2> QED  BY Zenon, <1>1, <1>3, <1>4, <1>5, <1>10, <2>1 DEF SameEventRing
<1>12. /\ EqTail' = EqTail /\ EqHead' = EqHead /\ EqUsed' = EqUsed
       /\ Written' = Written /\ Raised' = Raised /\ \A i : Event(i)' = Event(i)
  BY <1>11, SameEvents
<1>13. Served' = Served
  BY <1>12 DEF Served
<1>14. CqInv'
  BY <1>8, <1>12, <1>13, CqCalm
<1>15. handler.pc \notin AtCq /\ handler.pc # "eq_tail"
  BY <1>9 DEF AtCq
<1> HIDE DEF EqTail, EqHead, EqUsed, Written, Raised, Served, Event, AtCq
<1>16. EqInv'
  BY <1>1, <1>4, <1>5, <1>9, <1>10, <1>12, <1>13, <1>15 DEF EqInv
<1> QED  BY <1>8, <1>14, <1>16

(* It is armed. *)
LEMMA OpenEqArm ==
  ASSUME Shape, EqInv, CqInv, opener = 2, opener' = 3, inflight' = inflight, handler' = handler,
         ring' = ring, entries' = entries, Arm(nic, "eq", 0)
  PROVE  Shape' /\ EqInv' /\ CqInv'
<1> DEFINE n == nic["eq"][0]
           x == Armed(n)
<1>1. EqUsed = 0 /\ msi = 0 /\ handler.pc = "idle"
  BY DEF EqInv
<1>2. n.head = n.tail
  <2>1. EqTail \in Nat /\ Written = EqTail + EqUsed
    BY Zenon, Bounds
  <2>2. EqTail = Written
    <3> HIDE DEF EqTail, EqUsed, Written
    <3> QED  BY <1>1, <2>1
  <2> QED  BY Zenon, <2>2 DEF EqInv
<1>3. nic' = Update(nic, "eq", 0, x) /\ evq' = evq /\ msi' = msi
  BY Zenon, <1>2 DEF Arm, EventOnArm, Update
<1>4. /\ Grid(nic, Kinds) /\ Grid(ring, Kinds) /\ Grid(entries, Kinds) /\ IsQueue(n)
      /\ 0 \in Queues /\ "eq" \in Kinds /\ IsRing(ring["eq"][0]) /\ IsHandler(handler)
  BY Zenon, Zero DEF Shape
<1>5. IsQueue(x) /\ x.head = n.head /\ x.tail = n.tail /\ x.armed /\ x.active = n.active
  <2>1. /\ IsQueue(x) /\ x.head = n.head /\ x.tail = n.tail /\ x.armed = (n.head = n.tail)
        /\ x.active = n.active
    BY <1>4 DEF IsQueue, Armed
  <2> QED  BY Zenon, <1>2, <2>1
<1> HIDE DEF x
<1>6. Only(nic', nic, Kinds, "eq", 0) /\ nic'["eq"][0] = x
  BY <1>3, <1>4, OnlyUpdate
<1>7. Only(ring', ring, Kinds, "eq", 0) /\ Only(entries', entries, Kinds, "eq", 0)
  BY Zenon, <1>4, OnlySame
<1>8. Ticks
  BY Zero, OpenTicks
<1>9. Shape' /\ Calm
  BY Zenon, <1>3, <1>4, <1>5, <1>6, <1>7, <1>8, EqOnly DEF Shape
<1>10. SameEventRing
  BY Zenon, <1>3, <1>5, <1>6 DEF SameEventRing
<1>11. /\ EqTail' = EqTail /\ EqHead' = EqHead /\ EqUsed' = EqUsed
       /\ Written' = Written /\ Raised' = Raised /\ \A i : Event(i)' = Event(i)
  BY <1>10, SameEvents
<1>12. Served' = Served
  BY <1>11 DEF Served
<1>13. CqInv'
  BY <1>9, <1>11, <1>12, CqCalm
<1>14. handler.pc \notin AtCq /\ handler.pc # "eq_tail" /\ n.active
  BY <1>1 DEF AtCq, EqInv
<1> HIDE DEF EqTail, EqHead, EqUsed, Written, Raised, Served, Event, AtCq
<1>15. EqInv'
  BY Zenon, <1>1, <1>3, <1>5, <1>6, <1>11, <1>12, <1>14 DEF EqInv
<1> QED  BY <1>9, <1>13, <1>15

(* A completion queue is activated, with the pointers of its empty ring. *)
LEMMA OpenCq ==
  ASSUME Shape, EqInv, CqInv, NEW k \in {"rxcq", "txcq"}, NEW q \in Queues,
         opener = ArmPos(<<k, q>>) - 1, opener' = opener + 1,
         inflight' = inflight, handler' = handler, Activate(k, q)
  PROVE  Shape' /\ EqInv' /\ CqInv'
<1> DEFINE c == <<k, q>>
           r == ring[k][q]
           x == CqActivate(r)
<1>1. c \in Cqs /\ c[1] = k /\ c[2] = q /\ k \in Kinds
  BY DEF Cqs, Kinds
<1>2. /\ nic' = Update(nic, k, q, x) /\ ring' = Update(ring, k, q, r)
      /\ entries' = Update(entries, k, q, entries[k][q])
      /\ evq' = evq /\ msi' = msi
  <2>1. CASE k = "rxcq"
    BY <2>1 DEF Activate, With, Update
  <2>2. CASE k = "txcq"
    BY <2>2 DEF Activate, With, Update
  <2> QED  BY <2>1, <2>2
<1>3. /\ NQ \in Nat \ {0} /\ q \in 0..(NQ - 1) /\ opener \in Nat /\ opener > 2
      /\ opener \in {3 + 2 * q, 3 + 3 * NQ + 2 * q} /\ ArmPos(c) \in Nat
  <2>1. NQ \in Nat \ {0} /\ q \in 0..(NQ - 1)
    BY Zenon, Zero
  <2>2. ArmPos(c) = 4 + 2 * q \/ ArmPos(c) = 4 + 3 * NQ + 2 * q
    BY Zenon, <1>1 DEF ArmPos
  <2> HIDE DEF ArmPos, NQ
  <2> QED  BY <2>1, <2>2
<1>4. Ticks
  BY <1>3, OpenTicks
<1>5. ~Opened(c)
  <2> HIDE DEF ArmPos, c
  <2> QED  BY <1>3 DEF Opened, c
<1>6. /\ Grid(nic, Kinds) /\ Grid(ring, Kinds) /\ Grid(entries, Kinds) /\ Grid(inflight, {"rx", "tx"})
      /\ IsHandler(handler) /\ evq \in Seq(Cqs)
  BY Zenon DEF Shape
<1>7. ring' = ring /\ entries' = entries
  BY <1>1, <1>2, <1>6, SameUpdate
<1>8. IsQueue(x) /\ ~x.armed /\ x.head = x.tail
  <2>1. r.head = r.tail
    <3> HIDE DEF c, Opened
    <3>1. ring[c[1]][c[2]].head = ring[c[1]][c[2]].tail
      BY Zenon, <1>1, <1>5 DEF CqInv
    <3> QED  BY <1>1, <3>1
  <2> DEFINE a == Ptr(r.head)
             b == Ptr(r.tail)
  <2>2. x = Activation(a, b) /\ a = b
    BY <2>1 DEF CqActivate, CqInit, Activation, Unset
  <2> HIDE DEF a, b, x
  <2> QED  BY <2>2, Activated
<1> HIDE DEF x
<1>9. Only(nic', nic, Kinds, k, q) /\ nic'[k][q] = x
  BY <1>1, <1>2, <1>6, OnlyUpdate
<1>10. Only(entries', entries, Kinds, k, q)
  BY Zenon, <1>1, <1>6, <1>7, OnlySame
<1>11. opener' \in Nat \ {0} /\ Grid(inflight', {"rx", "tx"})
  BY <1>3, <1>6
<1>12. /\ Shape'
       /\ nic'["eq"][0] = nic["eq"][0] /\ entries'["eq"][0] = entries["eq"][0]
       /\ \A d \in Cqs : /\ d # c => nic'[d[1]][d[2]] = nic[d[1]][d[2]]
                         /\ nic'[RingOf(d[1])][d[2]] = nic[RingOf(d[1])][d[2]]
  BY Zenon, <1>2, <1>6, <1>7, <1>8, <1>9, <1>10, <1>11, CqOnly
<1>13. Calm
  <2>1. ~nic[c[1]][c[2]].armed /\ ~nic'[c[1]][c[2]].armed
    <3>1. ~nic[c[1]][c[2]].armed
      <4> HIDE DEF c, Opened
      <4> QED  BY Zenon, <1>1, <1>5 DEF CqInv
    <3> QED  BY Zenon, <1>1, <1>8, <1>9, <3>1
  <2>2. nic'[c[1]][c[2]].head = nic'[c[1]][c[2]].tail
    BY Zenon, <1>1, <1>8, <1>9
  <2>3. nic'[c[1]][c[2]].armed = nic[c[1]][c[2]].armed
    <3>1. IsQueue(nic[c[1]][c[2]]) /\ IsQueue(nic'[c[1]][c[2]])
      BY Zenon, <1>1, <1>8, <1>9 DEF Shape
    <3> HIDE DEF c
    <3>2. nic[c[1]][c[2]].armed \in BOOLEAN /\ nic'[c[1]][c[2]].armed \in BOOLEAN
      BY Zenon, <3>1 DEF IsQueue
    <3> QED  BY Zenon, <2>1, <3>2
  <2> HIDE DEF c
  <2>4. ASSUME NEW d \in Cqs
        PROVE  /\ nic'[d[1]][d[2]].armed = nic[d[1]][d[2]].armed
               /\ \/ /\ nic'[d[1]][d[2]].head = nic[d[1]][d[2]].head
                     /\ nic'[d[1]][d[2]].tail = nic[d[1]][d[2]].tail
                  \/ nic'[d[1]][d[2]].head = nic'[d[1]][d[2]].tail
               /\ nic'[RingOf(d[1])][d[2]].active = nic[RingOf(d[1])][d[2]].active
    <3>1. CASE d = c
      BY Zenon, <1>12, <2>2, <2>3, <3>1
    <3>2. CASE d # c
      BY Zenon, <1>12, <3>2
    <3> QED  BY Zenon, <3>1, <3>2
  <2> QED  BY Zenon, <1>4, <1>7, <2>4 DEF Calm
<1>14. SameEventRing /\ SameEvent
  BY Zenon, <1>2, <1>7, <1>12 DEF SameEventRing, SameEvent
<1>15. EqInv' /\ CqInv'
  BY Zenon, <1>2, <1>3, <1>12, <1>13, <1>14, Quiet
<1> QED  BY Zenon, <1>12, <1>15

(* A transmit or receive ring is activated, after its completion queue. *)
LEMMA OpenRing ==
  ASSUME Shape, EqInv, CqInv, NEW k \in {"rx", "tx"}, NEW q \in Queues,
         opener = IF k = "rx" THEN 3 + 2 * NQ + q ELSE 3 + 5 * NQ + q, opener' = opener + 1,
         inflight' = inflight, handler' = handler, Activate(k, q)
  PROVE  Shape' /\ EqInv' /\ CqInv'
<1>1. /\ NQ \in Nat \ {0} /\ q \in 0..(NQ - 1) /\ opener \in Nat /\ opener > 2
      /\ opener \in {3 + 2 * NQ + q, 3 + 5 * NQ + q} /\ Opened(<<CqOf(k), q>>)
  <2>1. NQ \in Nat \ {0} /\ q \in 0..(NQ - 1)
    BY Zero
  <2>2. CASE k = "rx"
    <3>1. ArmPos(<<CqOf(k), q>>) = 4 + 2 * q /\ opener = 3 + 2 * NQ + q
      BY <2>2 DEF ArmPos, CqOf
    <3> HIDE DEF ArmPos, NQ
    <3> QED  BY <2>1, <3>1 DEF Opened
  <2>3. CASE k = "tx"
    <3>1. ArmPos(<<CqOf(k), q>>) = 4 + 3 * NQ + 2 * q /\ opener = 3 + 5 * NQ + q
      BY <2>3 DEF ArmPos, CqOf
    <3> HIDE DEF ArmPos, NQ
    <3> QED  BY <2>1, <3>1 DEF Opened
  <2> QED  BY <2>2, <2>3
<1>2. Ticks
  BY <1>1, OpenTicks
<1>3. PICK x, r, d : /\ nic' = Update(nic, k, q, x) /\ ring' = Update(ring, k, q, r)
                     /\ entries' = Update(entries, k, q, d)
                     /\ evq' = evq /\ msi' = msi
                     /\ x = RxActivate(r) \/ x = TxActivate(r)
  <2>1. CASE k = "rx"
    <3> DEFINE w == refill_buffers(With(ring[k][q], entries[k][q], Buffers))
    <3>1. /\ nic' = Update(nic, k, q, RxActivate(w.r)) /\ ring' = Update(ring, k, q, w.r)
          /\ entries' = Update(entries, k, q, w.d) /\ evq' = evq /\ msi' = msi
      BY Zenon, <2>1 DEF Activate, Update
    <3> HIDE DEF w
    <3> QED  BY Zenon, <3>1
  <2>2. CASE k = "tx"
    <3> DEFINE r0 == ring[k][q]
               d0 == entries[k][q]
    <3>1. /\ nic' = Update(nic, k, q, TxActivate(r0)) /\ ring' = Update(ring, k, q, r0)
          /\ entries' = Update(entries, k, q, d0) /\ evq' = evq /\ msi' = msi
      BY <2>2 DEF Activate, Update, With
    <3> HIDE DEF r0, d0
    <3> QED  BY <3>1
  <2> QED  BY <2>1, <2>2
<1>4. IsQueue(x)
  <2> DEFINE a == Ptr(r.head)
             b == Ptr(r.tail)
  <2>1. x = Activation(a, b)
    BY <1>3 DEF RxActivate, TxActivate, RxInit, TxInit, Activation, Unset
  <2> HIDE DEF a, b
  <2> QED  BY <2>1, Activated
<1>5. /\ Grid(nic, Kinds) /\ Grid(ring, Kinds) /\ Grid(entries, Kinds) /\ Grid(inflight, {"rx", "tx"})
      /\ IsHandler(handler) /\ k \in Kinds
  BY DEF Shape, Kinds
<1>6. /\ Only(nic', nic, Kinds, k, q) /\ nic'[k][q] = x
      /\ Only(ring', ring, Kinds, k, q) /\ Only(entries', entries, Kinds, k, q)
  BY <1>3, <1>5, OnlyUpdate
<1>7. Only(inflight', inflight, {"rx", "tx"}, k, q)
  BY Zenon, <1>5, OnlySame
<1>8. SameEvent /\ IsHandler(handler')
  BY <1>5 DEF SameEvent
<1>9. Opened(<<CqOf(k), q>>) /\ opener > 2 /\ Ticks /\ evq' = evq /\ msi' = msi
  BY Zenon, <1>1, <1>2, <1>3
<1>10. IsQueue(nic'[k][q])
  BY Zenon, <1>4, <1>6
<1> QED  BY Zenon, <1>6, <1>7, <1>8, <1>9, <1>10, RingStep

(* A completion queue is armed: it is empty, and gives no event. *)
LEMMA OpenCqArm ==
  ASSUME Shape, EqInv, CqInv, NEW k \in {"rxcq", "txcq"}, NEW q \in Queues,
         opener = ArmPos(<<k, q>>), opener' = opener + 1, ring' = ring, entries' = entries,
         inflight' = inflight, handler' = handler, Arm(nic, k, q)
  PROVE  Shape' /\ EqInv' /\ CqInv'
<1> DEFINE c == <<k, q>>
           n == nic[k][q]
           x == Armed(n)
<1>1. c \in Cqs /\ c[1] = k /\ c[2] = q /\ k \in Kinds /\ k # "eq"
  BY DEF Cqs, Kinds
<1>2. \A d \in Cqs : ArmPos(d) \in Nat /\ ArmPos(d) > 3 /\ (ArmPos(d) = ArmPos(c) => d = c)
  <2>1. NQ \in Nat
    BY Zero
  <2>2. PICK p \in 0..(NQ - 1) : \/ c = <<"rxcq", p>> /\ ArmPos(c) = 4 + 2 * p
                                 \/ c = <<"txcq", p>> /\ ArmPos(c) = 4 + 3 * NQ + 2 * p
    BY <1>1, ArmPosAt
  <2> TAKE d \in Cqs
  <2>3. PICK o \in 0..(NQ - 1) : \/ d = <<"rxcq", o>> /\ ArmPos(d) = 4 + 2 * o
                                 \/ d = <<"txcq", o>> /\ ArmPos(d) = 4 + 3 * NQ + 2 * o
    BY ArmPosAt
  <2> HIDE DEF ArmPos, NQ, c
  <2>4. ArmPos(d) \in Nat /\ ArmPos(d) > 3
    BY <2>1, <2>3
  <2>5. ASSUME ArmPos(d) = ArmPos(c) PROVE d = c
    <3>1. CASE c = <<"rxcq", p>> /\ ArmPos(c) = 4 + 2 * p
      <4>1. ArmPos(d) = 4 + 2 * o \/ ArmPos(d) = 4 + 3 * NQ + 2 * o
        BY <2>3
      <4>2. ArmPos(d) # 4 + 3 * NQ + 2 * o
        BY <2>1, <2>5, <3>1
      <4>3. d = <<"rxcq", o>> /\ o = p
        BY <2>1, <2>3, <2>5, <3>1, <4>2
      <4> QED  BY <3>1, <4>3
    <3>2. CASE c = <<"txcq", p>> /\ ArmPos(c) = 4 + 3 * NQ + 2 * p
      <4>1. ArmPos(d) # 4 + 2 * o
        BY <2>1, <2>5, <3>2
      <4>2. d = <<"txcq", o>> /\ o = p
        BY <2>1, <2>3, <2>5, <3>2, <4>1
      <4> QED  BY Zenon, <3>2, <4>2
    <3> QED  BY <2>2, <3>1, <3>2
  <2> QED  BY <2>4, <2>5
<1>3. opener \in Nat /\ opener > 3 /\ ~Opened(c)
  <2> HIDE DEF ArmPos
  <2> QED  BY <1>1, <1>2 DEF Opened
<1>4. \A d \in Cqs : (opener' > ArmPos(d)) <=> (Opened(d) \/ d = c)
  <2> TAKE d \in Cqs
  <2>1. CASE d = c
    <3> HIDE DEF ArmPos
    <3> QED  BY <1>2, <1>3, <2>1
  <2>2. CASE d # c
    <3>1. ArmPos(d) \in Nat /\ ArmPos(d) # opener
      BY Zenon, <1>2, <2>2
    <3> HIDE DEF ArmPos
    <3> QED  BY <1>3, <2>2, <3>1 DEF Opened
  <2> QED  BY Zenon, <2>1, <2>2
<1>5. ~Pending(c)
  <2> SUFFICES ASSUME Pending(c) PROVE FALSE
    OBVIOUS
  <2>1. PICK i \in Served..(Raised - 1) : Event(i) = c
    BY DEF Pending
  <2> HIDE DEF Served, Raised, Event, Opened, c
  <2>2. Opened(c)
    BY Zenon, <2>1 DEF CqInv
  <2> QED  BY Zenon, <1>3, <2>2
<1>6. n.head = n.tail
  <2>1. nic[c[1]][c[2]].head = nic[c[1]][c[2]].tail
    <3> HIDE DEF c, Pending
    <3> QED  BY Zenon, <1>1, <1>5 DEF CqInv
  <2> QED  BY Zenon, <1>1, <2>1
<1>7. nic' = Update(nic, k, q, x) /\ evq' = evq /\ msi' = msi
  BY Zenon, <1>1, <1>6 DEF Arm, EventOnArm, Update
<1>8. /\ Grid(nic, Kinds) /\ Grid(entries, Kinds) /\ Grid(inflight, {"rx", "tx"}) /\ IsQueue(n)
      /\ IsHandler(handler) /\ evq \in Seq(Cqs)
  BY Zenon, <1>1 DEF Shape
<1>9. IsQueue(x) /\ x.head = x.tail /\ x.armed
  <2>1. /\ IsQueue(x) /\ x.head = n.head /\ x.tail = n.tail /\ x.armed = (n.head = n.tail)
    BY <1>8 DEF IsQueue, Armed
  <2> QED  BY Zenon, <1>6, <2>1
<1> HIDE DEF x
<1>10. Only(nic', nic, Kinds, k, q) /\ nic'[k][q] = x
  BY <1>1, <1>7, <1>8, OnlyUpdate
<1>11. Only(entries', entries, Kinds, k, q)
  BY Zenon, <1>1, <1>8, OnlySame
<1>12. opener' \in Nat \ {0} /\ Grid(inflight', {"rx", "tx"})
  <2> HIDE DEF ArmPos
  <2> QED  BY <1>3, <1>8
<1>13. /\ Shape'
       /\ nic'["eq"][0] = nic["eq"][0] /\ entries'["eq"][0] = entries["eq"][0]
       /\ \A d \in Cqs : /\ d # c => nic'[d[1]][d[2]] = nic[d[1]][d[2]]
                         /\ nic'[RingOf(d[1])][d[2]] = nic[RingOf(d[1])][d[2]]
  BY Zenon, <1>7, <1>8, <1>9, <1>10, <1>11, <1>12, CqOnly
<1>14. SameEventRing
  BY Zenon, <1>7, <1>13 DEF SameEventRing
<1>15. /\ EqTail' = EqTail /\ EqHead' = EqHead /\ EqUsed' = EqUsed
       /\ Written' = Written /\ Raised' = Raised /\ \A i : Event(i)' = Event(i)
  BY <1>14, SameEvents
<1>16. Served' = Served
  BY Zenon, <1>15 DEF Served
<1>17. opener' > 2 /\ opener > 2 /\ ~(opener' <= 2) /\ opener > 1
  <2> HIDE DEF ArmPos
  <2> QED  BY <1>3
<1>18. Event(Served)' = Event(Served)
  BY <1>15, <1>16
<1>19. EqInv'
  <2> HIDE DEF EqTail, EqHead, EqUsed, Written, Raised, Served, Event, AtCq, ArmPos
  <2> QED  BY Zenon, <1>7, <1>13, <1>15, <1>16, <1>17, <1>18 DEF EqInv
<1>20. \A d : Pending(d)' <=> Pending(d)
  BY Zenon, <1>15, <1>16 DEF Pending
<1>21. \A d \in Cqs : Opened(d)' <=> (Opened(d) \/ d = c)
  BY Zenon, <1>4 DEF Opened, ArmPos
<1>22. nic'[c[1]][c[2]].armed /\ nic'[c[1]][c[2]].head = nic'[c[1]][c[2]].tail
  BY Zenon, <1>1, <1>9, <1>10
<1>23. ASSUME NEW i \in Served..(Raised - 1)
       PROVE  (/\ Event(i) \in Cqs /\ Opened(Event(i))
               /\ ~nic[Event(i)[1]][Event(i)[2]].armed)'
  <2>1. Event(i) \in Cqs /\ Opened(Event(i)) /\ ~nic[Event(i)[1]][Event(i)[2]].armed
    BY Zenon DEF CqInv
  <2>2. Event(i)' = Event(i)
    BY Zenon, <1>15
  <2>3. Event(i) # c
    BY Zenon, <1>3, <2>1
  <2>4. nic'[Event(i)[1]][Event(i)[2]] = nic[Event(i)[1]][Event(i)[2]]
    BY Zenon, <1>13, <2>1, <2>3
  <2>5. opener' > ArmPos(Event(i))
    <3> HIDE DEF Event, Opened, ArmPos
    <3> QED  BY Zenon, <1>4, <2>1
  <2>6. opener' > ArmPos(Event(i)')
    BY Zenon, <2>2, <2>5
  <2> QED  BY Zenon, <2>1, <2>2, <2>4, <2>6 DEF Opened, ArmPos
<1>24. ASSUME NEW d \in Cqs
       PROVE  /\ Opened(d)' => nic'[d[1]][d[2]].armed \/ Pending(d)'
              /\ nic'[d[1]][d[2]].head # nic'[d[1]][d[2]].tail => Pending(d)'
              /\ ~Opened(d)' =>
                   /\ ~nic'[d[1]][d[2]].armed
                   /\ ring'[d[1]][d[2]].head = ring'[d[1]][d[2]].tail
                   /\ inflight'[RingOf(d[1])][d[2]] = <<>>
                   /\ ~nic'[RingOf(d[1])][d[2]].active
  <2> HIDE DEF c, Opened, Pending
  <2>1. CASE d = c
    BY Zenon, <1>21, <1>22, <2>1
  <2>2. CASE d # c
    <3>1. nic'[d[1]][d[2]] = nic[d[1]][d[2]] /\ nic'[RingOf(d[1])][d[2]] = nic[RingOf(d[1])][d[2]]
      BY Zenon, <1>13, <2>2
    <3>2. (Opened(d)' <=> Opened(d)) /\ (Pending(d)' <=> Pending(d))
      BY <1>20, <1>21, <2>2
    <3> QED  BY Zenon, <3>1, <3>2 DEF CqInv
  <2> QED  BY Zenon, <2>1, <2>2
<1>25. \A i, j \in Served..(Raised - 1) : Event(i)' = Event(j)' => i = j
  <2>1. \A i : Event(i)' = Event(i)
    BY Zenon, <1>15
  <2>2. \A i, j \in Served..(Raised - 1) : Event(i) = Event(j) => i = j
    BY Zenon DEF CqInv
  <2> HIDE DEF Served, Raised, Event
  <2> QED  BY <2>1, <2>2
<1>26. (Served..(Raised - 1))' = Served..(Raised - 1)
  BY Zenon, <1>15, <1>16
<1>27. CqInv'
  <2>1. \A i \in Served..(Raised - 1) : (/\ Event(i) \in Cqs /\ Opened(Event(i))
                                         /\ ~nic[Event(i)[1]][Event(i)[2]].armed)'
    BY Zenon, <1>23
  <2> HIDE DEF Served, Raised, Event, Opened, Pending
  <2> QED  BY Zenon, <1>24, <1>25, <1>26, <2>1 DEF CqInv
<1> QED  BY Zenon, <1>13, <1>19, <1>27

(* Every step of open. *)
LEMMA OpenStepKeeps ==
  ASSUME Shape, EqInv, CqInv, open
  PROVE  Shape' /\ EqInv' /\ CqInv'
<1>1. inflight' = inflight /\ handler' = handler /\ opener' = opener + 1 /\ opener \in Nat \ {0}
  BY Zenon DEF open, Shape
<1>2. Len(OpenSteps) = 2 + 6 * NQ /\ NQ \in Nat \ {0}
  BY Zenon, OpenStepsAt, Zero
<1>3. CASE opener = Len(OpenSteps) + 1
  <2>1. nic' = nic /\ evq' = evq /\ msi' = msi /\ ring' = ring /\ entries' = entries
    BY Zenon, <1>3 DEF open
  <2>2. opener = 3 + 6 * NQ /\ opener > 2
    BY <1>2, <1>3
  <2>3. Ticks
    BY Zenon, <1>1, <2>2, Zero, OpenTicks
  <2>4. Calm /\ SameEventRing /\ SameEvent
    BY Zenon, <1>1, <2>1, <2>3 DEF Calm, SameEventRing, SameEvent
  <2>5. EqInv' /\ CqInv'
    BY Zenon, <2>1, <2>2, <2>4, Quiet
  <2>6. Shape'
    <3>1. opener' \in Nat \ {0}
      BY Zenon, <2>3, TicksNat
    <3> QED  BY Zenon, <1>1, <2>1, <3>1 DEF Shape
  <2> QED  BY <2>5, <2>6
<1>4. CASE opener # Len(OpenSteps) + 1
  <2> DEFINE s == OpenSteps[opener]
  <2>1. /\ s[1] = "activate" => Activate(s[2], s[3])
        /\ s[1] # "activate" => Arm(nic, s[2], s[3]) /\ ring' = ring /\ entries' = entries
    BY Zenon, <1>4 DEF open
  <2>2. OpenStep(opener, s)
    <3>1. opener <= Len(OpenSteps) + 1
      BY Zenon DEF open
    <3>2. opener \in 1..Len(OpenSteps)
      BY <1>1, <1>2, <1>4, <3>1
    <3> QED  BY <3>2, OpenStepsAt
  <2> HIDE DEF s
  <2>3. CASE opener = 1 /\ s = <<"activate", "eq", 0>>
    <3>1. opener' = 2
      BY <1>1, <2>3
    <3>2. Activate("eq", 0)
      BY Zenon, <2>1, <2>3
    <3> QED  BY Zenon, <1>1, <2>3, <3>1, <3>2, OpenEq
  <2>4. CASE opener = 2 /\ s = <<"arm", "eq", 0>>
    BY <1>1, <2>1, <2>4, OpenEqArm
  <2>5. ASSUME NEW q \in Queues, opener = 3 + 2 * q, s = <<"activate", "rxcq", q>>
        PROVE  Shape' /\ EqInv' /\ CqInv'
    <3>1. opener = ArmPos(<<"rxcq", q>>) - 1
      BY <2>5, Zero DEF ArmPos
    <3> QED  BY Zenon, <1>1, <2>1, <2>5, <3>1, OpenCq
  <2>6. ASSUME NEW q \in Queues, opener = 4 + 2 * q, s = <<"arm", "rxcq", q>>
        PROVE  Shape' /\ EqInv' /\ CqInv'
    <3>1. opener = ArmPos(<<"rxcq", q>>)
      BY Zenon, <2>6 DEF ArmPos
    <3> QED  BY Zenon, <1>1, <2>1, <2>6, <3>1, OpenCqArm
  <2>7. ASSUME NEW q \in Queues, opener = 3 + 2 * NQ + q, s = <<"activate", "rx", q>>
        PROVE  Shape' /\ EqInv' /\ CqInv'
    BY Zenon, <1>1, <2>1, <2>7, OpenRing
  <2>8. ASSUME NEW q \in Queues, opener = 3 + 3 * NQ + 2 * q, s = <<"activate", "txcq", q>>
        PROVE  Shape' /\ EqInv' /\ CqInv'
    <3>1. opener = ArmPos(<<"txcq", q>>) - 1
      BY <2>8, Zero DEF ArmPos
    <3> QED  BY Zenon, <1>1, <2>1, <2>8, <3>1, OpenCq
  <2>9. ASSUME NEW q \in Queues, opener = 4 + 3 * NQ + 2 * q, s = <<"arm", "txcq", q>>
        PROVE  Shape' /\ EqInv' /\ CqInv'
    <3>1. opener = ArmPos(<<"txcq", q>>)
      BY <2>9 DEF ArmPos
    <3> QED  BY Zenon, <1>1, <2>1, <2>9, <3>1, OpenCqArm
  <2>10. ASSUME NEW q \in Queues, opener = 3 + 5 * NQ + q, s = <<"activate", "tx", q>>
         PROVE  Shape' /\ EqInv' /\ CqInv'
    BY Zenon, <1>1, <2>1, <2>10, OpenRing
  <2> QED  BY Zenon, <2>2, <2>3, <2>4, <2>5, <2>6, <2>7, <2>8, <2>9, <2>10 DEF OpenStep
<1> QED  BY Zenon, <1>3, <1>4

(***************************************************************************)
(* The initial state.                                                      *)
(***************************************************************************)
LEMMA InitQueueAt ==
  ASSUME NEW k \in Kinds, NEW x, x = InitQueue(k)
  PROVE  /\ IsQueue(x) /\ ~x.active /\ ~x.armed /\ x.head = x.tail
         /\ k = "eq" => x.head = 0 % EqMod
<1>1. DriverRing.head = 0 /\ DriverRing.tail = 0
  BY DEF DriverRing
<1>2. CASE k = "eq"
  <2> DEFINE a == 0 % EqMod
  <2>1. x = Unset(a, a)
    BY <1>1, <1>2 DEF InitQueue, EqInit, Unset
  <2> HIDE DEF a
  <2>2. IsQueue(x) /\ ~x.active /\ ~x.armed /\ x.head = a /\ x.tail = a
    BY <2>1, UnsetQueue
  <2> QED  BY <1>2, <2>2 DEF a
<1>3. CASE k # "eq"
  <2> DEFINE a == Ptr(0)
  <2>1. x = Unset(a, a)
    <3>1. CASE k \in {"rxcq", "txcq"}
      BY <1>1, <3>1 DEF InitQueue, CqInit, Unset
    <3>2. CASE k = "rx"
      BY <1>1, <3>2 DEF InitQueue, RxInit, Unset
    <3>3. CASE k = "tx"
      BY <1>1, <3>3 DEF InitQueue, TxInit, Unset
    <3> QED  BY <1>3, <3>1, <3>2, <3>3 DEF Kinds
  <2> HIDE DEF a
  <2>2. IsQueue(x) /\ ~x.active /\ ~x.armed /\ x.head = a /\ x.tail = a
    BY <2>1, UnsetQueue
  <2> QED  BY <1>3, <2>2
<1> QED  BY <1>2, <1>3

LEMMA InitHostInv ==
  ASSUME MqInit
  PROVE  HostInv
<1>1. 0 \in Queues /\ "eq" \in Kinds /\ EqMod \in Nat \ {0} /\ EqSize \in Nat /\ NQ \in Nat
      /\ Queues = 0..(NQ - 1)
  BY Zero
<1>2. /\ Grid(nic, Kinds)
      /\ \A k \in Kinds, q \in Queues :
           /\ IsQueue(nic[k][q]) /\ ~nic[k][q].active /\ ~nic[k][q].armed
           /\ nic[k][q].head = nic[k][q].tail
           /\ k = "eq" => nic[k][q].head = 0 % EqMod
  <2>1. nic = [k \in Kinds |-> [q \in Queues |-> InitQueue(k)]]
    BY Zenon DEF MqInit
  <2>2. \A k \in Kinds, q \in Queues : nic[k][q] = InitQueue(k)
    BY <2>1
  <2>3. Grid(nic, Kinds)
    BY Zenon, <2>1, <2>2 DEF Grid
  <2> QED  BY <2>2, <2>3, InitQueueAt
<1>3. Grid(ring, Kinds) /\ \A k \in Kinds, q \in Queues : ring[k][q] = DriverRing
  BY Zenon DEF MqInit, Grid
<1>4. Grid(inflight, {"rx", "tx"}) /\ \A k \in {"rx", "tx"}, q \in Queues : inflight[k][q] = <<>>
  BY Zenon DEF MqInit, Grid
<1>5. Grid(entries, Kinds) /\ entries["eq"][0] = [i \in 0..(EqSize - 1) |-> 0]
  <2> DEFINE E(k) == [i \in 0..((IF k = "eq" THEN EqSize ELSE Size) - 1) |-> 0]
  <2>1. entries = [k \in Kinds |-> [q \in Queues |-> E(k)]]
    BY Zenon DEF MqInit
  <2>2. E("eq") = [i \in 0..(EqSize - 1) |-> 0]
    OBVIOUS
  <2> HIDE DEF E
  <2>3. \A k \in Kinds, q \in Queues : entries[k][q] = E(k)
    BY <2>1
  <2>4. Grid(entries, Kinds)
    BY <2>1, <2>3 DEF Grid
  <2> QED  BY <1>1, <2>2, <2>3, <2>4
<1>6. /\ evq = <<>> /\ msi = 0 /\ opener = 1 /\ handler = IdleHandler /\ closer.step = 0
  BY Zenon DEF MqInit
<1>7. IsHandler(handler) /\ handler.pc = "idle"
  BY <1>6 DEF IdleHandler, IsHandler
<1>8. IsRing(DriverRing) /\ DriverRing.head = 0 /\ DriverRing.tail = 0
  <2> DEFINE I == [i \in 0..(Size - 1) |-> None]
  <2>1. DriverRing = [head |-> 0, tail |-> 0, clean |-> 0, info |-> I]
    BY DEF DriverRing
  <2> HIDE DEF I
  <2> QED  BY <2>1 DEF IsRing
<1>9. Shape
  <2>1. \A k \in {"eq", "rxcq", "txcq"}, q \in Queues : IsRing(ring[k][q])
    BY Zenon, <1>3, <1>8 DEF Kinds
  <2>2. evq \in Seq(Cqs) /\ msi \in Nat /\ opener \in Nat \ {0}
    BY <1>6
  <2>3. entries["eq"][0] = [i \in 0..(EqSize - 1) |-> entries["eq"][0][i]]
    BY <1>5
  <2> QED  BY Zenon, <1>2, <1>3, <1>4, <1>5, <1>7, <2>1, <2>2, <2>3 DEF Shape
<1>10. 0 % EqMod = 0
  BY <1>1
<1>11. /\ EqTail = 0 /\ EqHead = 0 /\ EqUsed = 0 /\ Len(evq) = 0
       /\ nic["eq"][0].head = 0 /\ nic["eq"][0].tail = 0
       /\ ~nic["eq"][0].armed
  <2>1. nic["eq"][0].head = 0 /\ nic["eq"][0].tail = 0 /\ ~nic["eq"][0].armed
    BY <1>1, <1>2, <1>10
  <2>2. EqTail = 0 /\ EqHead = 0
    BY Zenon, <1>1, <1>3, <1>8 DEF EqTail, EqHead
  <2>3. EqUsed = 0
    BY <1>10, <2>1 DEF EqUsed
  <2> QED  BY Zenon, <1>6, <2>1, <2>2, <2>3
<1>12. Written = 0 /\ Raised = 0 /\ Served = 0
  <2>1. Written = 0
    BY <1>11 DEF Written
  <2>2. Raised = 0
    BY <1>11, <2>1 DEF Raised
  <2>3. Served = 0
    BY Zenon, <1>7, <1>11 DEF Served, AtCq
  <2> QED  BY <2>1, <2>2, <2>3
<1>13. EqInv
  <2>1. handler.pc \notin AtCq /\ handler.pc # "eq_tail"
    BY <1>7 DEF AtCq
  <2> HIDE DEF EqTail, EqHead, EqUsed, Written, Raised, Served, Event, AtCq
  <2> QED  BY <1>1, <1>6, <1>7, <1>10, <1>11, <1>12, <2>1 DEF EqInv
<1>14. CqInv
  <2>1. Served..(Raised - 1) = {}
    BY <1>12
  <2>2. ASSUME NEW c \in Cqs PROVE ~Opened(c)
    <3>1. PICK q \in 0..(NQ - 1) : ArmPos(c) = 4 + 2 * q \/ ArmPos(c) = 4 + 3 * NQ + 2 * q
      BY Zenon, ArmPosAt
    <3> HIDE DEF ArmPos, NQ
    <3> QED  BY <1>1, <1>6, <3>1 DEF Opened
  <2>3. ASSUME NEW c \in Cqs
        PROVE  /\ ~nic[c[1]][c[2]].armed /\ nic[c[1]][c[2]].head = nic[c[1]][c[2]].tail
               /\ ring[c[1]][c[2]].head = ring[c[1]][c[2]].tail
               /\ inflight[RingOf(c[1])][c[2]] = <<>>
               /\ ~nic[RingOf(c[1])][c[2]].active
    <3>1. /\ c[1] \in Kinds /\ c[2] \in Queues
          /\ RingOf(c[1]) \in {"rx", "tx"} /\ RingOf(c[1]) \in Kinds
      BY Zenon, CqParts
    <3>2. ~nic[c[1]][c[2]].armed /\ nic[c[1]][c[2]].head = nic[c[1]][c[2]].tail
      BY <1>2, <3>1
    <3>3. ring[c[1]][c[2]].head = ring[c[1]][c[2]].tail
      BY <1>3, <1>8, <3>1
    <3>4. inflight[RingOf(c[1])][c[2]] = <<>>
      BY <1>4, <3>1
    <3>5. ~nic[RingOf(c[1])][c[2]].active
      BY <1>2, <3>1
    <3> QED  BY Zenon, <3>2, <3>3, <3>4, <3>5
  <2> HIDE DEF Served, Raised, Event, Opened, Pending
  <2> QED  BY Zenon, <2>1, <2>2, <2>3 DEF CqInv
<1> QED  BY <1>6, <1>9, <1>13, <1>14 DEF HostInv

(***************************************************************************)
(* Every step, and what the invariant says of completions.                 *)
(***************************************************************************)
LEMMA StepKeeps ==
  ASSUME Shape, EqInv, CqInv, Raised - Served <= 2 * NQ, MqNext, ~close
  PROVE  Shape' /\ EqInv' /\ CqInv'
<1>2. CASE open
  BY Zenon, <1>2, OpenStepKeeps
<1>3. CASE interrupt
  BY <1>3, InterruptStep
<1>4. CASE Handler
  BY Zenon, <1>4, EqHeadStep, ServeStep, WriteTailStep, RestStep, RxHeadStep, CqArmStep, EqTailStep, EqArmStep
     DEF Handler
<1>5. ASSUME NEW q \in Queues, start_xmit(q) \/ write_head_ptr(q)
      PROVE  Shape' /\ EqInv' /\ CqInv'
  BY Zenon, <1>5, XmitStep, DoorbellStep
<1>6. ASSUME NEW k \in {"rx", "tx"}, NEW q \in Queues, NicTake(k, q) \/ NicComplete(k, q)
      PROVE  Shape' /\ EqInv' /\ CqInv'
  BY Zenon, <1>6, TakeStep, CompleteStep
<1>7. CASE NicEvent
  BY Zenon, <1>7, EventStep
<1> QED  BY Zenon, <1>2, <1>3, <1>4, <1>5, <1>6, <1>7 DEF MqNext

LEMMA NextHostInv ==
  ASSUME HostInv, closer.step = 0 => Raised - Served <= 2 * NQ, [MqNext]_mqVars
  PROVE  HostInv'
<1>1. CASE close
  <2>1. closer.step \in Nat /\ closer'.step = closer.step + 1
    BY Zenon, <1>1 DEF close, HostInv
  <2> QED  BY <2>1 DEF HostInv
<1>2. CASE MqNext /\ ~close
  <2>1. closer' = closer
    <3>1. CASE open
      BY Zenon, <3>1 DEF open
    <3>2. CASE interrupt \/ EqReadHead \/ CqArmed \/ EqWriteTail \/ EqArmed
      BY Zenon, <3>2 DEF interrupt, EqReadHead, CqArmed, EqWriteTail, EqArmed
    <3>3. CASE process_tx_cq \/ process_rx_cq \/ CqWriteTail
      BY Zenon, <3>3 DEF process_tx_cq, process_rx_cq, CqWriteTail
    <3>4. CASE task_feedback \/ ReadTail \/ RxWriteHead
      BY Zenon, <3>4 DEF task_feedback, ReadTail, RxWriteHead
    <3>5. CASE \E q \in Queues : start_xmit(q) \/ write_head_ptr(q)
      BY Zenon, <3>5 DEF start_xmit, write_head_ptr
    <3>6. CASE \E k \in {"rx", "tx"}, q \in Queues : NicTake(k, q) \/ NicComplete(k, q)
      <4>1. UNCHANGED Driver
        BY ZenonT(40), <3>6 DEF NicTake, NicComplete
      <4> QED  BY Zenon, <4>1 DEF Driver
    <3>7. CASE NicEvent
      BY Zenon, <3>7 DEF NicEvent, Driver
    <3> QED  BY Zenon, <1>2, <3>1, <3>2, <3>3, <3>4, <3>5, <3>6, <3>7 DEF MqNext, Handler
  <2>2. CASE closer.step = 0
    BY <1>2, <2>1, <2>2, StepKeeps DEF HostInv
  <2>3. CASE closer.step # 0
    BY <2>1, <2>3 DEF HostInv
  <2> QED  BY Zenon, <2>2, <2>3
<1>3. CASE UNCHANGED mqVars
  <2>1. /\ nic' = nic /\ entries' = entries /\ evq' = evq /\ msi' = msi /\ inflight' = inflight
        /\ ring' = ring /\ handler' = handler /\ opener' = opener /\ closer' = closer
    BY Zenon, <1>3 DEF mqVars
  <2>2. SameEventRing /\ Calm /\ SameEvent
    BY Zenon, <2>1 DEF SameEventRing, Calm, Ticks, SameEvent
  <2>3. ASSUME closer.step = 0 PROVE Shape' /\ EqInv' /\ CqInv'
    <3>1. Shape /\ EqInv /\ CqInv
      BY Zenon, <2>3 DEF HostInv
    <3>2. Shape'
      BY Zenon, <2>1, <3>1 DEF Shape
    <3> QED  BY Zenon, <2>1, <2>2, <3>1, <3>2, Quiet
  <2> QED  BY Zenon, <2>1, <2>3 DEF HostInv
<1> QED  BY Zenon, <1>1, <1>2, <1>3

LEMMA NotForgotten ==
  ASSUME HostInv
  PROVE  NoForgottenCompletion
<1> SUFFICES ASSUME closer.step = 0 PROVE NoForgottenCompletion
  BY Zenon DEF NoForgottenCompletion
<1> DEFINE eq == nic["eq"][0]
           queued == {entries["eq"][0][(eq.tail + i) % EqSize] : i \in 0..(EqUsed - 1)}
<1>1. Shape /\ EqInv /\ CqInv
  BY DEF HostInv
<1>2. /\ EqTail \in Nat /\ Written \in Nat /\ Raised \in Nat /\ EqUsed \in Nat /\ Served \in Nat
      /\ EqTail <= Served /\ Written = EqTail + EqUsed /\ Raised = Written + Len(evq)
      /\ Len(evq) \in Nat
  BY <1>1, Bounds
<1>3. eq.head = Written % EqMod /\ eq.tail = EqTail % EqMod
  BY Zenon, <1>1 DEF EqInv
<1>4. ASSUME NEW k \in {"rxcq", "txcq"}, NEW q \in Queues, nic[k][q].head # nic[k][q].tail
      PROVE  ~nic[k][q].armed /\ <<k, q>> \in Range(evq) \cup queued
  <2> DEFINE c == <<k, q>>
  <2>1. c \in Cqs /\ c[1] = k /\ c[2] = q
    BY DEF Cqs
  <2>2. Pending(c)
    <3> HIDE DEF c, Pending
    <3> QED  BY Zenon, <1>1, <1>4, <2>1 DEF CqInv
  <2>3. PICK i \in Served..(Raised - 1) : Event(i) = c
    BY Zenon, <2>2 DEF Pending
  <2>4. ~nic[k][q].armed
    <3>1. ~nic[c[1]][c[2]].armed
      <4> HIDE DEF c, Served, Raised, Event
      <4> QED  BY Zenon, <1>1, <2>3 DEF CqInv
    <3> QED  BY Zenon, <2>1, <3>1
  <2>5. CASE i < Written
    <3> DEFINE j == i - EqTail
    <3>1. j \in 0..(EqUsed - 1) /\ EqTail + j = i /\ EqTail \in Int /\ j \in Int
      <4> HIDE DEF EqTail, Written, Raised, EqUsed, Served
      <4> QED  BY <1>2, <2>3, <2>5
    <3>2. Event(i) = entries["eq"][0][i % EqSize]
      BY <2>5 DEF Event
    <3> HIDE DEF j
    <3>3. ((EqTail % EqMod) + j) % EqSize = (EqTail + j) % EqSize
      BY <3>1, SlotOfPointer, Zenon
    <3>4. (eq.tail + j) % EqSize = i % EqSize
      BY Zenon, <1>3, <3>1, <3>3
    <3>5. entries["eq"][0][(eq.tail + j) % EqSize] = c
      BY Zenon, <2>3, <3>2, <3>4
    <3>6. c \in queued
      BY Zenon, <3>1, <3>5
    <3> QED  BY Zenon, <2>4, <3>6
  <2>6. CASE ~(i < Written)
    <3> DEFINE j == i - Written + 1
    <3>1. j \in 1..Len(evq)
      <4> HIDE DEF EqTail, Written, Raised, EqUsed, Served
      <4> QED  BY <1>2, <2>3, <2>6
    <3>2. evq[j] = c
      BY Zenon, <2>3, <2>6 DEF Event
    <3>3. j \in DOMAIN evq
      <4> HIDE DEF j
      <4> QED  BY <1>1, <3>1 DEF Shape
    <3> HIDE DEF j, c
    <3>4. c \in Range(evq)
      BY Zenon, <3>2, <3>3 DEF Range
    <3> QED  BY Zenon, <2>4, <3>4 DEF c
  <2> QED  BY Zenon, <2>5, <2>6
<1>5. ASSUME eq.head # eq.tail
      PROVE  ~eq.armed /\ (msi > 0 \/ handler.pc # "idle")
  <2>1. EqUsed # 0
    <3> SUFFICES ASSUME EqUsed = 0 PROVE FALSE
      OBVIOUS
    <3>1. Written = EqTail
      <4> HIDE DEF EqTail, Written, Raised, EqUsed, Served
      <4> QED  BY <1>2
    <3> QED  BY Zenon, <1>3, <1>5, <3>1
  <2>2. opener \in Nat
    BY Zenon, <1>1 DEF Shape
  <2> HIDE DEF EqUsed
  <2> QED  BY <1>1, <2>1, <2>2 DEF EqInv
<1> QED  BY Zenon, <1>4, <1>5 DEF NoForgottenCompletion

(***************************************************************************)
(* The number of pending events, and the theorem.                          *)
(***************************************************************************)
INSTANCE FiniteSetTheorems

(* Each completion queue has one at most. *)
LEMMA PendingBound ==
  ASSUME Shape, EqInv, CqInv
  PROVE  Raised - Served <= 2 * NQ
<1> DEFINE code(c) == IF c[1] = "rxcq" THEN c[2] ELSE NQ + c[2]
           W == Served..(Raised - 1)
           T == 0..(2 * NQ - 1)
           f == [i \in W |-> code(Event(i))]
<1>1. NQ \in Nat \ {0} /\ Queues = 0..(NQ - 1)
  BY Zenon, Zero
<1>2. Served \in Nat /\ Raised \in Nat /\ Served <= Raised
  <2>1. /\ Served \in Nat /\ Raised \in Nat /\ EqHead \in Nat /\ Written \in Nat
        /\ Served <= EqHead /\ EqHead <= Written /\ Written <= Raised
    BY Zenon, Bounds
  <2> HIDE DEF Served, Raised, EqHead, Written
  <2> QED  BY <2>1
<1>3. /\ \A i \in W : Event(i) \in Cqs
      /\ \A i, j \in W : Event(i) = Event(j) => i = j
  BY Zenon DEF CqInv
<1> HIDE DEF Served, Raised, Event, NQ
<1>4. /\ \A c \in Cqs : code(c) \in T
      /\ \A c, d \in Cqs : code(c) = code(d) => c = d
  <2>1. \A c \in Cqs : c[1] \in {"rxcq", "txcq"} /\ c[2] \in 0..(NQ - 1) /\ c = <<c[1], c[2]>>
    BY <1>1, CqParts
  <2>2. \A c \in Cqs : code(c) \in T
    BY <1>1, <2>1
  <2>3. ASSUME NEW c \in Cqs, NEW d \in Cqs, code(c) = code(d) PROVE c = d
    <3>1. c[1] = d[1] /\ c[2] = d[2]
      BY <1>1, <2>1, <2>3
    <3> QED  BY <2>1, <3>1
  <2> QED  BY <2>2, <2>3
<1> HIDE DEF code
<1>5. f \in [W -> T] /\ \A i, j \in W : f[i] = f[j] => i = j
  BY Zenon, <1>3, <1>4
<1>6. /\ IsFiniteSet(W) /\ IsFiniteSet(T)
      /\ Cardinality(W) = IF Served > Raised - 1 THEN 0 ELSE (Raised - 1) - Served + 1
      /\ Cardinality(T) = IF 0 > 2 * NQ - 1 THEN 0 ELSE (2 * NQ - 1) - 0 + 1
  <2>1. Served \in Int /\ Raised - 1 \in Int /\ 0 \in Int /\ 2 * NQ - 1 \in Int
    BY <1>1, <1>2
  <2> QED  BY Zenon, <2>1, FS_Interval
<1> HIDE DEF f, W, T
<1>7. Cardinality(T) < Cardinality(W) => \E i, j \in W : i # j /\ f[i] = f[j]
  BY <1>5, <1>6, FS_PigeonHole, ZenonT(30)
<1>8. ~(Cardinality(T) < Cardinality(W))
  BY <1>5, <1>7
<1> QED  BY <1>1, <1>2, <1>6, <1>8

(* Whatever the driver's coroutines, its interrupt handler and the NIC do, *)
(* in any order, a completion that nobody has handled has an event under   *)
(* way and an event in the event queue an interrupt or a running handler   *)
(* (interrupt, EqRing.process, process_rx_cq, process_tx_cq), until close  *)
(* is called, for any number of rings and any number of packets.           *)
THEOREM NothingForgotten == MqSpec => []NoForgottenCompletion
<1>1. MqInit => HostInv
  BY InitHostInv
<1>2. HostInv /\ [MqNext]_mqVars => HostInv'
  <2> SUFFICES ASSUME HostInv, [MqNext]_mqVars PROVE HostInv'
    BY Zenon
  <2>1. closer.step = 0 => Raised - Served <= 2 * NQ
    BY Zenon, PendingBound DEF HostInv
  <2> QED  BY Zenon, <2>1, NextHostInv
<1>3. HostInv => NoForgottenCompletion
  BY Zenon, NotForgotten
<1> QED  BY <1>1, <1>2, <1>3, PTL DEF MqSpec
=============================================================================
