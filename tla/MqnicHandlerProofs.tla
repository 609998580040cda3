------------------------ MODULE MqnicHandlerProofs -------------------------
(***************************************************************************)
(* The inductive invariant from which MqnicProofs proves that the driver   *)
(* of mqnic.py forgets no completion, and the steps of the driver that     *)
(* keep it: start_xmit, the doorbell and the whole interrupt handler.      *)
(***************************************************************************)
EXTENDS Mqnic, TLAPS

(* Leaves may take longer than the default limit among so many facts. *)
USE SMTT(30)

(***************************************************************************)
(* Pointers that wrap.                                                     *)
(***************************************************************************)
(* The quotient and the remainder of a pointer. *)
LEMMA DivMod ==
  ASSUME NEW n \in Nat \ {0}, NEW a \in Int
  PROVE  a \div n \in Int /\ (a % n) \in 0..(n-1) /\ a = n * (a \div n) + (a % n)
OBVIOUS

(* They are the only ones. *)
LEMMA ModUnique ==
  ASSUME NEW n \in Nat \ {0}, NEW a \in Int, NEW q \in Int, NEW r \in 0..(n-1), a = n * q + r
  PROVE  a % n = r
<1> DEFINE p == a \div n
           s == a % n
<1>1. p \in Int /\ s \in 0..(n-1) /\ a = n * p + s
  BY DivMod
<1> HIDE DEF p, s
<1>2. n * (p - q) = r - s
  BY <1>1
<1>3. ~(p - q >= 1)
  <2> SUFFICES ASSUME p - q >= 1 PROVE FALSE
    OBVIOUS
  <2>1. n * (p - q) >= n
    BY <1>1
  <2> QED  BY <1>1, <1>2, <2>1
<1>4. ~(p - q <= -1)
  <2> SUFFICES ASSUME p - q <= -1 PROVE FALSE
    OBVIOUS
  <2>1. n * (p - q) <= -n
    BY <1>1
  <2> QED  BY <1>1, <1>2, <2>1
<1>5. p = q
  BY <1>1, <1>3, <1>4
<1>6. s = r
  BY <1>1, <1>5
<1> QED  BY <1>6 DEF s

(* Adding turns of the ring changes no remainder. *)
LEMMA ModTurns ==
  ASSUME NEW n \in Nat \ {0}, NEW a \in Int, NEW k \in Int
  PROVE  (a + n * k) % n = a % n
<1> DEFINE q == a \div n
           r == a % n
           b == a + n * k
           j == q + k
<1>1. q \in Int /\ r \in 0..(n-1) /\ a = n * q + r
  BY DivMod
<1> HIDE DEF q, r
<1>2. b \in Int /\ j \in Int /\ b = n * j + r
  <2>1. n * k \in Int /\ n * q \in Int
    BY <1>1
  <2>2. n * (q + k) = n * q + n * k
    BY <1>1
  <2> QED  BY <1>1, <2>1, <2>2
<1> HIDE DEF b, j
<1>3. b % n = r
  BY <1>1, <1>2, ModUnique
<1> QED  BY <1>3 DEF b, r

(* A remainder taken first makes no difference. *)
LEMMA ModOfMod ==
  ASSUME NEW n \in Nat \ {0}, NEW a \in Int, NEW d \in Int
  PROVE  ((a % n) + d) % n = (a + d) % n
<1> DEFINE q == a \div n
           r == a % n
           b == a + d
           k == -q
<1>1. q \in Int /\ r \in 0..(n-1) /\ a = n * q + r
  BY DivMod
<1> HIDE DEF q, r
<1>2. b \in Int /\ k \in Int /\ r + d = b + n * k
  <2>1. n * (-q) = -(n * q) /\ n * q \in Int
    BY <1>1
  <2> QED  BY <1>1, <2>1
<1> HIDE DEF b, k
<1>3. (b + n * k) % n = b % n
  BY Zenon, <1>2, ModTurns
<1> QED  BY <1>2, <1>3 DEF b, r

(* The distance of two pointers less than a turn apart. *)
LEMMA ModDistance ==
  ASSUME NEW n \in Nat \ {0}, NEW a \in Int, NEW b \in Int, a - b \in 0..(n-1)
  PROVE  /\ ((a % n) - b) % n = a - b
         /\ ((a % n) - (b % n)) % n = a - b
<1>1. (a - b) % n = a - b
  <2> DEFINE c == a - b
  <2>1. c \in 0..(n-1) /\ c \in Int /\ c = n * 0 + c
    OBVIOUS
  <2> HIDE DEF c
  <2>2. c % n = c
    BY <2>1, ModUnique
  <2> QED  BY <2>2 DEF c
<1>2. \A x, y \in Int : ((x % n) + y) % n = (x + y) % n
  BY Zenon, ModOfMod
<1>3. -b \in Int /\ (a % n) \in Int /\ (b % n) \in Int /\ -(b % n) \in Int
  BY DivMod
<1>4. ((a % n) - b) % n = a - b
  <2>1. ((a % n) + (-b)) % n = (a + (-b)) % n
    BY Zenon, <1>2, <1>3
  <2>2. (a % n) + (-b) = (a % n) - b /\ a + (-b) = a - b
    BY <1>3
  <2> QED  BY <1>1, <2>1, <2>2
<1>5. ((a % n) - (b % n)) % n = (a - b) % n
  <2> DEFINE q == b \div n
             r == b % n
             x == (a % n) - b
  <2>1. q \in Int /\ r \in Int /\ b = n * q + r /\ n * q \in Int
    BY DivMod
  <2>2. x \in Int /\ (a % n) - r = x + n * q
    BY <1>3, <2>1
  <2> HIDE DEF q, r, x
  <2>3. (x + n * q) % n = x % n
    BY Zenon, <2>1, <2>2, ModTurns
  <2>4. ((a % n) - r) % n = x % n
    BY <2>2, <2>3
  <2> QED  BY <1>1, <1>4, <2>4 DEF x, r
<1> QED  BY <1>1, <1>4, <1>5

(* Pointers less than a turn apart name different slots. *)
LEMMA ModDistinct ==
  ASSUME NEW n \in Nat \ {0}, NEW a \in Int, NEW b \in Int, a - b \in 1..(n-1)
  PROVE  (a % n) # (b % n)
<1>1. ((a % n) - (b % n)) % n = a - b
  <2>1. a - b \in 0..(n-1)
    OBVIOUS
  <2> QED  BY Zenon, <2>1, ModDistance
<1>2. 0 % n = 0
  <2>1. 0 = n * 0 + 0 /\ 0 \in 0..(n-1)
    OBVIOUS
  <2> QED  BY <2>1, ModUnique
<1> SUFFICES ASSUME (a % n) = (b % n) PROVE FALSE
  OBVIOUS
<1>3. (a % n) - (b % n) = 0
  BY DivMod
<1> QED  BY <1>1, <1>2, <1>3

(* The slot of a pointer that has wrapped. *)
LEMMA SlotOfPointer ==
  ASSUME NEW a \in Int, NEW d \in Int
  PROVE  ((a % EqMod) + d) % EqSize = (a + d) % EqSize
<1>1. EqSize \in Nat \ {0} /\ EqMod \in Nat \ {0} /\ EqMod % EqSize = 0
  BY EventRingAssumption
<1> DEFINE t == EqMod \div EqSize
           q == a \div EqMod
           k == t * (-q)
           b == a + d
<1>2. t \in Int /\ EqMod = EqSize * t
  BY <1>1, DivMod
<1>3. q \in Int /\ (a % EqMod) \in Int /\ a = EqMod * q + (a % EqMod)
  BY <1>1, DivMod
<1> HIDE DEF t, q
<1>4. k \in Int /\ b \in Int /\ (a % EqMod) + d = b + EqSize * k
  <2>1. EqMod * q = EqSize * (t * q)
    BY <1>1, <1>2, <1>3
  <2>2. t * q \in Int /\ t * (-q) = -(t * q)
    BY <1>2, <1>3
  <2>3. EqSize * (-(t * q)) = -(EqSize * (t * q)) /\ EqSize * (t * q) \in Int
    BY <1>1, <2>2
  <2> QED  BY <1>2, <1>3, <2>1, <2>2, <2>3
<1> HIDE DEF k, b
<1>5. (b + EqSize * k) % EqSize = b % EqSize
  BY Zenon, <1>1, <1>4, ModTurns
<1> QED  BY <1>4, <1>5 DEF b

(***************************************************************************)
(* The steps of open, by position: the event queue is armed first, and a   *)
(* completion queue before its ring is activated.                          *)
(***************************************************************************)
NQ == Cardinality(Queues)

OpenStep(i, s) ==
  \/ i = 1 /\ s = <<"activate", "eq", 0>>
  \/ i = 2 /\ s = <<"arm", "eq", 0>>
  \/ \E q \in Queues :
       \/ i = 3 + 2 * q /\ s = <<"activate", "rxcq", q>>
       \/ i = 4 + 2 * q /\ s = <<"arm", "rxcq", q>>
       \/ i = 3 + 2 * NQ + q /\ s = <<"activate", "rx", q>>
       \/ i = 3 + 3 * NQ + 2 * q /\ s = <<"activate", "txcq", q>>
       \/ i = 4 + 3 * NQ + 2 * q /\ s = <<"arm", "txcq", q>>
       \/ i = 3 + 5 * NQ + q /\ s = <<"activate", "tx", q>>

(* Concatenation, element by element. *)
LEMMA Concat ==
  ASSUME NEW S, NEW s \in Seq(S), NEW t \in Seq(S), NEW n, NEW l, Len(s) = n, l = n + Len(t)
  PROVE  /\ s \o t \in Seq(S)
         /\ Len(s \o t) = l
         /\ \A i \in 1..l : (s \o t)[i] = IF i <= n THEN s[i] ELSE t[i - n]
OBVIOUS

(* What open does at each position. *)
LEMMA OpenStepsAt ==
  /\ Len(OpenSteps) = 2 + 6 * NQ
  /\ \A i \in 1..Len(OpenSteps) : OpenStep(i, OpenSteps[i])
<1> DEFINE S == {"activate", "arm"} \X Kinds \X Queues
           act(k) == [i \in 1..NQ |-> <<"activate", k, i - 1>>]
           both(k) == [i \in 1..(2 * NQ) |->
                         <<IF i % 2 = 1 THEN "activate" ELSE "arm", k, (i - 1) \div 2>>]
           s1 == <<<<"activate", "eq", 0>>, <<"arm", "eq", 0>>>>
           s2 == s1 \o both("rxcq")
           s3 == s2 \o act("rx")
           s4 == s3 \o both("txcq")
           s5 == s4 \o act("tx")
<1>1. NQ \in Nat \ {0} /\ Queues = 0..(NQ - 1)
  BY EventRingAssumption DEF NQ
<1>2. OpenSteps = s5
  BY DEF OpenSteps, NQ
<1> HIDE DEF NQ
<1>3. ASSUME NEW k \in Kinds
      PROVE  /\ act(k) \in Seq(S) /\ Len(act(k)) = NQ
             /\ both(k) \in Seq(S) /\ Len(both(k)) = 2 * NQ
  <2>1. \A i \in 1..NQ : act(k)[i] \in S
    BY <1>1
  <2>2. \A i \in 1..(2 * NQ) : both(k)[i] \in S
    BY <1>1
  <2> HIDE DEF S
  <2>3. act(k) \in Seq(S) /\ Len(act(k)) = NQ
    BY <1>1, <2>1
  <2>4. both(k) \in Seq(S) /\ Len(both(k)) = 2 * NQ
    BY <1>1, <2>2
  <2> QED  BY Zenon, <2>3, <2>4
<1>4. s1 \in Seq(S) /\ Len(s1) = 2
  BY <1>1 DEF Kinds
<1>5. \A q \in Queues : q \in Nat
  BY <1>1
<1>6. {"rxcq", "rx", "txcq", "tx"} \subseteq Kinds
  BY DEF Kinds
<1>7. ASSUME NEW k \in Kinds, NEW j \in 1..NQ
      PROVE  \E q \in Queues : j = q + 1 /\ act(k)[j] = <<"activate", k, q>>
  <2>1. j - 1 \in Queues /\ j = (j - 1) + 1 /\ act(k)[j] = <<"activate", k, j - 1>>
    BY <1>1
  <2> QED  BY <2>1
<1>8. ASSUME NEW k \in Kinds, NEW j \in 1..(2 * NQ)
      PROVE  \E q \in Queues : \/ j = 2 * q + 1 /\ both(k)[j] = <<"activate", k, q>>
                               \/ j = 2 * q + 2 /\ both(k)[j] = <<"arm", k, q>>
  <2> DEFINE q == (j - 1) \div 2
  <2>1. q \in Queues
    BY <1>1
  <2>2. \/ j % 2 = 1 /\ j = 2 * q + 1
        \/ j % 2 # 1 /\ j = 2 * q + 2
    OBVIOUS
  <2>3. both(k)[j] = <<IF j % 2 = 1 THEN "activate" ELSE "arm", k, q>>
    OBVIOUS
  <2> HIDE DEF q, both
  <2> WITNESS q \in Queues
  <2> QED  BY <2>2, <2>3
<1> HIDE DEF S, act, both, s1
<1>9. /\ s2 \in Seq(S) /\ Len(s2) = 2 + 2 * NQ
      /\ \A i \in 1..(2 + 2 * NQ) : s2[i] = IF i <= 2 THEN s1[i] ELSE both("rxcq")[i - 2]
  <2> DEFINE t == both("rxcq")
             n == 2
             l == 2 + 2 * NQ
  <2>1. t \in Seq(S) /\ Len(t) = 2 * NQ
    BY <1>3, <1>6
  <2>2. l = n + Len(t)
    BY <1>1, <2>1
  <2>3. Len(s1) = n /\ s1 \in Seq(S)
    BY <1>4
  <2> HIDE DEF t, n, l
  <2>4. /\ s1 \o t \in Seq(S) /\ Len(s1 \o t) = l
        /\ \A i \in 1..l : (s1 \o t)[i] = IF i <= n THEN s1[i] ELSE t[i - n]
    BY <2>1, <2>2, <2>3, Concat
  <2> QED  BY <2>4 DEF t, n, l
<1> HIDE DEF s2
<1>10. /\ s3 \in Seq(S) /\ Len(s3) = 2 + 3 * NQ
       /\ \A i \in 1..(2 + 3 * NQ) :
            s3[i] = IF i <= 2 + 2 * NQ THEN s2[i] ELSE act("rx")[i - (2 + 2 * NQ)]
  <2> DEFINE t == act("rx")
             n == 2 + 2 * NQ
             l == 2 + 3 * NQ
  <2>1. t \in Seq(S) /\ Len(t) = NQ
    BY <1>3, <1>6
  <2>2. l = n + Len(t)
    BY <1>1, <2>1
  <2>3. Len(s2) = n /\ s2 \in Seq(S)
    BY <1>9
  <2> HIDE DEF t, n, l
  <2>4. /\ s2 \o t \in Seq(S) /\ Len(s2 \o t) = l
        /\ \A i \in 1..l : (s2 \o t)[i] = IF i <= n THEN s2[i] ELSE t[i - n]
    BY <2>1, <2>2, <2>3, Concat
  <2> QED  BY <2>4 DEF t, n, l
<1> HIDE DEF s3
<1>11. /\ s4 \in Seq(S) /\ Len(s4) = 2 + 5 * NQ
       /\ \A i \in 1..(2 + 5 * NQ) :
            s4[i] = IF i <= 2 + 3 * NQ THEN s3[i] ELSE both("txcq")[i - (2 + 3 * NQ)]
  <2> DEFINE t == both("txcq")
             n == 2 + 3 * NQ
             l == 2 + 5 * NQ
  <2>1. t \in Seq(S) /\ Len(t) = 2 * NQ
    BY <1>3, <1>6
  <2>2. l = n + Len(t)
    BY <1>1, <2>1
  <2>3. Len(s3) = n /\ s3 \in Seq(S)
    BY <1>10
  <2> HIDE DEF t, n, l
  <2>4. /\ s3 \o t \in Seq(S) /\ Len(s3 \o t) = l
        /\ \A i \in 1..l : (s3 \o t)[i] = IF i <= n THEN s3[i] ELSE t[i - n]
    BY <2>1, <2>2, <2>3, Concat
  <2> QED  BY <2>4 DEF t, n, l
<1> HIDE DEF s4
<1>12. /\ s5 \in Seq(S) /\ Len(s5) = 2 + 6 * NQ
       /\ \A i \in 1..(2 + 6 * NQ) :
            s5[i] = IF i <= 2 + 5 * NQ THEN s4[i] ELSE act("tx")[i - (2 + 5 * NQ)]
  <2> DEFINE t == act("tx")
             n == 2 + 5 * NQ
             l == 2 + 6 * NQ
  <2>1. t \in Seq(S) /\ Len(t) = NQ
    BY <1>3, <1>6
  <2>2. l = n + Len(t)
    BY <1>1, <2>1
  <2>3. Len(s4) = n /\ s4 \in Seq(S)
    BY <1>11
  <2> HIDE DEF t, n, l
  <2>4. /\ s4 \o t \in Seq(S) /\ Len(s4 \o t) = l
        /\ \A i \in 1..l : (s4 \o t)[i] = IF i <= n THEN s4[i] ELSE t[i - n]
    BY <2>1, <2>2, <2>3, Concat
  <2> QED  BY <2>4 DEF t, n, l
<1> HIDE DEF s5
<1>13. ASSUME NEW i \in 1..(2 + 6 * NQ)
       PROVE  OpenStep(i, s5[i])
  <2>1. CASE i <= 2
    <3>1. s5[i] = s1[i]
      BY <1>1, <1>9, <1>10, <1>11, <1>12, <2>1
    <3> QED  BY <2>1, <3>1 DEF OpenStep, s1
  <2>2. CASE 2 < i /\ i <= 2 + 2 * NQ
    <3> DEFINE j == i - 2
    <3>1. j \in 1..(2 * NQ) /\ s5[i] = both("rxcq")[j]
      <4>1. s5[i] = s3[i]
        BY <1>1, <1>11, <1>12, <2>2
      <4>2. s3[i] = both("rxcq")[i - 2]
        BY <1>1, <1>9, <1>10, <2>2
      <4> QED  BY <1>1, <2>2, <4>1, <4>2
    <3> HIDE DEF j
    <3>2. PICK q \in Queues : \/ j = 2 * q + 1 /\ both("rxcq")[j] = <<"activate", "rxcq", q>>
                              \/ j = 2 * q + 2 /\ both("rxcq")[j] = <<"arm", "rxcq", q>>
      BY <1>6, <1>8, <3>1
    <3>3. j = 2 * q + 1 => i = 3 + 2 * q
      BY <1>5 DEF j
    <3>4. j = 2 * q + 2 => i = 4 + 2 * q
      BY <1>5 DEF j
    <3> QED  BY Zenon, <3>1, <3>2, <3>3, <3>4 DEF OpenStep
  <2>3. CASE 2 + 2 * NQ < i /\ i <= 2 + 3 * NQ
    <3> DEFINE j == i - (2 + 2 * NQ)
    <3>1. j \in 1..NQ /\ s5[i] = act("rx")[j]
      BY <1>1, <1>10, <1>11, <1>12, <2>3
    <3> HIDE DEF j
    <3>2. PICK q \in Queues : j = q + 1 /\ act("rx")[j] = <<"activate", "rx", q>>
      BY <1>6, <1>7, <3>1
    <3>3. i = 3 + 2 * NQ + q
      BY <1>1, <1>5, <3>2 DEF j
    <3> QED  BY <3>1, <3>2, <3>3 DEF OpenStep
  <2>4. CASE 2 + 3 * NQ < i /\ i <= 2 + 5 * NQ
    <3> DEFINE j == i - (2 + 3 * NQ)
    <3>1. j \in 1..(2 * NQ) /\ s5[i] = both("txcq")[j]
      <4>1. s5[i] = s4[i]
        BY <1>1, <1>12, <2>4
      <4>2. s4[i] = both("txcq")[i - (2 + 3 * NQ)]
        BY <1>1, <1>11, <2>4
      <4>3. j \in 1..(2 * NQ)
        BY <1>1, <2>4
      <4> QED  BY <4>1, <4>2, <4>3
    <3> HIDE DEF j
    <3>2. PICK q \in Queues : \/ j = 2 * q + 1 /\ both("txcq")[j] = <<"activate", "txcq", q>>
                              \/ j = 2 * q + 2 /\ both("txcq")[j] = <<"arm", "txcq", q>>
      BY <1>6, <1>8, <3>1
    <3>3. j = 2 * q + 1 => i = 3 + 3 * NQ + 2 * q
      BY <1>1, <1>5 DEF j
    <3>4. j = 2 * q + 2 => i = 4 + 3 * NQ + 2 * q
      BY <1>1, <1>5 DEF j
    <3> QED  BY Zenon, <3>1, <3>2, <3>3, <3>4 DEF OpenStep
  <2>5. CASE 2 + 5 * NQ < i
    <3> DEFINE j == i - (2 + 5 * NQ)
    <3>1. j \in 1..NQ /\ s5[i] = act("tx")[j]
      BY <1>1, <1>12, <2>5
    <3> HIDE DEF j
    <3>2. PICK q \in Queues : j = q + 1 /\ act("tx")[j] = <<"activate", "tx", q>>
      BY <1>6, <1>7, <3>1
    <3>3. i = 3 + 5 * NQ + q
      BY <1>1, <1>5, <3>2 DEF j
    <3> QED  BY <3>1, <3>2, <3>3 DEF OpenStep
  <2> QED  BY <1>1, <2>1, <2>2, <2>3, <2>4, <2>5
<1> QED  BY <1>2, <1>12, <1>13

(***************************************************************************)
(* The inductive invariant.  Events are numbered in the order in which     *)
(* they were raised: those below Written are in the event ring, the others *)
(* on their way to it; those below Served are done with.  The handler is   *)
(* at event Served.  Every completion queue that was armed once is armed   *)
(* now or has exactly one event that is not done with: so there are never  *)
(* more than two such events for each index, the ring has room for all of  *)
(* them, and none is dropped.                                              *)
(***************************************************************************)
Cqs == {"rxcq", "txcq"} \X Queues

(* Completion queue c was armed by open. *)
ArmPos(c) == IF c[1] = "rxcq" THEN 4 + 2 * c[2] ELSE 4 + 3 * NQ + 2 * c[2]
Opened(c) == opener > ArmPos(c)

(* Where the handler is at a completion queue. *)
AtCq == {"cq_read", "cq_tail", "feedback", "ring_read", "ring_head", "cq_arm"}

EqTail == ring["eq"][0].tail
EqHead == ring["eq"][0].head
Written == EqTail + EqUsed
Served == IF handler.pc \in AtCq \cup {"eq_tail"} THEN handler.eq_tail ELSE EqTail
Raised == Written + Len(evq)
Event(i) == IF i < Written THEN entries["eq"][0][i % EqSize] ELSE evq[i - Written + 1]
Pending(c) == \E i \in Served..(Raised - 1) : Event(i) = c

(* Functions and records have the domains they began with. *)
Grid(f, K) == f = [k \in K |-> [q \in Queues |-> f[k][q]]]
IsQueue(n) == /\ n = [active |-> n.active, armed |-> n.armed, head |-> n.head, tail |-> n.tail]
              /\ n.armed \in BOOLEAN
IsRing(r) == r = [head |-> r.head, tail |-> r.tail, clean |-> r.clean, info |-> r.info]
IsHandler(h) == h = [pc |-> h.pc, kind |-> h.kind, q |-> h.q, eq_tail |-> h.eq_tail,
                     count |-> h.count, pending |-> h.pending]

Shape ==
  /\ Grid(nic, Kinds) /\ Grid(ring, Kinds) /\ Grid(entries, Kinds) /\ Grid(inflight, {"rx", "tx"})
  /\ \A k \in Kinds, q \in Queues : IsQueue(nic[k][q])
  /\ \A k \in {"eq", "rxcq", "txcq"}, q \in Queues : IsRing(ring[k][q])
  /\ entries["eq"][0] = [i \in 0..(EqSize - 1) |-> entries["eq"][0][i]]
  /\ IsHandler(handler)
  /\ evq \in Seq(Cqs) /\ msi \in Nat /\ opener \in Nat \ {0}

EqInv ==
  /\ EqTail \in Nat /\ EqHead \in Nat /\ EqUsed \in 0..EqSize
  /\ nic["eq"][0].tail = EqTail % EqMod
  /\ nic["eq"][0].head = Written % EqMod
  /\ EqHead \in EqTail..Written /\ EqHead - EqTail <= 2 * NQ
  /\ Served \in EqTail..EqHead
  /\ handler.pc \in AtCq => Served < EqHead /\ Event(Served) = <<handler.kind, handler.q>>
  /\ handler.pc = "eq_tail" => Served = EqHead
  /\ nic["eq"][0].armed => EqUsed = 0
  /\ opener > 1 => nic["eq"][0].active
  /\ opener <= 2 => EqUsed = 0 /\ msi = 0 /\ handler.pc = "idle"
  /\ opener > 2 => nic["eq"][0].armed \/ msi > 0 \/ handler.pc # "idle"

CqInv ==
  /\ \A i \in Served..(Raised - 1) :
       /\ Event(i) \in Cqs /\ Opened(Event(i))
       /\ ~nic[Event(i)[1]][Event(i)[2]].armed
  /\ \A i, j \in Served..(Raised - 1) : Event(i) = Event(j) => i = j
  /\ \A c \in Cqs : Opened(c) => nic[c[1]][c[2]].armed \/ Pending(c)
  /\ \A c \in Cqs : nic[c[1]][c[2]].head # nic[c[1]][c[2]].tail => Pending(c)
  /\ \A c \in Cqs : ~Opened(c) =>
       /\ ~nic[c[1]][c[2]].armed
       /\ ring[c[1]][c[2]].head = ring[c[1]][c[2]].tail
       /\ inflight[RingOf(c[1])][c[2]] = <<>>
       /\ ~nic[RingOf(c[1])][c[2]].active

HostInv == closer.step \in Nat /\ (closer.step = 0 => Shape /\ EqInv /\ CqInv)

(* The components of a completion queue. *)
LEMMA CqParts ==
  ASSUME NEW c \in Cqs
  PROVE  /\ c[1] \in {"rxcq", "txcq"} /\ c[1] \in Kinds /\ c[1] # "eq" /\ c[2] \in Queues
         /\ c = <<c[1], c[2]>>
         /\ RingOf(c[1]) \in {"rx", "tx"} /\ RingOf(c[1]) \in Kinds
         /\ c[1] = "rxcq" => RingOf(c[1]) = "rx"
         /\ c[1] = "txcq" => RingOf(c[1]) = "tx"
BY DEF Cqs, Kinds, RingOf

(* The event queue's index, and the number of rings. *)
LEMMA Zero == /\ NQ \in Nat \ {0} /\ Queues = 0..(NQ - 1) /\ 0 \in Queues /\ "eq" \in Kinds
              /\ EqSize \in Nat \ {0} /\ EqMod \in Nat \ {0} /\ 4 * NQ <= EqSize /\ EqSize < EqMod
<1>1. NQ \in Nat \ {0} /\ Queues = 0..(NQ - 1) /\ 4 * NQ <= EqSize
  BY EventRingAssumption DEF NQ
<1>2. EqSize \in Nat /\ EqMod \in Nat /\ EqSize < EqMod
  BY EventRingAssumption
<1> QED  BY <1>1, <1>2 DEF Kinds

(* Open counts its steps from one, and the handler runs only once the event *)
(* queue was armed.                                                         *)
LEMMA OpenerNat ==
  ASSUME Shape
  PROVE  opener \in Nat /\ (opener > 2 <=> ~(opener <= 2)) /\ (opener > 2 => opener > 1)
<1>1. opener \in Nat
  BY Zenon DEF Shape
<1> QED  BY <1>1

LEMMA HandlerUp ==
  ASSUME Shape, EqInv, handler.pc # "idle" \/ msi # 0
  PROVE  opener > 2 /\ ~(opener <= 2) /\ opener > 1
BY Zenon, OpenerNat DEF EqInv

(* Arming a queue. *)
LEMMA ArmedQueue ==
  ASSUME NEW n, IsQueue(n), NEW x, x = Armed(n)
  PROVE  /\ IsQueue(x) /\ x.head = n.head /\ x.tail = n.tail /\ x.armed = (n.head = n.tail)
         /\ x.active = n.active
BY DEF IsQueue, Armed

(* One entry of a table changes. *)
Update(f, k, q, v) == [f EXCEPT ![k][q] = v]

LEMMA GridUpdate ==
  ASSUME NEW K, NEW f, Grid(f, K), NEW k \in K, NEW q \in Queues, NEW v,
         NEW g, g = Update(f, k, q, v)
  PROVE  /\ Grid(g, K)
         /\ \A i \in K, j \in Queues : g[i][j] = IF i = k /\ j = q THEN v ELSE f[i][j]
<1>1. \A i \in K : f[i] = [j \in Queues |-> f[i][j]]
  BY DEF Grid
<1>2. DOMAIN f = K
  BY DEF Grid
<1>3. \A i \in K : DOMAIN f[i] = Queues
  BY Zenon, <1>1
<1>4. f = [i \in K |-> f[i]]
  BY DEF Grid
<1>5. g = [i \in K |-> IF i = k THEN [f[k] EXCEPT ![q] = v] ELSE f[i]]
  BY Zenon, <1>2, <1>4 DEF Update
<1>6. [f[k] EXCEPT ![q] = v] = [j \in Queues |-> IF j = q THEN v ELSE f[k][j]]
  BY <1>1, <1>3
<1>7. \A i \in K, j \in Queues : g[i][j] = IF i = k /\ j = q THEN v ELSE f[i][j]
  BY <1>5, <1>6
<1>8. \A i \in K : g[i] = [j \in Queues |-> g[i][j]]
  <2> TAKE i \in K
  <2>1. CASE i = k
    <3>1. g[i] = [j \in Queues |-> IF j = q THEN v ELSE f[k][j]]
      BY <1>5, <1>6, <2>1
    <3> QED  BY <3>1
  <2>2. CASE i # k
    <3>1. g[i] = f[i]
      BY <1>5, <2>2
    <3> QED  BY <1>1, <3>1
  <2> QED  BY <2>1, <2>2
<1>9. g = [i \in K |-> g[i]]
  BY <1>5
<1>10. g = [i \in K |-> [j \in Queues |-> g[i][j]]]
  BY <1>8, <1>9
<1> QED  BY Zenon, <1>7, <1>10 DEF Grid

(***************************************************************************)
(* Steps that leave the events alone.                                      *)
(***************************************************************************)
SameEventRing ==
  /\ nic'["eq"][0].head = nic["eq"][0].head /\ nic'["eq"][0].tail = nic["eq"][0].tail
  /\ ring'["eq"][0].head = ring["eq"][0].head /\ ring'["eq"][0].tail = ring["eq"][0].tail
  /\ entries'["eq"][0] = entries["eq"][0]
  /\ evq' = evq

(* The numbering of the events stays. *)
LEMMA SameEvents ==
  ASSUME SameEventRing
  PROVE  /\ EqTail' = EqTail /\ EqHead' = EqHead /\ EqUsed' = EqUsed
         /\ Written' = Written /\ Raised' = Raised
         /\ \A i : Event(i)' = Event(i)
<1>1. EqTail' = EqTail /\ EqHead' = EqHead /\ EqUsed' = EqUsed
  BY DEF SameEventRing, EqTail, EqHead, EqUsed
<1>2. Written' = Written
  BY <1>1 DEF Written
<1>3. Raised' = Raised
  BY <1>2 DEF Raised, SameEventRing
<1>4. \A i : Event(i)' = Event(i)
  BY <1>2 DEF Event, SameEventRing
<1> QED  BY <1>1, <1>2, <1>3, <1>4

(* open stays, or goes on without arming a completion queue. *)
Ticks ==
  \/ opener' = opener
  \/ opener' = opener + 1 /\ \A c \in Cqs : ArmPos(c) # opener

LEMMA TicksNat ==
  ASSUME Shape, Ticks
  PROVE  opener' \in Nat \ {0}
<1>1. opener \in Nat \ {0} /\ (opener' = opener \/ opener' = opener + 1)
  BY Zenon DEF Shape, Ticks
<1> QED  BY <1>1

LEMMA TicksOpened ==
  ASSUME Shape, Ticks, NEW c \in Cqs
  PROVE  opener' > ArmPos(c) <=> opener > ArmPos(c)
<1>1. opener \in Nat
  BY DEF Shape
<1>2. ArmPos(c) \in Nat
  <2>1. c[2] \in Nat /\ NQ \in Nat
    BY CqParts, Zero
  <2> QED  BY <2>1 DEF ArmPos
<1>3. opener' = opener \/ (opener' = opener + 1 /\ ArmPos(c) # opener)
  BY DEF Ticks
<1> HIDE DEF ArmPos
<1> QED  BY <1>1, <1>2, <1>3

(* The completion queues keep their part of the invariant when no event is *)
(* raised or served, none is armed or disarmed, and only pointers of a     *)
(* queue that has an event move, or those of a queue that becomes empty.   *)
Calm ==
  /\ Ticks
  /\ \A c \in Cqs :
       /\ nic'[c[1]][c[2]].armed = nic[c[1]][c[2]].armed
       /\ \/ /\ nic'[c[1]][c[2]].head = nic[c[1]][c[2]].head
             /\ nic'[c[1]][c[2]].tail = nic[c[1]][c[2]].tail
          \/ nic'[c[1]][c[2]].head = nic'[c[1]][c[2]].tail
          \/ Pending(c)
       /\ ~Opened(c) =>
            /\ ring'[c[1]][c[2]].head = ring[c[1]][c[2]].head
            /\ ring'[c[1]][c[2]].tail = ring[c[1]][c[2]].tail
            /\ inflight'[RingOf(c[1])][c[2]] = inflight[RingOf(c[1])][c[2]]
            /\ nic'[RingOf(c[1])][c[2]].active = nic[RingOf(c[1])][c[2]].active

LEMMA CqCalm ==
  ASSUME Shape, CqInv, Calm, Served' = Served, Raised' = Raised,
         \A i \in Served..(Raised - 1) : Event(i)' = Event(i)
  PROVE  CqInv'
<1> DEFINE W == Served..(Raised - 1)
<1>1. (Served..(Raised - 1))' = W
  OBVIOUS
<1>2. \A c \in Cqs : opener' > ArmPos(c) <=> opener > ArmPos(c)
  BY Zenon, TicksOpened DEF Calm
<1>3. \A c : Pending(c)' <=> Pending(c)
  BY DEF Pending
<1>4. ASSUME NEW i \in W
      PROVE  /\ Event(i)' \in Cqs /\ opener' > ArmPos(Event(i)')
             /\ ~nic'[Event(i)'[1]][Event(i)'[2]].armed
  <2>1. Event(i) \in Cqs /\ opener > ArmPos(Event(i)) /\ ~nic[Event(i)[1]][Event(i)[2]].armed
    BY Zenon DEF CqInv, Opened
  <2>2. Event(i)' = Event(i)
    OBVIOUS
  <2>3. nic'[Event(i)[1]][Event(i)[2]].armed = nic[Event(i)[1]][Event(i)[2]].armed
    BY Zenon, <2>1 DEF Calm
  <2>4. opener' > ArmPos(Event(i))
    BY Zenon, <1>2, <2>1
  <2> QED  BY Zenon, <2>1, <2>2, <2>3, <2>4
<1>5. \A i, j \in W : Event(i)' = Event(j)' => i = j
  BY DEF CqInv
<1>6. ASSUME NEW c \in Cqs
      PROVE  /\ Opened(c)' => nic'[c[1]][c[2]].armed \/ Pending(c)'
             /\ nic'[c[1]][c[2]].head # nic'[c[1]][c[2]].tail => Pending(c)'
             /\ ~Opened(c)' =>
                  /\ ~nic'[c[1]][c[2]].armed
                  /\ ring'[c[1]][c[2]].head = ring'[c[1]][c[2]].tail
                  /\ inflight'[RingOf(c[1])][c[2]] = <<>>
                  /\ ~nic'[RingOf(c[1])][c[2]].active
  <2>1. Opened(c)' <=> Opened(c)
    BY <1>2 DEF Opened, ArmPos
  <2> QED  BY Zenon, <1>3, <2>1 DEF CqInv, Calm
<1>7. \A i \in W : (/\ Event(i) \in Cqs /\ Opened(Event(i))
                     /\ ~nic[Event(i)[1]][Event(i)[2]].armed)'
  BY <1>4 DEF Opened, ArmPos
<1> QED  BY Zenon, <1>1, <1>5, <1>6, <1>7 DEF CqInv

(* The handler stays where it is, or moves on at its completion queue. *)
SameEvent ==
  /\ handler'.kind = handler.kind /\ handler'.q = handler.q /\ handler'.eq_tail = handler.eq_tail
  /\ handler'.pc = handler.pc \/ (handler.pc \in AtCq /\ handler'.pc \in AtCq)

LEMMA Quiet ==
  ASSUME Shape, EqInv, CqInv, SameEventRing, Calm, SameEvent,
         nic'["eq"][0].active = nic["eq"][0].active, nic'["eq"][0].armed = nic["eq"][0].armed,
         msi' = msi, opener' = opener \/ opener > 2
  PROVE  EqInv' /\ CqInv'
<1>1. /\ EqTail' = EqTail /\ EqHead' = EqHead /\ EqUsed' = EqUsed
      /\ Written' = Written /\ Raised' = Raised
      /\ \A i : Event(i)' = Event(i)
  BY SameEvents
<1>2. Served' = Served
  BY <1>1 DEF Served, SameEvent
<1>3. CqInv'
  BY <1>1, <1>2, CqCalm
<1>4. (handler.pc \in AtCq <=> handler'.pc \in AtCq) /\ (handler.pc = "idle" <=> handler'.pc = "idle")
      /\ (handler.pc = "eq_tail" <=> handler'.pc = "eq_tail")
  BY DEF SameEvent, AtCq
<1>5. Event(Served)' = Event(Served) /\ <<handler'.kind, handler'.q>> = <<handler.kind, handler.q>>
  BY <1>1, <1>2 DEF SameEvent
<1>6. /\ opener' > 1 <=> opener > 1
      /\ opener' <= 2 <=> opener <= 2
      /\ opener' > 2 <=> opener > 2
  <2>1. opener \in Nat /\ (opener' = opener \/ (opener' = opener + 1 /\ opener > 2))
    BY Zenon DEF Calm, Ticks, Shape
  <2> QED  BY <2>1
<1> HIDE DEF EqTail, EqHead, EqUsed, Written, Raised, Served, Event, AtCq
<1>7. EqInv'
  BY <1>1, <1>2, <1>4, <1>5, <1>6 DEF EqInv, SameEventRing
<1> QED  BY <1>3, <1>7

(* A field of a queue changes. *)
LEMMA QueueUpdate ==
  ASSUME NEW n, IsQueue(n), NEW v
  PROVE  /\ LET x == [n EXCEPT !.head = v]
            IN  IsQueue(x) /\ x.active = n.active /\ x.armed = n.armed /\ x.head = v /\ x.tail = n.tail
         /\ LET x == [n EXCEPT !.tail = v]
            IN  IsQueue(x) /\ x.active = n.active /\ x.armed = n.armed /\ x.head = n.head /\ x.tail = v
         /\ v \in BOOLEAN =>
            LET x == [n EXCEPT !.armed = v]
            IN  IsQueue(x) /\ x.active = n.active /\ x.armed = v /\ x.head = n.head /\ x.tail = n.tail
BY DEF IsQueue

(* A table of which one entry may have changed. *)
Only(g, f, K, k, q) ==
  Grid(g, K) /\ \A i \in K, j \in Queues : i # k \/ j # q => g[i][j] = f[i][j]

LEMMA OnlyUpdate ==
  ASSUME NEW K, NEW f, Grid(f, K), NEW k \in K, NEW q \in Queues, NEW v,
         NEW g, g = Update(f, k, q, v)
  PROVE  Only(g, f, K, k, q) /\ g[k][q] = v
<1>1. /\ Grid(g, K)
      /\ \A i \in K, j \in Queues : g[i][j] = IF i = k /\ j = q THEN v ELSE f[i][j]
  BY GridUpdate
<1> QED  BY <1>1 DEF Only

LEMMA OnlySame ==
  ASSUME NEW K, NEW f, Grid(f, K), NEW k \in K, NEW q \in Queues
  PROVE  Only(f, f, K, k, q)
BY DEF Only

(* Steps that change one transmit or receive ring and leave everything     *)
(* else of the invariant alone, unless it is of a completion queue that    *)
(* was opened.                                                             *)
LEMMA RingStep ==
  ASSUME Shape, EqInv, CqInv, NEW k \in {"rx", "tx"}, NEW q \in Queues,
         Only(nic', nic, Kinds, k, q), IsQueue(nic'[k][q]),
         Only(ring', ring, Kinds, k, q),
         Only(entries', entries, Kinds, k, q),
         Only(inflight', inflight, {"rx", "tx"}, k, q),
         \/ nic'[k][q].active = nic[k][q].active /\ inflight'[k][q] = inflight[k][q]
         \/ Opened(<<CqOf(k), q>>),
         SameEvent, IsHandler(handler'), evq' = evq, msi' = msi, Ticks,
         opener' = opener \/ opener > 2
  PROVE  Shape' /\ EqInv' /\ CqInv'
<1>1. 0 \in Queues /\ "eq" \in Kinds /\ k # "eq"
  BY Zenon, Zero
<1>2. nic'["eq"][0] = nic["eq"][0] /\ ring'["eq"][0] = ring["eq"][0] /\ entries'["eq"][0] = entries["eq"][0]
  BY <1>1 DEF Only
<1>3. SameEventRing
  BY Zenon, <1>2 DEF SameEventRing
<1>4. ASSUME NEW c \in Cqs
      PROVE  /\ nic'[c[1]][c[2]] = nic[c[1]][c[2]]
             /\ ring'[c[1]][c[2]] = ring[c[1]][c[2]]
             /\ ~Opened(c) =>
                  /\ inflight'[RingOf(c[1])][c[2]] = inflight[RingOf(c[1])][c[2]]
                  /\ nic'[RingOf(c[1])][c[2]].active = nic[RingOf(c[1])][c[2]].active
  <2>1. /\ c[1] \in {"rxcq", "txcq"} /\ c[1] \in Kinds /\ c[1] # k /\ c[2] \in Queues
        /\ c = <<c[1], c[2]>>
        /\ RingOf(c[1]) \in {"rx", "tx"} /\ RingOf(c[1]) \in Kinds
    BY Zenon, CqParts
  <2>2. nic'[c[1]][c[2]] = nic[c[1]][c[2]] /\ ring'[c[1]][c[2]] = ring[c[1]][c[2]]
    BY <2>1 DEF Only
  <2>3. ASSUME ~Opened(c)
        PROVE  /\ inflight'[RingOf(c[1])][c[2]] = inflight[RingOf(c[1])][c[2]]
               /\ nic'[RingOf(c[1])][c[2]].active = nic[RingOf(c[1])][c[2]].active
    <3>1. CASE RingOf(c[1]) = k /\ c[2] = q
      <4>1. c = <<CqOf(k), q>>
        BY Zenon, <2>1, <3>1 DEF RingOf, CqOf
      <4> QED  BY Zenon, <2>3, <3>1, <4>1
    <3>2. CASE RingOf(c[1]) # k \/ c[2] # q
      BY <2>1, <3>2 DEF Only
    <3> QED  BY Zenon, <3>1, <3>2
  <2> QED  BY Zenon, <2>2, <2>3
<1>5. Calm
  BY Zenon, <1>4 DEF Calm
<1>6. EqInv' /\ CqInv'
  BY Zenon, <1>2, <1>3, <1>5, Quiet
<1>7. Shape'
  <2>1. Grid(nic', Kinds) /\ Grid(ring', Kinds) /\ Grid(entries', Kinds) /\ Grid(inflight', {"rx", "tx"})
    BY Zenon DEF Only
  <2>2. \A i \in Kinds, j \in Queues : IsQueue(nic'[i][j])
    <3> TAKE i \in Kinds, j \in Queues
    <3>1. CASE i = k /\ j = q
      BY Zenon, <3>1
    <3>2. CASE i # k \/ j # q
      <4>1. nic'[i][j] = nic[i][j]
        BY Zenon, <3>2 DEF Only
      <4> QED  BY Zenon, <4>1 DEF Shape
    <3> QED  BY Zenon, <3>1, <3>2
  <2>3. \A i \in {"eq", "rxcq", "txcq"}, j \in Queues : IsRing(ring'[i][j])
    <3> TAKE i \in {"eq", "rxcq", "txcq"}, j \in Queues
    <3>1. ring'[i][j] = ring[i][j]
      BY DEF Only, Kinds
    <3> QED  BY Zenon, <3>1 DEF Shape
  <2>4. opener' \in Nat \ {0}
    BY Zenon, TicksNat
  <2> QED  BY Zenon, <1>2, <2>1, <2>2, <2>3, <2>4 DEF Shape
<1> QED  BY Zenon, <1>6, <1>7

(* start_xmit. *)
LEMMA XmitStep ==
  ASSUME Shape, EqInv, CqInv, NEW q \in Queues, start_xmit(q)
  PROVE  Shape' /\ EqInv' /\ CqInv'
<1> DEFINE i == Slot(ring["tx"][q].head)
           pkt == NextPkt(Buffers)
           r1 == [ring EXCEPT !["tx"][q].info[i] = pkt]
<1>1. /\ nic' = nic /\ evq' = evq /\ msi' = msi /\ inflight' = inflight /\ handler' = handler
      /\ opener' = opener
      /\ entries' = Update(entries, "tx", q, [entries["tx"][q] EXCEPT ![i] = pkt])
      /\ r1 = Update(ring, "tx", q, [ring["tx"][q] EXCEPT !.info[i] = pkt])
      /\ ring' = Update(r1, "tx", q, [r1["tx"][q] EXCEPT !.head = @ + 1])
  BY DEF start_xmit, Update
<1>2. /\ Grid(nic, Kinds) /\ Grid(ring, Kinds) /\ Grid(entries, Kinds)
      /\ Grid(inflight, {"rx", "tx"}) /\ "tx" \in Kinds
  BY Zenon DEF Shape, Kinds
<1>3. Only(nic', nic, Kinds, "tx", q) /\ Only(inflight', inflight, {"rx", "tx"}, "tx", q)
  BY Zenon, <1>1, <1>2, OnlySame
<1> HIDE DEF i, pkt
<1>4. Only(entries', entries, Kinds, "tx", q)
  BY <1>1, <1>2, OnlyUpdate
<1> HIDE DEF r1
<1>5. Only(r1, ring, Kinds, "tx", q)
  BY <1>1, <1>2, OnlyUpdate
<1>6. Only(ring', r1, Kinds, "tx", q)
  <2>1. Grid(r1, Kinds)
    BY Zenon, <1>5 DEF Only
  <2> DEFINE w == [r1["tx"][q] EXCEPT !.head = @ + 1]
  <2>2. ring' = Update(r1, "tx", q, w)
    BY Zenon, <1>1
  <2> HIDE DEF w
  <2> QED  BY <1>2, <2>1, <2>2, OnlyUpdate
<1>7. Only(ring', ring, Kinds, "tx", q)
  BY <1>5, <1>6 DEF Only
<1>8. IsQueue(nic'["tx"][q]) /\ IsHandler(handler') /\ SameEvent
  BY Zenon, <1>1, <1>2 DEF Shape, SameEvent
<1> QED  BY Zenon, <1>1, <1>3, <1>4, <1>7, <1>8, RingStep DEF Ticks

(* write_head_ptr. *)
LEMMA DoorbellStep ==
  ASSUME Shape, EqInv, CqInv, NEW q \in Queues, write_head_ptr(q)
  PROVE  Shape' /\ EqInv' /\ CqInv'
<1> DEFINE v == Ptr(Head(doorbell[q]))
           n == nic["tx"][q]
<1>1. /\ evq' = evq /\ msi' = msi /\ inflight' = inflight /\ handler' = handler
      /\ opener' = opener /\ entries' = entries /\ ring' = ring
      /\ nic' = Update(nic, "tx", q, [n EXCEPT !.head = v])
  BY DEF write_head_ptr, Update
<1>2. /\ Grid(nic, Kinds) /\ Grid(ring, Kinds) /\ Grid(entries, Kinds)
      /\ Grid(inflight, {"rx", "tx"}) /\ "tx" \in Kinds /\ IsQueue(n)
  BY Zenon DEF Shape, Kinds
<1>3. /\ Only(inflight', inflight, {"rx", "tx"}, "tx", q)
      /\ Only(ring', ring, Kinds, "tx", q) /\ Only(entries', entries, Kinds, "tx", q)
  BY <1>1, <1>2, OnlySame
<1> HIDE DEF v
<1>4. IsQueue([n EXCEPT !.head = v]) /\ [n EXCEPT !.head = v].active = n.active
  BY ZenonT(40), <1>2, QueueUpdate
<1>5. Only(nic', nic, Kinds, "tx", q) /\ nic'["tx"][q] = [n EXCEPT !.head = v]
  BY <1>1, <1>2, OnlyUpdate
<1>6. IsHandler(handler') /\ SameEvent
  BY <1>1 DEF Shape, SameEvent
<1> QED  BY Zenon, <1>1, <1>3, <1>4, <1>5, <1>6, RingStep DEF Ticks

(* A ring that is active has its completion queue armed. *)
LEMMA ActiveOpened ==
  ASSUME CqInv, NEW k \in {"rx", "tx"}, NEW q \in Queues,
         nic[k][q].active \/ inflight[k][q] # <<>>
  PROVE  <<CqOf(k), q>> \in Cqs /\ Opened(<<CqOf(k), q>>)
<1> DEFINE c == <<CqOf(k), q>>
<1>1. c \in Cqs /\ RingOf(c[1]) = k /\ c[2] = q
  BY DEF Cqs, CqOf, RingOf
<1>2. ~Opened(c) => inflight[RingOf(c[1])][c[2]] = <<>> /\ ~nic[RingOf(c[1])][c[2]].active
  <2> HIDE DEF c
  <2> QED  BY Zenon, <1>1 DEF CqInv
<1> HIDE DEF c
<1>3. Opened(c)
  BY Zenon, <1>1, <1>2
<1> QED  BY Zenon, <1>1, <1>3 DEF c

(* NicTake. *)
LEMMA TakeStep ==
  ASSUME Shape, EqInv, CqInv, NEW k \in {"rx", "tx"}, NEW q \in Queues, NicTake(k, q)
  PROVE  Shape' /\ EqInv' /\ CqInv'
<1> DEFINE n == nic[k][q]
           v == Ptr(n.tail + 1)
<1>1. /\ evq' = evq /\ msi' = msi /\ handler' = handler
      /\ opener' = opener /\ entries' = entries /\ ring' = ring
      /\ nic' = Update(nic, k, q, [n EXCEPT !.tail = v])
      /\ inflight' = Update(inflight, k, q, Append(inflight[k][q], n.tail))
      /\ n.active
  BY Zenon DEF NicTake, Driver, Update
<1>2. /\ Grid(nic, Kinds) /\ Grid(ring, Kinds) /\ Grid(entries, Kinds)
      /\ Grid(inflight, {"rx", "tx"}) /\ k \in Kinds /\ IsQueue(n)
  BY DEF Shape, Kinds
<1>3. Only(ring', ring, Kinds, k, q) /\ Only(entries', entries, Kinds, k, q)
  BY <1>1, <1>2, OnlySame
<1> HIDE DEF v
<1>4. IsQueue([n EXCEPT !.tail = v])
  BY Zenon, <1>2, QueueUpdate
<1>5. Only(nic', nic, Kinds, k, q) /\ nic'[k][q] = [n EXCEPT !.tail = v]
  BY <1>1, <1>2, OnlyUpdate
<1>6. Only(inflight', inflight, {"rx", "tx"}, k, q)
  BY <1>1, <1>2, OnlyUpdate
<1>7. IsHandler(handler') /\ SameEvent
  BY Zenon, <1>1 DEF Shape, SameEvent
<1>8. Opened(<<CqOf(k), q>>)
  BY <1>1, ActiveOpened
<1> QED  BY Zenon, <1>1, <1>3, <1>4, <1>5, <1>6, <1>7, <1>8, RingStep DEF Ticks

(***************************************************************************)
(* The handler at a completion queue.                                      *)
(***************************************************************************)
(* The order of the positions. *)
LEMMA Bounds ==
  ASSUME Shape, EqInv
  PROVE  /\ EqTail \in Nat /\ EqHead \in Nat /\ EqUsed \in Nat /\ Written \in Nat
         /\ Served \in Nat /\ Raised \in Nat /\ Len(evq) \in Nat
         /\ EqTail <= Served /\ Served <= EqHead /\ EqHead <= Written /\ Written <= Raised
         /\ Written = EqTail + EqUsed /\ Raised = Written + Len(evq)
         /\ EqUsed <= EqSize
<1>1. Len(evq) \in Nat
  BY DEF Shape
<1>2. EqTail \in Nat /\ EqUsed \in Nat /\ EqUsed <= EqSize /\ Written = EqTail + EqUsed
  BY Zero DEF EqInv, Written
<1>3. EqHead \in Nat /\ EqHead <= Written /\ EqTail <= EqHead
  BY <1>2 DEF EqInv
<1>4. Served \in Nat /\ EqTail <= Served /\ Served <= EqHead
  BY <1>2, <1>3 DEF EqInv
<1>5. Raised = Written + Len(evq)
  BY DEF Raised
<1> HIDE DEF EqTail, EqHead, EqUsed, Written, Served, Raised
<1> QED  BY <1>1, <1>2, <1>3, <1>4, <1>5

(* It is there for an event that is pending. *)
LEMMA AtEvent ==
  ASSUME Shape, EqInv, CqInv, handler.pc \in AtCq, NEW c, c = <<handler.kind, handler.q>>
  PROVE  /\ c \in Cqs /\ c[1] = handler.kind /\ c[2] = handler.q
         /\ Served \in Served..(Raised - 1) /\ Event(Served) = c
         /\ Opened(c) /\ Pending(c) /\ ~nic[c[1]][c[2]].armed
<1>1. Served \in Served..(Raised - 1) /\ Event(Served) = c
  BY Bounds DEF EqInv
<1> HIDE DEF Served, Raised, Event
<1>2. c \in Cqs /\ Opened(c) /\ ~nic[c[1]][c[2]].armed
  BY Zenon, <1>1 DEF CqInv
<1>3. Pending(c)
  BY <1>1 DEF Pending
<1> QED  BY <1>1, <1>2, <1>3

(* Tables in which only the queue of the handler and its ring change. *)
OnlyHere(g, f) ==
  /\ Grid(g, Kinds)
  /\ \A i \in Kinds, j \in Queues :
       i \notin {handler.kind, RingOf(handler.kind)} \/ j # handler.q => g[i][j] = f[i][j]

LEMMA HereStep ==
  ASSUME Shape, EqInv, CqInv, handler.pc \in AtCq, handler'.pc \in AtCq, SameEvent,
         IsHandler(handler'), OnlyHere(nic', nic), OnlyHere(ring', ring), OnlyHere(entries', entries),
         nic'[handler.kind][handler.q].armed = nic[handler.kind][handler.q].armed,
         IsQueue(nic'[handler.kind][handler.q]), IsQueue(nic'[RingOf(handler.kind)][handler.q]),
         IsRing(ring'[handler.kind][handler.q]),
         inflight' = inflight, evq' = evq, msi' = msi, opener' = opener
  PROVE  Shape' /\ EqInv' /\ CqInv'
<1> DEFINE d == <<handler.kind, handler.q>>
<1>1. d \in Cqs /\ d[1] = handler.kind /\ d[2] = handler.q /\ Opened(d) /\ Pending(d)
  BY Zenon, AtEvent
<1>2. /\ handler.kind \in {"rxcq", "txcq"} /\ handler.q \in Queues
      /\ RingOf(handler.kind) \in {"rx", "tx"}
  BY Zenon, <1>1, CqParts
<1>3. nic'["eq"][0] = nic["eq"][0] /\ ring'["eq"][0] = ring["eq"][0] /\ entries'["eq"][0] = entries["eq"][0]
  <2>1. "eq" \in Kinds /\ 0 \in Queues /\ "eq" \notin {handler.kind, RingOf(handler.kind)}
    BY <1>2, Zero
  <2> QED  BY Zenon, <2>1 DEF OnlyHere
<1>4. SameEventRing
  BY Zenon, <1>3 DEF SameEventRing
<1> HIDE DEF d
<1>5. ASSUME NEW c \in Cqs
      PROVE  /\ nic'[c[1]][c[2]].armed = nic[c[1]][c[2]].armed
             /\ \/ nic'[c[1]][c[2]] = nic[c[1]][c[2]]
                \/ Pending(c)
             /\ ~Opened(c) =>
                  /\ ring'[c[1]][c[2]] = ring[c[1]][c[2]]
                  /\ nic'[RingOf(c[1])][c[2]] = nic[RingOf(c[1])][c[2]]
  <2>1. /\ c[1] \in {"rxcq", "txcq"} /\ c[1] \in Kinds /\ c[2] \in Queues /\ c = <<c[1], c[2]>>
        /\ RingOf(c[1]) \in {"rx", "tx"} /\ RingOf(c[1]) \in Kinds
    BY Zenon, CqParts
  <2>2. CASE c = d
    BY Zenon, <1>1, <2>2
  <2>3. CASE c # d
    <3>1. c[1] # handler.kind \/ c[2] # handler.q
      BY Zenon, <2>1, <2>3 DEF d
    <3>2. nic'[c[1]][c[2]] = nic[c[1]][c[2]] /\ ring'[c[1]][c[2]] = ring[c[1]][c[2]]
      BY <1>2, <2>1, <3>1 DEF OnlyHere
    <3>3. RingOf(c[1]) # RingOf(handler.kind) \/ c[2] # handler.q
      BY Zenon, <1>2, <2>1, <3>1 DEF RingOf
    <3>4. nic'[RingOf(c[1])][c[2]] = nic[RingOf(c[1])][c[2]]
      BY <1>2, <2>1, <3>3 DEF OnlyHere
    <3> QED  BY Zenon, <3>2, <3>4
  <2> QED  BY Zenon, <2>2, <2>3
<1>6. Calm
  BY Zenon, <1>5 DEF Calm, Ticks
<1>7. EqInv' /\ CqInv'
  BY Zenon, <1>3, <1>4, <1>6, Quiet
<1>8. Shape'
  <2>1. Grid(nic', Kinds) /\ Grid(ring', Kinds) /\ Grid(entries', Kinds)
    BY Zenon DEF OnlyHere
  <2>2. \A i \in Kinds, j \in Queues : IsQueue(nic'[i][j])
    <3> TAKE i \in Kinds, j \in Queues
    <3>1. CASE i \in {handler.kind, RingOf(handler.kind)} /\ j = handler.q
      BY Zenon, <3>1
    <3>2. CASE i \notin {handler.kind, RingOf(handler.kind)} \/ j # handler.q
      <4>1. nic'[i][j] = nic[i][j]
        BY Zenon, <3>2 DEF OnlyHere
      <4> QED  BY Zenon, <4>1 DEF Shape
    <3> QED  BY Zenon, <3>1, <3>2
  <2>3. \A i \in {"eq", "rxcq", "txcq"}, j \in Queues : IsRing(ring'[i][j])
    <3> TAKE i \in {"eq", "rxcq", "txcq"}, j \in Queues
    <3>1. CASE i = handler.kind /\ j = handler.q
      BY Zenon, <3>1
    <3>2. CASE i # handler.kind \/ j # handler.q
      <4>1. ring'[i][j] = ring[i][j]
        <5>1. i \in Kinds /\ (i \notin {handler.kind, RingOf(handler.kind)} \/ j # handler.q)
          BY <1>2, <3>2 DEF Kinds
        <5> QED  BY Zenon, <5>1 DEF OnlyHere
      <4> QED  BY Zenon, <4>1 DEF Shape
    <3> QED  BY Zenon, <3>1, <3>2
  <2> QED  BY Zenon, <1>3, <2>1, <2>2, <2>3 DEF Shape
<1> QED  BY Zenon, <1>7, <1>8

LEMMA HereSame ==
  ASSUME NEW f, Grid(f, Kinds)
  PROVE  OnlyHere(f, f)
BY DEF OnlyHere

LEMMA HereUpdate ==
  ASSUME NEW f, NEW g, NEW k \in Kinds, k \in {handler.kind, RingOf(handler.kind)},
         handler.q \in Queues, Only(g, f, Kinds, k, handler.q)
  PROVE  OnlyHere(g, f)
BY DEF OnlyHere, Only

LEMMA HereTwice ==
  ASSUME NEW f, NEW g, NEW h, OnlyHere(g, f), OnlyHere(h, g)
  PROVE  OnlyHere(h, f)
BY DEF OnlyHere

(* The handler moves on. *)
Moves(h, g, p, n) == g \in {[h EXCEPT !.pc = p], [h EXCEPT !.pc = p, !.count = n]}

LEMMA HandlerMoves ==
  ASSUME Shape, handler.pc \in AtCq, NEW p \in AtCq, NEW n, Moves(handler, handler', p, n)
  PROVE  IsHandler(handler') /\ SameEvent /\ handler'.pc = p
<1>1. IsHandler(handler)
  BY Zenon DEF Shape
<1>2. /\ handler'.pc = p /\ handler'.kind = handler.kind /\ handler'.q = handler.q
      /\ handler'.eq_tail = handler.eq_tail /\ IsHandler(handler')
  BY Zenon, <1>1 DEF IsHandler, Moves
<1> QED  BY <1>2 DEF SameEvent

(* process_tx_cq and process_rx_cq, up to the write of the tail pointer. *)
LEMMA ServeStep ==
  ASSUME Shape, EqInv, CqInv, process_tx_cq \/ process_rx_cq
  PROVE  Shape' /\ EqInv' /\ CqInv'
<1> DEFINE k == handler.kind
           q == handler.q
           cq == [ring[k][q] EXCEPT !.head = ReadPtr(@, nic[k][q].head)]
<1>1. handler.pc \in AtCq /\ "cq_tail" \in AtCq
  BY Zenon DEF process_tx_cq, process_rx_cq, AtCq
<1>2. /\ nic' = nic /\ entries' = entries /\ evq' = evq /\ msi' = msi /\ inflight' = inflight
      /\ opener' = opener
      /\ \E n, r : /\ ring' = [ring EXCEPT ![k][q] = [cq EXCEPT !.tail = @ + n], ![RingOf(k)][q] = r]
                   /\ Moves(handler, handler', "cq_tail", n)
  <2>1. CASE process_tx_cq
    <3> DEFINE c == [ring["txcq"][q] EXCEPT !.head = ReadPtr(@, nic["txcq"][q].head)]
               n == c.head - c.tail
               w == ServeTx(ring["tx"][q], c, entries["txcq"][q])[n]
    <3>1. /\ nic' = nic /\ entries' = entries /\ evq' = evq /\ msi' = msi /\ inflight' = inflight
          /\ opener' = opener
          /\ ring' = [ring EXCEPT !["txcq"][q] = [c EXCEPT !.tail = @ + n], !["tx"][q] = w.r]
          /\ handler' = [handler EXCEPT !.pc = "cq_tail"]
      BY Zenon, <2>1 DEF process_tx_cq
    <3>2. k = "txcq" /\ RingOf(k) = "tx" /\ cq = c
      BY Zenon, <2>1 DEF process_tx_cq, RingOf
    <3>3. Moves(handler, handler', "cq_tail", n)
      BY Zenon, <3>1 DEF Moves
    <3> HIDE DEF n, w, c, cq, k, q
    <3> QED  BY Zenon, <3>1, <3>2, <3>3
  <2>2. CASE process_rx_cq
    <3> DEFINE c == [ring["rxcq"][q] EXCEPT !.head = ReadPtr(@, nic["rxcq"][q].head)]
               n == IF c.head - c.tail < max_count THEN c.head - c.tail ELSE max_count
               w == ServeRx(ring["rx"][q], c, entries["rxcq"][q])[n]
    <3>1. /\ nic' = nic /\ entries' = entries /\ evq' = evq /\ msi' = msi /\ inflight' = inflight
          /\ opener' = opener
          /\ ring' = [ring EXCEPT !["rxcq"][q] = [c EXCEPT !.tail = @ + n], !["rx"][q] = w.r]
          /\ handler' = [handler EXCEPT !.pc = "cq_tail", !.count = n]
      BY Zenon, <2>2 DEF process_rx_cq
    <3>2. k = "rxcq" /\ RingOf(k) = "rx" /\ cq = c
      BY Zenon, <2>2 DEF process_rx_cq, RingOf
    <3>3. Moves(handler, handler', "cq_tail", n)
      BY Zenon, <3>1 DEF Moves
    <3> HIDE DEF n, w, c, cq, k, q
    <3> QED  BY Zenon, <3>1, <3>2, <3>3
  <2> QED  BY Zenon, <2>1, <2>2
<1>3. PICK n, r :
        /\ ring' = [ring EXCEPT ![k][q] = [cq EXCEPT !.tail = @ + n], ![RingOf(k)][q] = r]
        /\ Moves(handler, handler', "cq_tail", n)
  BY Zenon, <1>2
<1>4. IsHandler(handler') /\ SameEvent /\ handler'.pc \in AtCq
  BY Zenon, <1>1, <1>3, HandlerMoves
<1> DEFINE v == [cq EXCEPT !.tail = @ + n]
           r1 == Update(ring, k, q, v)
<1>5. ring' = Update(r1, RingOf(k), q, r)
  BY Zenon, <1>3 DEF Update
<1>6. <<k, q>> \in Cqs
  BY Zenon, <1>1, AtEvent
<1>7. /\ k \in {"rxcq", "txcq"} /\ k \in Kinds /\ q \in Queues
      /\ RingOf(k) \in Kinds /\ RingOf(k) # k
  BY <1>6, CqParts
<1>8. IsRing(v)
  <2>1. IsRing(ring[k][q])
    BY Zenon, <1>7 DEF Shape
  <2>2. IsRing(cq)
    <3> DEFINE x == ReadPtr(ring[k][q].head, nic[k][q].head)
               o == ring[k][q]
    <3>1. cq = [o EXCEPT !.head = x] /\ IsRing(o)
      BY <2>1
    <3> HIDE DEF x, o, cq
    <3> QED  BY <3>1 DEF IsRing
  <2> HIDE DEF cq
  <2> QED  BY <2>2 DEF IsRing
<1> HIDE DEF v
<1>9. Only(r1, ring, Kinds, k, q) /\ r1[k][q] = v
  <2>1. Grid(ring, Kinds) /\ r1 = Update(ring, k, q, v)
    BY Zenon DEF Shape
  <2> HIDE DEF r1, k, q
  <2> QED  BY <1>7, <2>1, OnlyUpdate
<1> HIDE DEF r1
<1>10. Only(ring', r1, Kinds, RingOf(k), q)
  <2>1. Grid(r1, Kinds)
    BY <1>9 DEF Only
  <2> QED  BY <1>5, <1>7, <2>1, OnlyUpdate
<1>11. OnlyHere(ring', ring) /\ IsRing(ring'[k][q])
  <2>1. OnlyHere(r1, ring) /\ OnlyHere(ring', r1)
    BY Zenon, <1>7, <1>9, <1>10, HereUpdate
  <2>2. ring'[k][q] = v
    BY <1>7, <1>9, <1>10 DEF Only
  <2> QED  BY Zenon, <1>8, <2>1, <2>2, HereTwice
<1>12. OnlyHere(nic', nic) /\ OnlyHere(entries', entries)
  BY Zenon, <1>2, HereSame DEF Shape
<1>13. IsQueue(nic'[k][q]) /\ IsQueue(nic'[RingOf(k)][q]) /\ nic'[k][q].armed = nic[k][q].armed
  BY Zenon, <1>2, <1>7 DEF Shape
<1> QED  BY Zenon, <1>1, <1>2, <1>4, <1>11, <1>12, <1>13, HereStep

(* CqRing.write_tail_ptr. *)
LEMMA WriteTailStep ==
  ASSUME Shape, EqInv, CqInv, CqWriteTail
  PROVE  Shape' /\ EqInv' /\ CqInv'
<1> DEFINE k == handler.kind
           q == handler.q
           n == nic[k][q]
           v == Ptr(ring[k][q].tail)
           p == IF handler.kind = "rxcq" THEN "feedback" ELSE "ring_read"
<1>1. handler.pc \in AtCq /\ p \in AtCq
  BY Zenon DEF CqWriteTail, AtCq
<1>2. /\ ring' = ring /\ entries' = entries /\ evq' = evq /\ msi' = msi /\ inflight' = inflight
      /\ opener' = opener /\ handler' = [handler EXCEPT !.pc = p]
      /\ nic' = Update(nic, k, q, [n EXCEPT !.tail = v])
  BY Zenon DEF CqWriteTail, Update
<1> HIDE DEF p, v
<1>3. IsHandler(handler') /\ SameEvent /\ handler'.pc \in AtCq
  <2>1. Moves(handler, handler', p, 0)
    BY Zenon, <1>2 DEF Moves
  <2> QED  BY <1>1, <2>1, HandlerMoves
<1>4. <<k, q>> \in Cqs
  BY Zenon, <1>1, AtEvent
<1>5. /\ k \in {"rxcq", "txcq"} /\ k \in Kinds /\ q \in Queues
      /\ RingOf(k) \in Kinds /\ RingOf(k) # k
  BY Zenon, <1>4, CqParts
<1>6. IsQueue([n EXCEPT !.tail = v]) /\ [n EXCEPT !.tail = v].armed = n.armed
  <2>1. IsQueue(n)
    BY Zenon, <1>5 DEF Shape
  <2> HIDE DEF n
  <2> QED  BY Zenon, <2>1, QueueUpdate
<1>7. Only(nic', nic, Kinds, k, q) /\ nic'[k][q] = [n EXCEPT !.tail = v]
  <2>1. Grid(nic, Kinds)
    BY Zenon DEF Shape
  <2> HIDE DEF n, k, q
  <2> QED  BY <1>2, <1>5, <2>1, OnlyUpdate
<1>8. OnlyHere(nic', nic)
  BY <1>5, <1>7, HereUpdate
<1>9. OnlyHere(ring', ring) /\ OnlyHere(entries', entries)
  BY Zenon, <1>2, HereSame DEF Shape
<1>10. IsQueue(nic'[RingOf(k)][q])
  <2>1. nic'[RingOf(k)][q] = nic[RingOf(k)][q]
    BY <1>5, <1>7 DEF Only
  <2> QED  BY Zenon, <1>5, <2>1 DEF Shape
<1>11. IsRing(ring'[k][q])
  BY Zenon, <1>2, <1>5 DEF Shape
<1> QED  BY Zenon, <1>1, <1>2, <1>3, <1>6, <1>7, <1>8, <1>9, <1>10, <1>11, HereStep

(* task_feedback, and the rest of process_tx_cq and process_rx_cq. *)
LEMMA RestStep ==
  ASSUME Shape, EqInv, CqInv, task_feedback \/ ReadTail
  PROVE  Shape' /\ EqInv' /\ CqInv'
<1> DEFINE k == handler.kind
           q == handler.q
<1>1. /\ handler.pc \in AtCq
      /\ nic' = nic /\ evq' = evq /\ msi' = msi /\ inflight' = inflight /\ opener' = opener
      /\ \E p \in AtCq : handler' = [handler EXCEPT !.pc = p]
      /\ \/ ring' = ring /\ entries' = entries
         \/ \E r, d : /\ ring' = Update(ring, RingOf(k), q, r)
                      /\ entries' = Update(entries, RingOf(k), q, d)
  <2>1. CASE task_feedback
    BY <2>1 DEF task_feedback, AtCq
  <2>2. CASE ReadTail
    <3> DEFINE j == RingOf(handler.kind)
               r == Cleaned([ring[j][q] EXCEPT !.tail = ReadPtr(@, nic[j][q].tail)])
               w == IF j = "rx" THEN refill_buffers(With(r, entries[j][q], Buffers))
                    ELSE With(r, entries[j][q], Buffers)
               p == IF w.r.head # r.head THEN "ring_head" ELSE "cq_arm"
    <3>1. /\ handler.pc = "ring_read"
          /\ nic' = nic /\ evq' = evq /\ msi' = msi /\ inflight' = inflight /\ opener' = opener
          /\ handler' = [handler EXCEPT !.pc = p]
          /\ ring' = Update(ring, j, q, w.r)
          /\ entries' = Update(entries, j, q, w.d)
      BY Zenon, <2>2 DEF ReadTail, Update
    <3>2. p \in AtCq /\ handler.pc \in AtCq
      BY Zenon, <3>1 DEF AtCq
    <3> HIDE DEF p, w, r
    <3> QED  BY <3>1, <3>2
  <2> QED  BY Zenon, <2>1, <2>2
<1>2. IsHandler(handler') /\ SameEvent /\ handler'.pc \in AtCq
  <2>1. PICK p \in AtCq : handler' = [handler EXCEPT !.pc = p]
    BY <1>1
  <2>2. Moves(handler, handler', p, 0)
    BY <2>1 DEF Moves
  <2> QED  BY <1>1, <2>2, HandlerMoves
<1>3. <<k, q>> \in Cqs
  BY <1>1, AtEvent
<1>4. /\ k \in {"rxcq", "txcq"} /\ k \in Kinds /\ q \in Queues
      /\ RingOf(k) \in Kinds /\ RingOf(k) # k
  BY Zenon, <1>3, CqParts
<1>5. OnlyHere(nic', nic)
  BY <1>1, HereSame DEF Shape
<1>6. IsQueue(nic'[k][q]) /\ IsQueue(nic'[RingOf(k)][q]) /\ nic'[k][q].armed = nic[k][q].armed
  BY Zenon, <1>1, <1>4 DEF Shape
<1>7. OnlyHere(ring', ring) /\ OnlyHere(entries', entries) /\ IsRing(ring'[k][q])
  <2>1. CASE ring' = ring /\ entries' = entries
    BY Zenon, <1>4, <2>1, HereSame DEF Shape
  <2>2. CASE \E r, d : /\ ring' = Update(ring, RingOf(k), q, r)
                       /\ entries' = Update(entries, RingOf(k), q, d)
    <3>1. PICK r, d : /\ ring' = Update(ring, RingOf(k), q, r)
                      /\ entries' = Update(entries, RingOf(k), q, d)
      BY Zenon, <2>2
    <3>2. Grid(ring, Kinds) /\ Grid(entries, Kinds)
      BY Zenon DEF Shape
    <3>3. Only(ring', ring, Kinds, RingOf(k), q)
      BY <1>4, <3>1, <3>2, OnlyUpdate
    <3>4. Only(entries', entries, Kinds, RingOf(k), q)
      BY <1>4, <3>1, <3>2, OnlyUpdate
    <3>5. ring'[k][q] = ring[k][q]
      BY Zenon, <1>4, <3>3 DEF Only
    <3> QED  BY Zenon, <1>4, <3>3, <3>4, <3>5, HereUpdate DEF Shape
  <2> QED  BY Zenon, <1>1, <2>1, <2>2
<1> QED  BY Zenon, <1>1, <1>2, <1>5, <1>6, <1>7, HereStep

(* RxRing.write_head_ptr. *)
LEMMA RxHeadStep ==
  ASSUME Shape, EqInv, CqInv, RxWriteHead
  PROVE  Shape' /\ EqInv' /\ CqInv'
<1> DEFINE q == handler.q
           n == nic["rx"][q]
           v == Ptr(ring["rx"][q].head)
<1>1. /\ ring' = ring /\ entries' = entries /\ evq' = evq /\ msi' = msi /\ inflight' = inflight
      /\ opener' = opener /\ handler' = [handler EXCEPT !.pc = "cq_arm"]
      /\ nic' = Update(nic, "rx", q, [n EXCEPT !.head = v])
      /\ handler.pc \in AtCq /\ "cq_arm" \in AtCq
  BY DEF RxWriteHead, Update, AtCq
<1> HIDE DEF v
<1>2. IsHandler(handler') /\ SameEvent
  <2>1. Moves(handler, handler', "cq_arm", 0)
    BY <1>1 DEF Moves
  <2> QED  BY <1>1, <2>1, HandlerMoves
<1>3. <<handler.kind, q>> \in Cqs
  BY <1>1, AtEvent
<1>4. q \in Queues /\ "rx" \in Kinds
  BY <1>3 DEF Cqs, Kinds
<1>5. IsQueue([n EXCEPT !.head = v]) /\ [n EXCEPT !.head = v].active = n.active
  <2>1. IsQueue(n)
    BY <1>4 DEF Shape
  <2> HIDE DEF n
  <2> QED  BY Zenon, <2>1, QueueUpdate
<1>6. Only(nic', nic, Kinds, "rx", q) /\ nic'["rx"][q] = [n EXCEPT !.head = v]
  <2>1. Grid(nic, Kinds)
    BY DEF Shape
  <2> HIDE DEF n, q
  <2> QED  BY <1>1, <1>4, <2>1, OnlyUpdate
<1>7. /\ Only(inflight', inflight, {"rx", "tx"}, "rx", q)
      /\ Only(ring', ring, Kinds, "rx", q) /\ Only(entries', entries, Kinds, "rx", q)
  BY Zenon, <1>1, <1>4, OnlySame DEF Shape
<1> QED  BY Zenon, <1>1, <1>2, <1>4, <1>5, <1>6, <1>7, RingStep DEF Ticks

(***************************************************************************)
(* The handler at the event queue.                                         *)
(***************************************************************************)
(* Only the event queue and its ring change. *)
LEMMA EqOnly ==
  ASSUME Shape, Only(nic', nic, Kinds, "eq", 0), IsQueue(nic'["eq"][0]),
         Only(ring', ring, Kinds, "eq", 0), IsRing(ring'["eq"][0]),
         Only(entries', entries, Kinds, "eq", 0),
         entries'["eq"][0] = [i \in 0..(EqSize - 1) |-> entries'["eq"][0][i]],
         inflight' = inflight, IsHandler(handler'), evq' \in Seq(Cqs), msi' \in Nat, Ticks
  PROVE  Shape' /\ Calm
<1>1. ASSUME NEW c \in Cqs
      PROVE  /\ nic'[c[1]][c[2]] = nic[c[1]][c[2]] /\ ring'[c[1]][c[2]] = ring[c[1]][c[2]]
             /\ nic'[RingOf(c[1])][c[2]] = nic[RingOf(c[1])][c[2]]
  <2>1. /\ c[1] \in Kinds /\ c[1] # "eq" /\ c[2] \in Queues
        /\ RingOf(c[1]) \in {"rx", "tx"} /\ RingOf(c[1]) \in Kinds
    BY CqParts
  <2> QED  BY <2>1 DEF Only
<1>2. Calm
  BY Zenon, <1>1 DEF Calm
<1>3. Grid(nic', Kinds) /\ Grid(ring', Kinds) /\ Grid(entries', Kinds)
  BY DEF Only
<1>4. \A i \in Kinds, j \in Queues : IsQueue(nic'[i][j])
  <2> TAKE i \in Kinds, j \in Queues
  <2>1. CASE i = "eq" /\ j = 0
    BY <2>1
  <2>2. CASE i # "eq" \/ j # 0
    <3>1. nic'[i][j] = nic[i][j]
      BY <2>2 DEF Only
    <3> QED  BY Zenon, <3>1 DEF Shape
  <2> QED  BY <2>1, <2>2
<1>5. \A i \in {"eq", "rxcq", "txcq"}, j \in Queues : IsRing(ring'[i][j])
  <2> TAKE i \in {"eq", "rxcq", "txcq"}, j \in Queues
  <2>1. CASE i = "eq" /\ j = 0
    BY <2>1
  <2>2. CASE i # "eq" \/ j # 0
    <3>1. ring'[i][j] = ring[i][j]
      BY <2>2 DEF Only, Kinds
    <3> QED  BY Zenon, <3>1 DEF Shape
  <2> QED  BY <2>1, <2>2
<1>6. opener' \in Nat \ {0}
  BY Zenon, TicksNat
<1> QED  BY Zenon, <1>2, <1>3, <1>4, <1>5, <1>6 DEF Shape

(* interrupt. *)
LEMMA InterruptStep ==
  ASSUME Shape, EqInv, CqInv, interrupt
  PROVE  Shape' /\ EqInv' /\ CqInv'
<1>1. /\ nic' = nic /\ ring' = ring /\ entries' = entries /\ evq' = evq /\ inflight' = inflight
      /\ opener' = opener /\ msi' = msi - 1 /\ msi > 0
  BY DEF interrupt
<1>2. /\ IsHandler(handler') /\ handler'.kind = handler.kind /\ handler'.q = handler.q
      /\ handler'.eq_tail = handler.eq_tail
      /\ handler.pc = "idle" => handler'.pc \in {"eq_read", "eq_arm"}
      /\ handler.pc # "idle" => handler'.pc = handler.pc
  <2>1. IsHandler(handler)
    BY Zenon DEF Shape
  <2>2. CASE handler.pc = "idle"
    BY <2>1, <2>2 DEF interrupt, Entered, IsHandler
  <2>3. CASE handler.pc # "idle"
    BY <2>1, <2>3 DEF interrupt, IsHandler
  <2> QED  BY <2>2, <2>3
<1>3. handler'.pc # "idle" /\ (handler'.pc \in AtCq <=> handler.pc \in AtCq)
      /\ (handler'.pc = "eq_tail" <=> handler.pc = "eq_tail")
  BY <1>2 DEF AtCq
<1>4. Shape' /\ Calm
  <2>1. Calm
    BY <1>1 DEF Calm, Ticks
  <2> QED  BY <1>1, <1>2, <2>1 DEF Shape
<1>5. SameEventRing
  BY <1>1 DEF SameEventRing
<1>6. /\ EqTail' = EqTail /\ EqHead' = EqHead /\ EqUsed' = EqUsed
      /\ Written' = Written /\ Raised' = Raised /\ \A i : Event(i)' = Event(i)
  BY <1>5, SameEvents
<1>7. Served' = Served
  BY Zenon, <1>2, <1>3, <1>6 DEF Served
<1>8. CqInv'
  BY <1>4, <1>6, <1>7, CqCalm
<1>9. Event(Served)' = Event(Served) /\ <<handler'.kind, handler'.q>> = <<handler.kind, handler.q>>
  BY <1>2, <1>6, <1>7
<1>10. opener > 2
  <2>1. msi # 0
    BY <1>1
  <2> QED  BY Zenon, <2>1, HandlerUp
<1> HIDE DEF EqTail, EqHead, EqUsed, Written, Raised, Served, Event, AtCq
<1>11. EqInv'
  BY <1>1, <1>3, <1>6, <1>7, <1>9, <1>10 DEF EqInv
<1> QED  BY <1>4, <1>8, <1>11

(* The handler turns to the next event, or is done. *)
Turned(g, head, t) ==
  /\ IsHandler(g) /\ g.eq_tail = t
  /\ head = t => g.pc = "eq_tail"
  /\ head # t => /\ g.pc \in AtCq
                 /\ g.kind = entries["eq"][0][t % EqSize][1]
                 /\ g.q = entries["eq"][0][t % EqSize][2]

LEMMA NextEventAt ==
  ASSUME NEW h, IsHandler(h), NEW head, NEW g, g = NextEvent(h, head), NEW t, h.eq_tail = t
  PROVE  Turned(g, head, t)
<1> USE DEF Turned
<1>1. CASE head = t
  BY <1>1 DEF NextEvent, IsHandler
<1>2. CASE head # t
  BY Zenon, <1>2 DEF NextEvent, IsHandler, AtCq
<1> QED  BY Zenon, <1>1, <1>2

(* EqRing.write_tail_ptr. *)
LEMMA EqTailStep ==
  ASSUME Shape, EqInv, CqInv, EqWriteTail
  PROVE  Shape' /\ EqInv' /\ CqInv'
<1> DEFINE n == nic["eq"][0]
           r == ring["eq"][0]
           t == handler.eq_tail
<1>1. /\ entries' = entries /\ evq' = evq /\ msi' = msi /\ inflight' = inflight /\ opener' = opener
      /\ nic' = Update(nic, "eq", 0, [n EXCEPT !.tail = t % EqMod])
      /\ ring' = Update(ring, "eq", 0, [r EXCEPT !.tail = t])
      /\ handler.pc = "eq_tail"
  BY DEF EqWriteTail, Update
<1>2. IsHandler(handler') /\ handler'.pc = "eq_arm"
  BY Zenon DEF EqWriteTail, Shape, IsHandler
<1>3. /\ Grid(nic, Kinds) /\ Grid(ring, Kinds) /\ Grid(entries, Kinds) /\ IsQueue(n) /\ IsRing(r)
      /\ 0 \in Queues /\ "eq" \in Kinds
  BY Zenon, Zero DEF Shape
<1>4. Only(entries', entries, Kinds, "eq", 0)
  BY <1>1, <1>3, OnlySame
<1>5. /\ Only(nic', nic, Kinds, "eq", 0) /\ nic'["eq"][0] = [n EXCEPT !.tail = t % EqMod]
      /\ Only(ring', ring, Kinds, "eq", 0) /\ ring'["eq"][0] = [r EXCEPT !.tail = t]
  <2> HIDE DEF n, r, t
  <2> QED  BY <1>1, <1>3, OnlyUpdate
<1>6. /\ IsQueue(nic'["eq"][0]) /\ nic'["eq"][0].head = n.head /\ nic'["eq"][0].tail = t % EqMod
      /\ nic'["eq"][0].armed = n.armed /\ nic'["eq"][0].active = n.active
  <2> DEFINE v == t % EqMod
  <2> HIDE DEF n, t, v
  <2>1. nic'["eq"][0] = [n EXCEPT !.tail = v]
    BY <1>5 DEF v
  <2>2. /\ IsQueue(nic'["eq"][0]) /\ nic'["eq"][0].head = n.head /\ nic'["eq"][0].tail = v
        /\ nic'["eq"][0].armed = n.armed /\ nic'["eq"][0].active = n.active
    BY <1>3, <2>1 DEF IsQueue
  <2> QED  BY Zenon, <2>2 DEF v
<1>7. IsRing(ring'["eq"][0]) /\ ring'["eq"][0].head = r.head /\ ring'["eq"][0].tail = t
  <2> HIDE DEF r, t
  <2> QED  BY <1>3, <1>5 DEF IsRing
<1>8. Shape' /\ Calm
  BY Zenon, <1>1, <1>2, <1>4, <1>5, <1>6, <1>7, EqOnly DEF Ticks, Shape
<1>9. /\ Served = t /\ Served = EqHead /\ n.head = Written % EqMod
      /\ Served \in Nat /\ Written \in Nat /\ EqTail \in Nat /\ EqUsed \in Nat
      /\ EqTail <= Served /\ Served <= Written /\ Written = EqTail + EqUsed /\ EqUsed <= EqSize
  BY Zenon, <1>1, Bounds DEF Served, EqInv
<1>10. EqTail' = Served /\ EqHead' = EqHead /\ Served' = Served
  BY Zenon, <1>2, <1>7, <1>9 DEF EqTail, EqHead, Served, AtCq
<1>11. EqUsed' = Written - Served
  <2>1. EqUsed' = ((Written % EqMod) - (Served % EqMod)) % EqMod
    BY Zenon, <1>6, <1>9 DEF EqUsed
  <2>2. Written - Served \in 0..(EqMod - 1)
    <3> HIDE DEF Written, Served, EqTail, EqUsed
    <3> QED  BY <1>9, Zero
  <2> HIDE DEF Written, Served, EqTail, EqUsed
  <2>3. Written \in Int /\ Served \in Int /\ EqMod \in Nat \ {0}
    BY <1>9, Zero
  <2>4. ((Written % EqMod) - (Served % EqMod)) % EqMod = Written - Served
    BY Zenon, <2>2, <2>3, ModDistance
  <2> QED  BY <2>1, <2>4
<1>12. Written' = Written /\ Raised' = Raised
  <2>1. Written' = EqTail' + EqUsed'
    BY DEF Written
  <2>2. Served + (Written - Served) = Written
    <3> HIDE DEF Written, Served, EqTail, EqUsed
    <3> QED  BY <1>9
  <2>3. Written' = Written
    <3> HIDE DEF Written, Served, EqTail, EqUsed
    <3> QED  BY <1>10, <1>11, <2>1, <2>2
  <2> QED  BY <1>1, <2>3 DEF Raised
<1>13. \A i : Event(i)' = Event(i)
  BY <1>1, <1>12 DEF Event
<1>14. CqInv'
  BY Zenon, <1>8, <1>10, <1>12, <1>13, CqCalm
<1>15. opener > 2 /\ opener > 1 /\ ~(opener <= 2)
  BY Zenon, <1>1, HandlerUp
<1>16. n.armed => Written - Served = 0
  <2>1. n.armed => EqUsed = 0
    BY Zenon DEF EqInv
  <2> HIDE DEF Written, Served, EqTail, EqUsed
  <2> QED  BY <1>9, <2>1
<1>17. n.active
  BY Zenon, <1>15 DEF EqInv
<1>18. EqSize \in Nat /\ NQ \in Nat
  BY Zero
<1> HIDE DEF EqTail, EqHead, EqUsed, Written, Raised, Served, Event, AtCq, n, t
<1>19. EqInv'
  <2>1. EqTail' \in Nat /\ EqHead' \in Nat /\ EqUsed' \in 0..EqSize
    BY <1>9, <1>10, <1>11, <1>18
  <2>2. nic'["eq"][0].tail = EqTail' % EqMod /\ nic'["eq"][0].head = Written' % EqMod
    BY Zenon, <1>6, <1>9, <1>10, <1>12
  <2>3. EqHead' \in EqTail'..Written' /\ EqHead' - EqTail' <= 2 * NQ /\ Served' \in EqTail'..EqHead'
    BY <1>9, <1>10, <1>12, <1>18
  <2>4. handler'.pc \notin AtCq /\ handler'.pc # "eq_tail" /\ handler'.pc # "idle"
    BY <1>2 DEF AtCq
  <2>5. nic'["eq"][0].armed => EqUsed' = 0
    BY Zenon, <1>6, <1>11, <1>16
  <2>6. nic'["eq"][0].active /\ opener' > 2
    BY Zenon, <1>1, <1>6, <1>15, <1>17
  <2>7. ~(opener' <= 2)
    BY Zenon, <1>1, <1>15
  <2> QED  BY Zenon, <2>1, <2>2, <2>3, <2>4, <2>5, <2>6, <2>7 DEF EqInv
<1> QED  BY <1>8, <1>14, <1>19

(* EqRing.arm, and the end of the handler. *)
LEMMA EqArmStep ==
  ASSUME Shape, EqInv, CqInv, EqArmed
  PROVE  Shape' /\ EqInv' /\ CqInv'
<1> DEFINE n == nic["eq"][0]
           x == Armed(n)
<1>1. /\ ring' = ring /\ entries' = entries /\ evq' = evq /\ inflight' = inflight /\ opener' = opener
      /\ nic' = Update(nic, "eq", 0, x)
      /\ msi' = IF n.head # n.tail THEN msi + 1 ELSE msi
      /\ handler.pc = "eq_arm"
  BY DEF EqArmed, Arm, EventOnArm, Update
<1>2. IsHandler(handler') /\ handler'.pc \in {"eq_read", "eq_arm", "idle"}
  <2>1. IsHandler(handler)
    BY Zenon DEF Shape
  <2>2. CASE handler.pending > 0
    <3>1. handler' = [[handler EXCEPT !.pending = @ - 1] EXCEPT !.pc = IF port_up THEN "eq_read" ELSE "eq_arm"]
      BY <2>2 DEF EqArmed, Entered
    <3> QED  BY Zenon, <2>1, <3>1 DEF IsHandler
  <2>3. CASE ~(handler.pending > 0)
    BY <2>3 DEF EqArmed, IdleHandler, IsHandler
  <2> QED  BY <2>2, <2>3
<1>3. /\ Grid(nic, Kinds) /\ Grid(ring, Kinds) /\ Grid(entries, Kinds) /\ IsQueue(n)
      /\ 0 \in Queues /\ "eq" \in Kinds /\ IsRing(ring["eq"][0])
  BY Zenon, Zero DEF Shape
<1>4. Only(entries', entries, Kinds, "eq", 0) /\ Only(ring', ring, Kinds, "eq", 0)
  BY Zenon, <1>1, <1>3, OnlySame
<1>5. Only(nic', nic, Kinds, "eq", 0) /\ nic'["eq"][0] = x
  <2> HIDE DEF x
  <2>1. Grid(nic, Kinds) /\ "eq" \in Kinds /\ 0 \in Queues /\ nic' = Update(nic, "eq", 0, x)
    BY Zenon, <1>1, <1>3
  <2> QED  BY <2>1, OnlyUpdate
<1>6. /\ IsQueue(x) /\ x.head = n.head /\ x.tail = n.tail /\ x.armed = (n.head = n.tail)
      /\ x.active = n.active
  BY Zenon, <1>3, ArmedQueue
<1>7. msi' \in Nat
  <2>1. msi' = msi + 1 \/ msi' = msi
    BY Zenon, <1>1
  <2>2. msi \in Nat
    BY Zenon DEF Shape
  <2> QED  BY <2>1, <2>2
<1>8. Shape' /\ Calm
  <2> HIDE DEF x
  <2> QED  BY Zenon, <1>1, <1>2, <1>3, <1>4, <1>5, <1>6, <1>7, EqOnly DEF Ticks, Shape
<1>9. SameEventRing
  BY Zenon, <1>1, <1>5, <1>6 DEF SameEventRing
<1>10. /\ EqTail' = EqTail /\ EqHead' = EqHead /\ EqUsed' = EqUsed
       /\ Written' = Written /\ Raised' = Raised /\ \A i : Event(i)' = Event(i)
  BY <1>9, SameEvents
<1>11. Served' = Served
  BY Zenon, <1>1, <1>2, <1>10 DEF Served, AtCq
<1>12. CqInv'
  BY <1>8, <1>10, <1>11, CqCalm
<1>13. opener > 2 /\ opener > 1 /\ ~(opener <= 2)
  BY Zenon, <1>1, HandlerUp
<1>14. x.armed => EqUsed = 0
  <2>1. n.head = Written % EqMod /\ Written \in Nat
    BY Zenon, Bounds DEF EqInv
  <2>2. n.head - n.head = 0
    <3> HIDE DEF Written, n
    <3> QED  BY <2>1, Zero
  <2>3. 0 % EqMod = 0
    BY Zero
  <2> QED  BY Zenon, <1>6, <2>2, <2>3 DEF EqUsed
<1>15. handler'.pc \notin AtCq /\ handler'.pc # "eq_tail"
  BY <1>2 DEF AtCq
<1>16. x.armed \/ msi' > 0
  <2>1. CASE n.head = n.tail
    BY Zenon, <1>6, <2>1
  <2>2. CASE n.head # n.tail
    <3>1. msi' = msi + 1 /\ msi \in Nat
      BY Zenon, <1>1, <2>2 DEF Shape
    <3> QED  BY <3>1
  <2> QED  BY Zenon, <2>1, <2>2
<1>17. ~(opener' <= 2) /\ opener' > 2 /\ x.active
  BY Zenon, <1>1, <1>6, <1>13 DEF EqInv
<1> HIDE DEF EqTail, EqHead, EqUsed, Written, Raised, Served, Event, AtCq, x
<1>18. EqInv'
  BY Zenon, <1>5, <1>6, <1>10, <1>11, <1>14, <1>15, <1>16, <1>17 DEF EqInv
<1> QED  BY <1>8, <1>12, <1>18

(* EqRing.read_head_ptr. *)
LEMMA EqHeadStep ==
  ASSUME Shape, EqInv, CqInv, Raised - Served <= 2 * NQ, EqReadHead
  PROVE  Shape' /\ EqInv' /\ CqInv'
<1> DEFINE r == ring["eq"][0]
           h == [handler EXCEPT !.eq_tail = r.tail]
           v == EqReadPtr(r.head, nic["eq"][0].head)
<1>1. /\ nic' = nic /\ entries' = entries /\ evq' = evq /\ msi' = msi /\ inflight' = inflight
      /\ opener' = opener
      /\ ring' = Update(ring, "eq", 0, [r EXCEPT !.head = v])
      /\ handler' = NextEvent(h, v)
      /\ handler.pc = "eq_read"
  BY Zenon DEF EqReadHead, Update
<1>2. /\ EqTail \in Nat /\ EqHead \in Nat /\ EqUsed \in Nat /\ Written \in Nat /\ Raised \in Nat
      /\ EqTail <= EqHead /\ EqHead <= Written /\ Written <= Raised
      /\ Written = EqTail + EqUsed /\ EqUsed <= EqSize
  BY Bounds
<1>3. Served = EqTail
  BY <1>1 DEF Served, AtCq
<1>4. v = Written
  <2>1. r.head = EqHead /\ nic["eq"][0].head = Written % EqMod
    BY Zenon DEF EqHead, EqInv
  <2>2. EqMod \in Nat \ {0} /\ Written - EqHead \in 0..(EqMod - 1)
    <3> HIDE DEF Written, EqHead, EqTail, EqUsed, Raised
    <3> QED  BY <1>2, Zero
  <2>3. ((Written % EqMod) - EqHead) % EqMod = Written - EqHead
    <3> HIDE DEF Written, EqHead, EqTail, EqUsed, Raised
    <3>1. Written \in Int /\ EqHead \in Int
      BY <1>2
    <3> QED  BY Zenon, <2>2, <3>1, ModDistance
  <2>4. v = EqHead + (Written - EqHead)
    BY Zenon, <2>1, <2>3 DEF EqReadPtr
  <2> HIDE DEF Written, EqHead, EqTail, EqUsed, v, Raised
  <2> QED  BY <1>2, <2>4
<1>5. IsHandler(h) /\ h.eq_tail = EqTail
  BY DEF Shape, IsHandler, EqTail
<1>6. /\ IsHandler(handler') /\ handler'.eq_tail = EqTail
      /\ Written = EqTail => handler'.pc = "eq_tail"
      /\ Written # EqTail => /\ handler'.pc \in AtCq
                             /\ handler'.kind = entries["eq"][0][EqTail % EqSize][1]
                             /\ handler'.q = entries["eq"][0][EqTail % EqSize][2]
  <2> HIDE DEF h, v, Written, EqTail
  <2>1. handler' = NextEvent(h, Written)
    BY Zenon, <1>1, <1>4
  <2>2. Turned(handler', Written, EqTail)
    BY <1>5, <2>1, NextEventAt
  <2> QED  BY Zenon, <2>2 DEF Turned
<1>7. /\ Grid(nic, Kinds) /\ Grid(ring, Kinds) /\ Grid(entries, Kinds) /\ IsQueue(nic["eq"][0])
      /\ 0 \in Queues /\ "eq" \in Kinds /\ IsRing(r)
  BY Zenon, Zero DEF Shape
<1>8. Only(entries', entries, Kinds, "eq", 0) /\ Only(nic', nic, Kinds, "eq", 0)
  BY Zenon, <1>1, <1>7, OnlySame
<1> HIDE DEF v
<1>9. Only(ring', ring, Kinds, "eq", 0) /\ ring'["eq"][0] = [r EXCEPT !.head = v]
  <2> HIDE DEF r
  <2> QED  BY <1>1, <1>7, OnlyUpdate
<1>10. IsRing(ring'["eq"][0]) /\ ring'["eq"][0].head = v /\ ring'["eq"][0].tail = r.tail
  <2> HIDE DEF r
  <2> QED  BY <1>7, <1>9 DEF IsRing
<1>11. Shape' /\ Calm
  BY Zenon, <1>1, <1>6, <1>7, <1>8, <1>9, <1>10, EqOnly DEF Ticks, Shape
<1>12. EqTail' = EqTail /\ EqHead' = Written /\ EqUsed' = EqUsed
  BY Zenon, <1>1, <1>4, <1>10 DEF EqTail, EqHead, EqUsed
<1>13. Written' = Written
  BY <1>12 DEF Written
<1>14. Raised' = Raised /\ \A i : Event(i)' = Event(i)
  BY <1>1, <1>13 DEF Raised, Event
<1>15. Served' = EqTail
  BY Zenon, <1>6 DEF Served
<1>16. CqInv'
  BY Zenon, <1>3, <1>11, <1>14, <1>15, CqCalm
<1>17. ASSUME Written # EqTail
       PROVE  Event(EqTail) = <<handler'.kind, handler'.q>>
  <2>1. EqTail < Written /\ EqTail \in Served..(Raised - 1)
    <3> HIDE DEF Written, EqHead, EqTail, EqUsed, Raised, Served
    <3> QED  BY <1>2, <1>3, <1>17
  <2>2. Event(EqTail) = entries["eq"][0][EqTail % EqSize]
    BY Zenon, <2>1 DEF Event
  <2>3. Event(EqTail) \in Cqs
    <3> HIDE DEF Event, EqTail, Served, Raised
    <3> QED  BY Zenon, <2>1 DEF CqInv
  <2> HIDE DEF Event, EqTail
  <2>4. Event(EqTail) = <<Event(EqTail)[1], Event(EqTail)[2]>>
    BY <2>3 DEF Cqs
  <2> QED  BY Zenon, <1>6, <1>17, <2>2, <2>4
<1>18. opener > 2 /\ NQ \in Nat /\ EqSize \in Nat
  BY <1>1, Zero DEF EqInv, Shape
<1>19. Event(EqTail)' = Event(EqTail)
  BY Zenon, <1>12, <1>14
<1> HIDE DEF EqTail, EqHead, EqUsed, Written, Raised, Served, Event
<1>20. EqInv'
  <2>1. EqTail' \in Nat /\ EqHead' \in Nat /\ EqUsed' \in 0..EqSize
    BY <1>2, <1>12, <1>18
  <2>2. nic'["eq"][0].tail = EqTail' % EqMod /\ nic'["eq"][0].head = Written' % EqMod
    BY Zenon, <1>1, <1>12, <1>13 DEF EqInv
  <2>3. EqHead' \in EqTail'..Written' /\ EqHead' - EqTail' <= 2 * NQ /\ Served' \in EqTail'..EqHead'
    BY <1>2, <1>3, <1>12, <1>13, <1>15, <1>18
  <2>4. handler'.pc \in AtCq => Served' < EqHead' /\ Event(Served)' = <<handler'.kind, handler'.q>>
    <3>1. handler'.pc \in AtCq => Written # EqTail
      BY Zenon, <1>6 DEF AtCq
    <3>2. Event(Served)' = Event(EqTail)
      BY <1>12, <1>15, <1>19
    <3> QED  BY <1>2, <1>12, <1>15, <1>17, <3>1, <3>2
  <2>5. handler'.pc = "eq_tail" => Served' = EqHead'
    <3>1. handler'.pc = "eq_tail" => Written = EqTail
      BY Zenon, <1>6 DEF AtCq
    <3> QED  BY <1>12, <1>15, <3>1
  <2>6. handler'.pc # "idle"
    BY Zenon, <1>6 DEF AtCq
  <2>7. (nic'["eq"][0].armed => EqUsed' = 0) /\ nic'["eq"][0].active
    BY <1>1, <1>12, <1>18 DEF EqInv, Shape
  <2>8. ~(opener' <= 2)
    BY <1>1, <1>18 DEF Shape
  <2> QED  BY Zenon, <2>1, <2>2, <2>3, <2>4, <2>5, <2>6, <2>7, <2>8 DEF EqInv
<1> QED  BY <1>11, <1>16, <1>20

(***************************************************************************)
(* Steps that arm a completion queue or give an event.                     *)
(***************************************************************************)
(* Only completion queue k, q changes, and no ring of the driver. *)
LEMMA CqOnly ==
  ASSUME Shape, NEW k \in {"rxcq", "txcq"}, NEW q \in Queues,
         Only(nic', nic, Kinds, k, q), IsQueue(nic'[k][q]), ring' = ring,
         Only(entries', entries, Kinds, k, q), Grid(inflight', {"rx", "tx"}),
         IsHandler(handler'), evq' \in Seq(Cqs), msi' = msi, opener' \in Nat \ {0}
  PROVE  /\ Shape'
         /\ nic'["eq"][0] = nic["eq"][0] /\ entries'["eq"][0] = entries["eq"][0]
         /\ \A d \in Cqs : /\ d # <<k, q>> => nic'[d[1]][d[2]] = nic[d[1]][d[2]]
                           /\ nic'[RingOf(d[1])][d[2]] = nic[RingOf(d[1])][d[2]]
<1>1. 0 \in Queues /\ "eq" \in Kinds /\ k # "eq"
  BY Zero
<1>2. nic'["eq"][0] = nic["eq"][0] /\ entries'["eq"][0] = entries["eq"][0]
  BY Zenon, <1>1 DEF Only
<1>3. ASSUME NEW d \in Cqs
      PROVE  /\ d # <<k, q>> => nic'[d[1]][d[2]] = nic[d[1]][d[2]]
             /\ nic'[RingOf(d[1])][d[2]] = nic[RingOf(d[1])][d[2]]
  <2>1. /\ d[1] \in Kinds /\ d[2] \in Queues /\ d = <<d[1], d[2]>>
        /\ RingOf(d[1]) \in {"rx", "tx"} /\ RingOf(d[1]) \in Kinds
    BY CqParts
  <2>2. d # <<k, q>> => d[1] # k \/ d[2] # q
    BY <2>1
  <2> QED  BY Zenon, <2>1, <2>2 DEF Only
<1>4. Grid(nic', Kinds) /\ Grid(entries', Kinds)
  BY Zenon DEF Only
<1>5. \A i \in Kinds, j \in Queues : IsQueue(nic'[i][j])
  <2> TAKE i \in Kinds, j \in Queues
  <2>1. CASE i = k /\ j = q
    BY <2>1
  <2>2. CASE i # k \/ j # q
    <3>1. nic'[i][j] = nic[i][j]
      BY Zenon, <2>2 DEF Only
    <3> QED  BY Zenon, <3>1 DEF Shape
  <2> QED  BY Zenon, <2>1, <2>2
<1>6. Shape'
  BY Zenon, <1>2, <1>4, <1>5 DEF Shape
<1> QED  BY Zenon, <1>2, <1>3, <1>6

(* An event joins those on their way. *)
LEMMA EventAppended ==
  ASSUME Shape, EqInv, nic'["eq"][0] = nic["eq"][0], ring'["eq"][0] = ring["eq"][0],
         entries'["eq"][0] = entries["eq"][0], NEW c \in Cqs, evq' = Append(evq, c), NEW R, R = Raised
  PROVE  /\ evq' \in Seq(Cqs) /\ EqTail' = EqTail /\ EqHead' = EqHead /\ EqUsed' = EqUsed
         /\ Written' = Written /\ Raised' = R + 1 /\ Event(R)' = c
         /\ \A i \in 0..(R - 1) : Event(i)' = Event(i)
<1> DEFINE L == Len(evq)
<1>1. /\ evq \in Seq(Cqs) /\ L \in Nat /\ evq' \in Seq(Cqs) /\ Len(evq') = L + 1
      /\ \A j \in 1..L : evq'[j] = evq[j]
      /\ evq'[L + 1] = c
  BY DEF Shape
<1>2. EqTail' = EqTail /\ EqHead' = EqHead /\ EqUsed' = EqUsed
  BY DEF EqTail, EqHead, EqUsed
<1>3. Written' = Written
  BY <1>2 DEF Written
<1>4. Written \in Nat /\ R = Written + L
  BY Bounds
<1>5. Raised' = Written + (L + 1)
  BY <1>1, <1>3 DEF Raised
<1>6. \A i : Event(i)' = IF i < Written THEN entries["eq"][0][i % EqSize] ELSE evq'[i - Written + 1]
  BY <1>3 DEF Event
<1> HIDE DEF Written, L
<1>7. Raised' = R + 1
  BY <1>1, <1>4, <1>5
<1>8. Event(R)' = c
  <2>1. ~(R < Written) /\ R - Written + 1 = L + 1
    BY <1>1, <1>4
  <2> QED  BY Zenon, <1>1, <1>6, <2>1
<1>9. ASSUME NEW i \in 0..(R - 1)
      PROVE  Event(i)' = Event(i)
  <2>1. CASE i < Written
    BY Zenon, <1>6, <2>1 DEF Event
  <2>2. CASE ~(i < Written)
    <3>1. i - Written + 1 \in 1..L
      BY <1>1, <1>4, <2>2
    <3> QED  BY Zenon, <1>1, <1>6, <2>2, <3>1 DEF Event
  <2> QED  BY <2>1, <2>2
<1> QED  BY Zenon, <1>1, <1>2, <1>3, <1>7, <1>8, <1>9

(* What a step may do to one completion queue, to the event the handler    *)
(* serves and to the last event: after it the queue has one event, or none *)
(* and is armed and empty.                                                 *)
Touch(c, S, R, here) ==
  /\ c \in Cqs /\ Opened(c) /\ opener' = opener
  /\ S \in Nat /\ R \in Nat /\ S = Served /\ R = Raised /\ S <= R
  /\ Served' = S \/ (Served' = S + 1 /\ S < R /\ Event(S) = c)
  /\ Raised' = R \/ (Raised' = R + 1 /\ Event(R)' = c)
  /\ \A i \in S..(R - 1) : Event(i)' = Event(i)
  /\ \A d \in Cqs : d # c => nic'[d[1]][d[2]] = nic[d[1]][d[2]]
  /\ \A d \in Cqs : ~Opened(d) =>
        /\ ring'[d[1]][d[2]] = ring[d[1]][d[2]]
        /\ inflight'[RingOf(d[1])][d[2]] = inflight[RingOf(d[1])][d[2]]
        /\ nic'[RingOf(d[1])][d[2]].active = nic[RingOf(d[1])][d[2]].active
  /\ here \in BOOLEAN /\ (here <=> \E i \in Served'..(R - 1) : Event(i) = c)
  /\ ~here \/ Raised' = R
  /\ nic'[c[1]][c[2]].armed =>
        ~here /\ Raised' = R /\ nic'[c[1]][c[2]].head = nic'[c[1]][c[2]].tail
  /\ ~nic'[c[1]][c[2]].armed => here \/ Raised' = R + 1

LEMMA CqTouch ==
  ASSUME CqInv, NEW c, NEW S, NEW R, NEW here, Touch(c, S, R, here)
  PROVE  CqInv'
<1>a. /\ c \in Cqs /\ Opened(c) /\ opener' = opener /\ S = Served /\ R = Raised /\ here \in BOOLEAN
      /\ here <=> \E i \in Served'..(R - 1) : Event(i) = c
  BY Zenon DEF Touch
<1>b. /\ S \in Nat /\ R \in Nat /\ S <= R
      /\ Served' = S \/ (Served' = S + 1 /\ S < R)
      /\ Raised' = R \/ Raised' = R + 1
  BY Zenon DEF Touch
<1>c. \A i \in S..(R - 1) : Event(i)' = Event(i)
  BY Zenon DEF Touch
<1>d. Served' # S => Event(S) = c
  BY Zenon DEF Touch
<1>e. Raised' # R => Event(R)' = c
  BY Zenon DEF Touch
<1>f. \A d \in Cqs : d # c => nic'[d[1]][d[2]] = nic[d[1]][d[2]]
  BY Zenon DEF Touch
<1>g. \A d \in Cqs : ~Opened(d) =>
        /\ ring'[d[1]][d[2]] = ring[d[1]][d[2]]
        /\ inflight'[RingOf(d[1])][d[2]] = inflight[RingOf(d[1])][d[2]]
        /\ nic'[RingOf(d[1])][d[2]].active = nic[RingOf(d[1])][d[2]].active
  BY Zenon DEF Touch
<1>h. /\ ~here \/ Raised' = R
      /\ nic'[c[1]][c[2]].armed =>
            ~here /\ Raised' = R /\ nic'[c[1]][c[2]].head = nic'[c[1]][c[2]].tail
      /\ ~nic'[c[1]][c[2]].armed => here \/ Raised' = R + 1
  BY Zenon DEF Touch
<1> DEFINE T == Served'
           W == Served'..(Raised' - 1)
<1>1. /\ \A i \in S..(R - 1) : Event(i) \in Cqs /\ Opened(Event(i)) /\ ~nic[Event(i)[1]][Event(i)[2]].armed
      /\ \A i, j \in S..(R - 1) : Event(i) = Event(j) => i = j
      /\ \A d : Pending(d) <=> \E i \in S..(R - 1) : Event(i) = d
  BY Zenon, <1>a DEF CqInv, Pending
<1>2. \A d : Pending(d)' <=> \E i \in W : Event(i)' = d
  BY Zenon DEF Pending
<1>3. \A d : Opened(d)' <=> Opened(d)
  BY Zenon, <1>a DEF Opened, ArmPos
<1>x. R + 1 # R
  BY <1>b
<1> HIDE DEF Served, Raised, Event, Opened, Pending
<1>4. ASSUME NEW i \in W
      PROVE  \/ i \in T..(R - 1) /\ i \in S..(R - 1) /\ Event(i)' = Event(i)
             \/ i = R /\ Raised' = R + 1 /\ Event(i)' = c
  <2>1. \/ i \in T..(R - 1) /\ i \in S..(R - 1)
        \/ i = R /\ Raised' = R + 1
    BY <1>b
  <2> QED  BY Zenon, <1>c, <1>e, <1>x, <2>1
<1>5. T..(R - 1) \subseteq W /\ (Raised' = R + 1 => R \in W)
  BY <1>b
<1>6. ASSUME NEW i \in W
      PROVE  Event(i)' \in Cqs /\ opener' > ArmPos(Event(i)') /\ ~nic'[Event(i)'[1]][Event(i)'[2]].armed
  <2>1. CASE Event(i)' = c
    <3>1. here \/ Raised' = R + 1
      BY Zenon, <1>4, <1>a, <2>1
    <3>2. ~nic'[c[1]][c[2]].armed
      BY Zenon, <1>h, <1>x, <3>1
    <3> QED  BY Zenon, <1>a, <2>1, <3>2 DEF Opened
  <2>2. CASE Event(i)' # c
    <3>1. i \in S..(R - 1) /\ Event(i)' = Event(i)
      BY Zenon, <1>4, <2>2
    <3>2. Event(i) \in Cqs /\ Opened(Event(i)) /\ ~nic[Event(i)[1]][Event(i)[2]].armed
      BY Zenon, <1>1, <3>1
    <3>3. nic'[Event(i)[1]][Event(i)[2]] = nic[Event(i)[1]][Event(i)[2]]
      BY Zenon, <1>f, <2>2, <3>1, <3>2
    <3> QED  BY Zenon, <1>a, <3>1, <3>2, <3>3 DEF Opened
  <2> QED  BY Zenon, <2>1, <2>2
<1>7. ASSUME NEW i \in W, NEW j \in W, Event(i)' = Event(j)'
      PROVE  i = j
  <2>1. CASE i \in S..(R - 1) /\ j \in S..(R - 1)
    <3>1. Event(i)' = Event(i) /\ Event(j)' = Event(j)
      BY Zenon, <1>c, <2>1
    <3>2. Event(i) = Event(j)
      BY Zenon, <1>7, <3>1
    <3>3. \A a, b \in S..(R - 1) : Event(a) = Event(b) => a = b
      BY Zenon, <1>1
    <3> QED  BY Zenon, <2>1, <3>2, <3>3
  <2>2. CASE i \notin S..(R - 1) /\ j \notin S..(R - 1)
    BY Zenon, <1>4, <2>2
  <2>3. CASE i \in S..(R - 1) /\ j \notin S..(R - 1)
    <3>1. j = R /\ Raised' = R + 1 /\ Event(j)' = c
      BY Zenon, <1>4, <2>3
    <3>2. i \in T..(R - 1) /\ Event(i)' = Event(i)
      BY Zenon, <1>4, <2>3
    <3>3. here
      BY Zenon, <1>7, <1>a, <3>1, <3>2
    <3> QED  BY Zenon, <1>h, <1>x, <3>1, <3>3
  <2>4. CASE i \notin S..(R - 1) /\ j \in S..(R - 1)
    <3>1. i = R /\ Raised' = R + 1 /\ Event(i)' = c
      BY Zenon, <1>4, <2>4
    <3>2. j \in T..(R - 1) /\ Event(j)' = Event(j)
      BY Zenon, <1>4, <2>4
    <3>3. here
      BY Zenon, <1>7, <1>a, <3>1, <3>2
    <3> QED  BY Zenon, <1>h, <1>x, <3>1, <3>3
  <2> QED  BY Zenon, <2>1, <2>2, <2>3, <2>4
<1>8. ~nic'[c[1]][c[2]].armed => Pending(c)'
  <2>1. ASSUME here PROVE \E i \in W : Event(i)' = c
    <3>1. PICK i \in T..(R - 1) : Event(i) = c
      BY Zenon, <1>a, <2>1
    <3>2. i \in W /\ i \in S..(R - 1)
      BY <1>5, <1>b
    <3> QED  BY Zenon, <1>c, <3>1, <3>2
  <2>2. ASSUME Raised' = R + 1 PROVE \E i \in W : Event(i)' = c
    <3>1. R \in W /\ Event(R)' = c
      BY Zenon, <1>5, <1>e, <1>x, <2>2
    <3> QED  BY Zenon, <3>1
  <2> QED  BY Zenon, <1>2, <1>h, <2>1, <2>2
<1>9. ASSUME NEW d \in Cqs, d # c, Pending(d)
      PROVE  Pending(d)'
  <2>1. PICK i \in S..(R - 1) : Event(i) = d
    BY Zenon, <1>1, <1>9
  <2>2. i # S \/ T = S
    BY Zenon, <1>9, <1>d, <2>1
  <2>3. i \in T..(R - 1)
    BY <1>b, <2>2
  <2>4. i \in W /\ Event(i)' = d
    BY Zenon, <1>5, <1>c, <2>1, <2>3
  <2> QED  BY Zenon, <1>2, <2>4
<1>10. ASSUME NEW d \in Cqs
       PROVE  /\ Opened(d)' => nic'[d[1]][d[2]].armed \/ Pending(d)'
              /\ nic'[d[1]][d[2]].head # nic'[d[1]][d[2]].tail => Pending(d)'
              /\ ~Opened(d)' =>
                   /\ ~nic'[d[1]][d[2]].armed
                   /\ ring'[d[1]][d[2]].head = ring'[d[1]][d[2]].tail
                   /\ inflight'[RingOf(d[1])][d[2]] = <<>>
                   /\ ~nic'[RingOf(d[1])][d[2]].active
  <2>1. CASE d = c
    BY Zenon, <1>3, <1>8, <1>a, <1>h, <2>1
  <2>2. CASE d # c
    <3>1. nic'[d[1]][d[2]] = nic[d[1]][d[2]]
      BY Zenon, <1>f, <2>2
    <3>2. /\ Opened(d) => nic[d[1]][d[2]].armed \/ Pending(d)
          /\ nic[d[1]][d[2]].head # nic[d[1]][d[2]].tail => Pending(d)
          /\ ~Opened(d) =>
               /\ ~nic[d[1]][d[2]].armed
               /\ ring[d[1]][d[2]].head = ring[d[1]][d[2]].tail
               /\ inflight[RingOf(d[1])][d[2]] = <<>>
               /\ ~nic[RingOf(d[1])][d[2]].active
      BY Zenon DEF CqInv
    <3> QED  BY Zenon, <1>3, <1>9, <1>g, <2>2, <3>1, <3>2
  <2> QED  BY ZenonT(30), <2>1, <2>2
<1>11. \A i \in W : (/\ Event(i) \in Cqs /\ Opened(Event(i))
                      /\ ~nic[Event(i)[1]][Event(i)[2]].armed)'
  BY Zenon, <1>6 DEF Opened, ArmPos
<1>12. (Served..(Raised - 1))' = W
  BY Zenon
<1> QED  BY Zenon, <1>7, <1>10, <1>11, <1>12 DEF CqInv

(* CqRing.arm, after which the handler turns to the next event. *)
LEMMA CqArmStep ==
  ASSUME Shape, EqInv, CqInv, CqArmed
  PROVE  Shape' /\ EqInv' /\ CqInv'
<1> DEFINE k == handler.kind
           q == handler.q
           c == <<k, q>>
           n == nic[k][q]
           x == Armed(n)
           h == [handler EXCEPT !.eq_tail = @ + 1, !.count = 0]
<1>1. handler.pc = "cq_arm" /\ handler.pc \in AtCq
  BY DEF CqArmed, AtCq
<1>2. /\ c \in Cqs /\ Served \in Served..(Raised - 1) /\ Event(Served) = c /\ Opened(c)
      /\ k \in {"rxcq", "txcq"} /\ q \in Queues /\ k \in Kinds /\ k # "eq"
  <2>1. c \in Cqs /\ Served \in Served..(Raised - 1) /\ Event(Served) = c /\ Opened(c)
    BY Zenon, <1>1, AtEvent
  <2>2. c[1] = k /\ c[2] = q
    BY Zenon
  <2> HIDE DEF c
  <2> QED  BY Zenon, <2>1, <2>2, CqParts
<1>3. /\ ring' = ring /\ entries' = entries /\ inflight' = inflight /\ opener' = opener /\ msi' = msi
      /\ nic' = Update(nic, k, q, x)
      /\ evq' = IF n.head # n.tail THEN Append(evq, c) ELSE evq
      /\ handler' = NextEvent(h, EqHead)
  BY Zenon, <1>2 DEF CqArmed, Arm, EventOnArm, Update, EqHead
<1>4. IsHandler(h) /\ h.eq_tail = Served + 1
  <2>1. handler.eq_tail = Served
    BY <1>1 DEF Served
  <2> DEFINE v == handler.eq_tail + 1
             g == [handler EXCEPT !.eq_tail = v]
  <2>2. IsHandler(h) /\ h.eq_tail = handler.eq_tail + 1
    <3>1. h = [g EXCEPT !.count = 0]
      OBVIOUS
    <3> HIDE DEF v, h
    <3>2. IsHandler(g) /\ g.eq_tail = v
      BY DEF Shape, IsHandler
    <3> HIDE DEF g
    <3>3. IsHandler(h) /\ h.eq_tail = v
      BY <3>1, <3>2 DEF IsHandler
    <3> QED  BY <3>3 DEF v
  <2> QED  BY <2>1, <2>2
<1> HIDE DEF h
<1>5. PICK S : S = Served
  OBVIOUS
<1>6. PICK R : R = Raised
  OBVIOUS
<1>7. /\ S \in Nat /\ R \in Nat /\ S < R /\ S < EqHead /\ EqHead \in Nat /\ Written \in Nat
      /\ EqHead <= Written /\ Written <= R /\ EqTail \in Nat /\ EqTail <= S
  <2>1. Served < EqHead
    BY Zenon, <1>1 DEF EqInv
  <2>2. /\ Served \in Nat /\ Raised \in Nat /\ EqHead \in Nat /\ Written \in Nat /\ EqTail \in Nat
        /\ EqHead <= Written /\ Written <= Raised /\ EqTail <= Served
    BY Bounds
  <2> HIDE DEF Served, Raised, EqHead, EqTail, Written
  <2> QED  BY <1>5, <1>6, <2>1, <2>2
<1>8. /\ IsHandler(handler') /\ handler'.eq_tail = S + 1
      /\ EqHead = S + 1 => handler'.pc = "eq_tail"
      /\ EqHead # S + 1 => /\ handler'.pc \in AtCq
                           /\ handler'.kind = entries["eq"][0][(S + 1) % EqSize][1]
                           /\ handler'.q = entries["eq"][0][(S + 1) % EqSize][2]
  <2>1. h.eq_tail = S + 1
    BY <1>4, <1>5
  <2>2. handler' = NextEvent(h, EqHead)
    BY Zenon, <1>3
  <2> HIDE DEF EqHead
  <2>3. IsHandler(h)
    BY Zenon, <1>4
  <2>4. Turned(handler', EqHead, S + 1)
    BY <2>1, <2>2, <2>3, NextEventAt
  <2> QED  BY Zenon, <2>4 DEF Turned
<1>9. Grid(nic, Kinds) /\ Grid(entries, Kinds) /\ Grid(inflight, {"rx", "tx"}) /\ IsQueue(n)
  BY Zenon, <1>2 DEF Shape
<1>10. /\ IsQueue(x) /\ x.head = n.head /\ x.tail = n.tail /\ x.armed = (n.head = n.tail)
  BY Zenon, <1>9, ArmedQueue
<1>11. Only(nic', nic, Kinds, k, q) /\ nic'[k][q] = x
  <2> HIDE DEF x, k, q
  <2>1. Grid(nic, Kinds) /\ k \in Kinds /\ q \in Queues /\ nic' = Update(nic, k, q, x)
    BY Zenon, <1>2, <1>3, <1>9
  <2> HIDE DEF n, c
  <2> QED  BY <2>1, OnlyUpdate
<1>12. Only(entries', entries, Kinds, k, q)
  <2> HIDE DEF k, q
  <2> QED  BY Zenon, <1>2, <1>3, <1>9, OnlySame
<1>13. evq' \in Seq(Cqs)
  <2>1. c \in Cqs /\ evq \in Seq(Cqs) /\ (evq' = evq \/ evq' = Append(evq, c))
    BY Zenon, <1>2, <1>3 DEF Shape
  <2> HIDE DEF c
  <2> QED  BY <2>1
<1>14. /\ Shape'
       /\ nic'["eq"][0] = nic["eq"][0] /\ entries'["eq"][0] = entries["eq"][0]
       /\ \A d \in Cqs : /\ d # c => nic'[d[1]][d[2]] = nic[d[1]][d[2]]
                         /\ nic'[RingOf(d[1])][d[2]] = nic[RingOf(d[1])][d[2]]
  <2>1. opener' \in Nat \ {0} /\ Grid(inflight', {"rx", "tx"})
    BY Zenon, <1>3, <1>9 DEF Shape
  <2> HIDE DEF k, q, x
  <2> QED  BY ZenonT(30), <1>2, <1>3, <1>8, <1>10, <1>11, <1>12, <1>13, <2>1, CqOnly
<1>15. /\ EqTail' = EqTail /\ EqHead' = EqHead /\ EqUsed' = EqUsed /\ Written' = Written
       /\ \A i \in 0..(R - 1) : Event(i)' = Event(i)
       /\ n.head = n.tail => Raised' = R
       /\ n.head # n.tail => Raised' = R + 1 /\ Event(R)' = c
  <2>1. ring'["eq"][0] = ring["eq"][0]
    BY Zenon, <1>3
  <2>2. CASE n.head = n.tail
    <3>1. SameEventRing
      BY Zenon, <1>3, <1>14, <2>1, <2>2 DEF SameEventRing
    <3> QED  BY Zenon, <1>6, <2>2, <3>1, SameEvents
  <2>3. CASE n.head # n.tail
    <3>1. evq' = Append(evq, c)
      BY Zenon, <1>3, <2>3
    <3> HIDE DEF c
    <3>2. /\ EqTail' = EqTail /\ EqHead' = EqHead /\ EqUsed' = EqUsed /\ Written' = Written
          /\ Raised' = R + 1 /\ Event(R)' = c
          /\ \A i \in 0..(R - 1) : Event(i)' = Event(i)
      BY Zenon, <1>2, <1>6, <1>14, <2>1, <3>1, EventAppended
    <3> QED  BY Zenon, <2>3, <3>2
  <2> QED  BY ZenonT(30), <2>2, <2>3
<1>16. Served' = S + 1
  BY Zenon, <1>8 DEF Served
<1>17. /\ Event(S) = c /\ \A i \in S..(R - 1) : Event(i) \in Cqs
       /\ \A i, j \in S..(R - 1) : Event(i) = Event(j) => i = j
  BY Zenon, <1>2, <1>5, <1>6 DEF CqInv
<1>18. CqInv'
  <2>1. ~ \E i \in (S + 1)..(R - 1) : Event(i) = c
    <3> SUFFICES ASSUME NEW i \in (S + 1)..(R - 1), Event(i) = c PROVE FALSE
      BY Zenon
    <3>1. i \in S..(R - 1) /\ S \in S..(R - 1) /\ i # S
      BY <1>7
    <3> HIDE DEF Event, c
    <3> QED  BY Zenon, <1>17, <3>1
  <2>2. \A i \in S..(R - 1) : Event(i)' = Event(i)
    <3> HIDE DEF Event
    <3>1. \A i \in S..(R - 1) : i \in 0..(R - 1)
      BY <1>7
    <3> QED  BY Zenon, <1>15, <3>1
  <2>3. c[1] = k /\ c[2] = q
    BY Zenon
  <2>4. /\ nic'[c[1]][c[2]].armed = (n.head = n.tail)
        /\ nic'[c[1]][c[2]].head = n.head /\ nic'[c[1]][c[2]].tail = n.tail
    BY ZenonT(30), <1>10, <1>11, <2>3
  <2>5. \A d \in Cqs : ~Opened(d) =>
            /\ ring'[d[1]][d[2]] = ring[d[1]][d[2]]
            /\ inflight'[RingOf(d[1])][d[2]] = inflight[RingOf(d[1])][d[2]]
            /\ nic'[RingOf(d[1])][d[2]].active = nic[RingOf(d[1])][d[2]].active
    BY Zenon, <1>3, <1>14
  <2>6. /\ nic'[c[1]][c[2]].armed => Raised' = R /\ nic'[c[1]][c[2]].head = nic'[c[1]][c[2]].tail
        /\ ~nic'[c[1]][c[2]].armed => Raised' = R + 1
    <3> HIDE DEF c, n, Raised
    <3> QED  BY Zenon, <1>15, <2>4
  <2>7. Served' = S + 1 /\ S < R /\ Event(S) = c
    BY Zenon, <1>7, <1>16, <1>17
  <2>8. Raised' = R \/ (Raised' = R + 1 /\ Event(R)' = c)
    BY Zenon, <1>15
  <2>9. ~ \E i \in Served'..(R - 1) : Event(i) = c
    BY Zenon, <1>16, <2>1
  <2>10. \A d \in Cqs : d # c => nic'[d[1]][d[2]] = nic[d[1]][d[2]]
    BY Zenon, <1>14
  <2>11. opener' = opener /\ c \in Cqs /\ Opened(c)
    BY Zenon, <1>2, <1>3
  <2> DEFINE here == FALSE
  <2>12. here \in BOOLEAN /\ ~here /\ (here <=> \E i \in Served'..(R - 1) : Event(i) = c)
    BY Zenon, <2>9
  <2> HIDE DEF c, k, q, n, x, here, Served, Raised, Event, Opened
  <2>13. S \in Nat /\ R \in Nat /\ S <= R
    BY <1>7
  <2>14. Touch(c, S, R, here)
    BY Zenon, <1>5, <1>6, <2>2, <2>5, <2>6, <2>7, <2>8, <2>10, <2>11, <2>12, <2>13 DEF Touch
  <2> QED  BY Zenon, <2>14, CqTouch
<1>19. ASSUME EqHead # S + 1
       PROVE  Event(S + 1)' = <<handler'.kind, handler'.q>>
  <2>1. S + 1 < Written /\ S + 1 \in S..(R - 1) /\ S + 1 \in 0..(R - 1)
    <3> HIDE DEF EqHead, Written
    <3> QED  BY <1>7, <1>19
  <2>2. Event(S + 1) = entries["eq"][0][(S + 1) % EqSize]
    BY Zenon, <2>1 DEF Event
  <2> HIDE DEF Event, EqHead
  <2>3. Event(S + 1)' = Event(S + 1) /\ Event(S + 1) \in Cqs
    BY Zenon, <1>15, <1>17, <2>1
  <2>4. Event(S + 1) = <<Event(S + 1)[1], Event(S + 1)[2]>>
    BY <2>3 DEF Cqs
  <2> QED  BY Zenon, <1>8, <1>19, <2>2, <2>3, <2>4
<1>20. ~(opener <= 2)
  BY Zenon, <1>1, HandlerUp
<1>21. (handler'.pc \in AtCq => EqHead # S + 1) /\ (handler'.pc = "eq_tail" => EqHead = S + 1)
       /\ handler'.pc # "idle"
  BY Zenon, <1>8 DEF AtCq
<1>22. Event(Served)' = Event(S + 1)'
  BY Zenon, <1>16
<1> HIDE DEF EqTail, EqHead, EqUsed, Written, Raised, Served, Event, AtCq, x, c, n, k, q
<1>23. EqInv'
  <2>1. /\ EqTail' \in Nat /\ EqHead' \in Nat /\ EqUsed' \in 0..EqSize
        /\ nic'["eq"][0].tail = EqTail' % EqMod /\ nic'["eq"][0].head = Written' % EqMod
        /\ EqHead' \in EqTail'..Written' /\ EqHead' - EqTail' <= 2 * NQ
        /\ nic'["eq"][0].armed => EqUsed' = 0
        /\ opener' > 1 => nic'["eq"][0].active
    BY Zenon, <1>3, <1>14, <1>15 DEF EqInv
  <2>2. Served' \in EqTail'..EqHead'
    <3>1. EqTail' = EqTail /\ EqHead' = EqHead
      BY Zenon, <1>15
    <3>2. S + 1 \in EqTail..EqHead
      BY <1>7
    <3> QED  BY Zenon, <1>16, <3>1, <3>2
  <2>3. handler'.pc \in AtCq => Served' < EqHead' /\ Event(Served)' = <<handler'.kind, handler'.q>>
    <3>1. EqHead # S + 1 => S + 1 < EqHead
      BY <1>7
    <3>2. EqHead' = EqHead
      BY Zenon, <1>15
    <3> QED  BY Zenon, <1>16, <1>19, <1>21, <1>22, <3>1, <3>2
  <2>4. handler'.pc = "eq_tail" => Served' = EqHead'
    BY Zenon, <1>15, <1>16, <1>21
  <2>5. ~(opener' <= 2)
    BY Zenon, <1>3, <1>20
  <2> QED  BY Zenon, <1>21, <2>1, <2>2, <2>3, <2>4, <2>5 DEF EqInv
<1> QED  BY Zenon, <1>14, <1>18, <1>23
=============================================================================
