--------------------------- MODULE PciePortProofs ---------------------------
(***************************************************************************)
(* A port of the simulated PCIe link, for every set of packets and every   *)
(* number of packets sent: one transmit at a time, no packet lost,         *)
(* duplicated or reordered, and the link of module PcieLink implemented.   *)
(***************************************************************************)
EXTENDS PciePort, SequenceTheorems, TLAPS

USE SMTT(30)

(* The queues hold packets. *)
PortTypeOK ==
  /\ tx_queue \in Seq(Packet)
  /\ serialising \in Seq(Packet)
  /\ wire \in Seq(Packet)
  /\ rx \in Seq(Packet)
  /\ sent \in Seq(Packet)
  /\ starting \in Nat

(* The inductive invariant.  InOrder is not inductive alone: two transmits *)
(* at once could finish their serialisation in either order.               *)
PortInv == PortTypeOK /\ OneTransmit /\ InOrder

(* What is on its way, oldest first. *)
Flight(w, s, q) == w \o s \o q

(* Everything received or on its way, as InOrder writes it and grouped. *)
Whole(x, w, s, q)  == x \o w \o s \o q
Joined(x, w, s, q) == x \o Flight(w, s, q)

(* A sequence without its k-th element. *)
Without(s, k) == SubSeq(s, 1, k - 1) \o SubSeq(s, k + 1, Len(s))

(* A packet queued is the youngest on its way. *)
LEMMA FlightAppend ==
  ASSUME NEW S, NEW w \in Seq(S), NEW s \in Seq(S), NEW q \in Seq(S), NEW t \in S
  PROVE  /\ Flight(w, s, q) \in Seq(S)
         /\ Flight(w, s, Append(q, t)) = Append(Flight(w, s, q), t)
<1>1. w \o s \in Seq(S) /\ (w \o s) \o q \in Seq(S) /\ <<t>> \in Seq(S)
  BY ConcatProperties
<1>2. Append(q, t) = q \o <<t>> /\ Append((w \o s) \o q, t) = ((w \o s) \o q) \o <<t>>
  BY <1>1, AppendIsConcat
<1>3. ((w \o s) \o q) \o <<t>> = (w \o s) \o (q \o <<t>>)
  BY <1>1, ConcatAssociative
<1> QED  BY <1>1, <1>2, <1>3 DEF Flight

(* A sequence that is not empty is its head followed by its tail. *)
LEMMA HeadThenTail ==
  ASSUME NEW S, NEW q \in Seq(S), q # <<>>
  PROVE  q = <<Head(q)>> \o Tail(q) /\ Head(q) \in S /\ Tail(q) \in Seq(S)
<1>1. Len(q) \in Nat \ {0} /\ Head(q) = q[1]
  BY EmptySeq
<1>2. Head(q) \in S /\ Tail(q) \in Seq(S) /\ Tail(q) = SubSeq(q, 2, Len(q))
  BY HeadTailProperties, TailIsSubSeq
<1>3. SubSeq(q, 1, Len(q)) = <<q[1]>> \o SubSeq(q, 1 + 1, Len(q))
  BY <1>1, SubSeqRecursiveFirst
<1>4. SubSeq(q, 1, Len(q)) = q
  BY SubSeqFull
<1> QED  BY <1>1, <1>2, <1>3, <1>4

(* Taking the oldest queued packet into serialisation keeps the order. *)
LEMMA FlightTake ==
  ASSUME NEW S, NEW w \in Seq(S), NEW s \in Seq(S), NEW q \in Seq(S), q # <<>>
  PROVE  Flight(w, Append(s, Head(q)), Tail(q)) = Flight(w, s, q)
<1> DEFINE h == Head(q)
           r == Tail(q)
<1>1. q = <<h>> \o r /\ h \in S /\ r \in Seq(S) /\ <<h>> \in Seq(S)
  BY HeadThenTail
<1> HIDE DEF h, r
<1>2. Append(s, h) = s \o <<h>> /\ w \o s \in Seq(S)
  BY <1>1, AppendIsConcat, ConcatProperties
<1>3. w \o (s \o <<h>>) = (w \o s) \o <<h>>
  BY <1>1, ConcatAssociative
<1>4. ((w \o s) \o <<h>>) \o r = (w \o s) \o (<<h>> \o r)
  BY <1>1, <1>2, ConcatAssociative
<1>5. Flight(w, Append(s, h), r) = Flight(w, s, q)
  BY <1>1, <1>2, <1>3, <1>4 DEF Flight
<1> QED  BY <1>5 DEF h, r

(* The only packet in serialisation entering the wire keeps the order. *)
LEMMA FlightWire ==
  ASSUME NEW S, NEW w \in Seq(S), NEW q \in Seq(S), NEW t \in S
  PROVE  Flight(Append(w, t), <<>>, q) = Flight(w, <<t>>, q)
<1>1. Append(w, t) = w \o <<t>> /\ Append(w, t) \in Seq(S)
  BY AppendIsConcat, AppendProperties
<1>2. Append(w, t) \o <<>> = Append(w, t)
  BY <1>1, ConcatEmptySeq
<1> QED  BY <1>1, <1>2 DEF Flight

(* The oldest packet on the wire is the oldest on its way. *)
LEMMA FlightReceive ==
  ASSUME NEW S, NEW w \in Seq(S), NEW s \in Seq(S), NEW q \in Seq(S), w # <<>>
  PROVE  /\ Flight(w, s, q) # <<>>
         /\ Head(Flight(w, s, q)) = Head(w)
         /\ Tail(Flight(w, s, q)) = Flight(Tail(w), s, q)
<1> DEFINE h == Head(w)
           r == Tail(w)
           f == Flight(r, s, q)
<1>1. w = <<h>> \o r /\ h \in S /\ r \in Seq(S) /\ <<h>> \in Seq(S)
  BY HeadThenTail
<1>2. f \in Seq(S) /\ r \o s \in Seq(S)
  <2>1. r \o s \in Seq(S)
    BY <1>1, ConcatProperties
  <2>2. (r \o s) \o q \in Seq(S)
    BY <2>1, ConcatProperties
  <2> QED  BY <2>1, <2>2 DEF Flight
<1> HIDE DEF h, r
<1>3. (<<h>> \o r) \o s = <<h>> \o (r \o s)
  BY <1>1, ConcatAssociative
<1>4. (<<h>> \o (r \o s)) \o q = <<h>> \o ((r \o s) \o q)
  BY <1>1, <1>2, ConcatAssociative
<1>5. Flight(w, s, q) = <<h>> \o f
  BY <1>1, <1>3, <1>4 DEF Flight
<1> HIDE DEF f
<1>6. /\ <<h>> \o f \in Seq(S) /\ Len(<<h>> \o f) = 1 + Len(f)
      /\ \A i \in 1..1 + Len(f) : (<<h>> \o f)[i] = IF i <= 1 THEN <<h>>[i] ELSE f[i - 1]
      /\ Len(f) \in Nat
  BY <1>1, <1>2, ConcatProperties
<1>7. <<h>> \o f # <<>> /\ Head(<<h>> \o f) = h
  BY <1>6
<1>8. /\ Tail(<<h>> \o f) \in Seq(S) /\ Len(Tail(<<h>> \o f)) = Len(f)
      /\ \A i \in 1..Len(f) : Tail(<<h>> \o f)[i] = (<<h>> \o f)[i + 1]
  BY <1>6, <1>7, HeadTailProperties
<1>9. \A i \in 1..Len(f) : Tail(<<h>> \o f)[i] = f[i]
  BY <1>6, <1>8
<1>10. Tail(<<h>> \o f) = f
  BY <1>2, <1>8, <1>9, SeqEqual
<1> QED  BY <1>5, <1>7, <1>10 DEF h, r, f

(* While OneTransmit holds, the transmit whose serialisation ends is the   *)
(* only one.                                                               *)
LEMMA OnlyOneSerialises ==
  ASSUME NEW S, NEW s \in Seq(S), Len(s) <= 1, NEW k \in 1..Len(s)
  PROVE  /\ s = <<s[k]>> /\ s[k] \in S
         /\ Without(s, k) = <<>>
<1>1. Len(s) = 1 /\ k = 1
  <2>1. Len(s) \in Nat  BY LenProperties
  <2>2. \A n \in Nat : n <= 1 /\ k \in 1..n => n = 1 /\ k = 1
    OBVIOUS
  <2> QED  BY <2>1, <2>2, ZenonT(30)
<1>2. s[1] \in S
  BY <1>1, ElementOfSeq
<1>3. s = <<s[1]>>
  BY <1>1, <1>2, SeqEqual
<1>4. SubSeq(s, 1, 0) = <<>> /\ SubSeq(s, 2, 1) = <<>>
  BY SubSeqEmpty
<1> QED  BY <1>1, <1>2, <1>3, <1>4 DEF Without

(* The received packets followed by those on their way, grouped. *)
LEMMA ConcatFlight ==
  ASSUME NEW S, NEW x \in Seq(S), NEW w \in Seq(S), NEW s \in Seq(S), NEW q \in Seq(S)
  PROVE  Whole(x, w, s, q) = Joined(x, w, s, q)
<1>1. w \o s \in Seq(S) /\ x \o w \in Seq(S)
  BY ConcatProperties
<1>2. (x \o w) \o s = x \o (w \o s)
  BY ConcatAssociative
<1>3. (x \o (w \o s)) \o q = x \o ((w \o s) \o q)
  BY <1>1, ConcatAssociative
<1> QED  BY <1>2, <1>3 DEF Flight, Whole, Joined

(* Moving a packet from the head of one sequence to the end of another     *)
(* keeps their concatenation.                                              *)
LEMMA MoveOver ==
  ASSUME NEW S, NEW x \in Seq(S), NEW f \in Seq(S), f # <<>>
  PROVE  Append(x, Head(f)) \o Tail(f) = x \o f
<1> DEFINE h == Head(f)
           r == Tail(f)
<1>1. f = <<h>> \o r /\ h \in S /\ r \in Seq(S) /\ <<h>> \in Seq(S)
  BY HeadThenTail
<1> HIDE DEF h, r
<1>2. Append(x, h) = x \o <<h>>
  BY <1>1, AppendIsConcat
<1>3. (x \o <<h>>) \o r = x \o (<<h>> \o r)
  BY <1>1, ConcatAssociative
<1>4. Append(x, h) \o r = x \o f
  BY <1>1, <1>2, <1>3
<1> QED  BY <1>4 DEF h, r

(* Packets received and on their way are the packets sent: InOrder with    *)
(* the packets on their way as one sequence.                               *)
LEMMA OrderByFlight ==
  ASSUME PortTypeOK
  PROVE  InOrder <=> rx \o Flight(wire, serialising, tx_queue) = sent
<1>1. rx \o wire \o serialising \o tx_queue = rx \o Flight(wire, serialising, tx_queue)
  <2>1. /\ rx \in Seq(Packet) /\ wire \in Seq(Packet)
        /\ serialising \in Seq(Packet) /\ tx_queue \in Seq(Packet)
    BY DEF PortTypeOK
  <2>2. Whole(rx, wire, serialising, tx_queue)
          = Joined(rx, wire, serialising, tx_queue)
    BY <2>1, ConcatFlight
  <2> QED  BY <2>2 DEF Whole, Joined
<1> QED  BY <1>1 DEF InOrder

(* The same after a step. *)
LEMMA OrderByFlightNext ==
  ASSUME PortTypeOK', rx' \o Flight(wire', serialising', tx_queue') = sent'
  PROVE  InOrder'
<1>1. rx' \o wire' \o serialising' \o tx_queue'
        = rx' \o Flight(wire', serialising', tx_queue')
  <2>1. /\ rx' \in Seq(Packet) /\ wire' \in Seq(Packet)
        /\ serialising' \in Seq(Packet) /\ tx_queue' \in Seq(Packet)
    BY DEF PortTypeOK
  <2>2. Whole(rx', wire', serialising', tx_queue')
          = Joined(rx', wire', serialising', tx_queue')
    BY <2>1, ConcatFlight
  <2> QED  BY <2>2 DEF Whole, Joined
<1> QED  BY <1>1 DEF InOrder

(* Sending a packet keeps the invariant, and is a LinkSend. *)
LEMMA SendStep ==
  ASSUME PortInv, NEW t \in Packet, send(t)
  PROVE  PortInv' /\ Link!LinkSend(t)
<1> DEFINE f == Flight(wire, serialising, tx_queue)
<1>1. PortTypeOK'
  BY AppendProperties DEF PortInv, PortTypeOK, send
<1>2. OneTransmit'
  BY AppendProperties DEF PortInv, PortTypeOK, OneTransmit, send
<1>3. f \in Seq(Packet) /\ Flight(wire', serialising', tx_queue') = Append(f, t)
  BY FlightAppend DEF PortInv, PortTypeOK, send
<1>4. InOrder'
  <2>1. rx \o f = sent
    BY OrderByFlight DEF PortInv
  <2>2. rx \o Append(f, t) = Append(rx \o f, t)
    <3> HIDE DEF f
    <3>1. rx \in Seq(Packet) /\ <<t>> \in Seq(Packet) /\ rx \o f \in Seq(Packet)
      BY <1>3, ConcatProperties DEF PortInv, PortTypeOK
    <3>2. Append(f, t) = f \o <<t>> /\ Append(rx \o f, t) = (rx \o f) \o <<t>>
      BY <1>3, <3>1, AppendIsConcat
    <3> QED  BY <1>3, <3>1, <3>2, ConcatAssociative
  <2>3. rx' \o Flight(wire', serialising', tx_queue') = sent'
    BY <1>3, <2>1, <2>2 DEF send
  <2> QED  BY <1>1, <2>3, OrderByFlightNext
<1>5. Link!LinkSend(t)
  BY <1>3 DEF Flight, Link!LinkSend, send
<1> QED  BY <1>1, <1>2, <1>4, <1>5 DEF PortInv

(* A transmit that begins keeps the invariant and what is on its way. *)
LEMMA BeginStep ==
  ASSUME PortInv, TransmitBegins
  PROVE  /\ PortInv' /\ rx' = rx
         /\ Flight(wire', serialising', tx_queue') = Flight(wire, serialising, tx_queue)
<1> DEFINE f == Flight(wire, serialising, tx_queue)
<1>1. PortTypeOK
  BY DEF PortInv
<1>2. wire' = wire /\ rx' = rx /\ sent' = sent
  BY DEF TransmitBegins
<1>3. ASSUME PortTypeOK', Flight(wire', serialising', tx_queue') = f
      PROVE  InOrder'
  <2>1. rx \o f = sent
    BY <1>1, OrderByFlight DEF PortInv
  <2>2. rx' \o Flight(wire', serialising', tx_queue') = sent'
    BY <1>2, <1>3, <2>1, ZenonT(30)
  <2> QED  BY <1>3, <2>2, OrderByFlightNext, ZenonT(30)
<1>4. CASE tx_queue # <<>>
  <2>1. /\ starting > 0 /\ starting' = starting - 1
        /\ serialising' = Append(serialising, Head(tx_queue))
        /\ tx_queue' = Tail(tx_queue) /\ tx_scheduled' = tx_scheduled
    BY <1>4, ZenonT(30) DEF TransmitBegins
  <2>2. /\ Head(tx_queue) \in Packet /\ Tail(tx_queue) \in Seq(Packet)
        /\ serialising \in Seq(Packet)
    BY <1>1, <1>4, HeadTailProperties DEF PortTypeOK
  <2>3. serialising' \in Seq(Packet) /\ Len(serialising') = Len(serialising) + 1
    BY <2>1, <2>2, AppendProperties
  <2>4. PortTypeOK'
    BY <1>1, <1>2, <2>1, <2>2, <2>3 DEF PortTypeOK
  <2>5. OneTransmit'
    <3>1. starting + Len(serialising) = starting' + Len(serialising')
      BY <1>1, <2>1, <2>3, LenProperties DEF PortTypeOK
    <3>2. tx_scheduled
      BY <1>4, ZenonT(30) DEF PortInv, OneTransmit
    <3> QED  BY <2>1, <3>1, <3>2, ZenonT(30) DEF PortInv, OneTransmit
  <2>6. Flight(wire', serialising', tx_queue') = f
    <3>1. Flight(wire, Append(serialising, Head(tx_queue)), Tail(tx_queue)) = f
      BY <1>1, <1>4, FlightTake, ZenonT(30) DEF PortTypeOK
    <3> QED  BY <1>2, <2>1, <3>1, ZenonT(30)
  <2> QED  BY <1>2, <1>3, <2>4, <2>5, <2>6 DEF PortInv
<1>5. CASE tx_queue = <<>>
  <2>1. /\ starting > 0 /\ starting' = starting - 1
        /\ tx_scheduled' = FALSE /\ tx_queue' = tx_queue /\ serialising' = serialising
    BY <1>5, ZenonT(30) DEF TransmitBegins
  <2>2. PortTypeOK'
    BY <1>1, <1>2, <2>1 DEF PortTypeOK
  <2>3. OneTransmit'
    <3>1. starting + Len(serialising) <= 1
      BY DEF PortInv, OneTransmit
    <3>2. starting' + Len(serialising') = 0
      BY <1>1, <2>1, <3>1, LenProperties DEF PortTypeOK
    <3>3. tx_queue' = <<>>
      BY <1>5, <2>1
    <3> QED  BY <2>1, <3>2, <3>3, ZenonT(30) DEF OneTransmit
  <2>4. Flight(wire', serialising', tx_queue') = f
    BY <1>2, <2>1, ZenonT(30)
  <2> QED  BY <1>2, <1>3, <2>2, <2>3, <2>4 DEF PortInv
<1> QED  BY <1>4, <1>5

(* The end of a serialisation keeps the invariant and what is on its way. *)
LEMMA SerialisedStep ==
  ASSUME PortInv, Serialised
  PROVE  /\ PortInv' /\ rx' = rx
         /\ Flight(wire', serialising', tx_queue') = Flight(wire, serialising, tx_queue)
<1> DEFINE f == Flight(wire, serialising, tx_queue)
<1>1. PICK k \in 1..Len(serialising) :
        /\ wire' = Append(wire, serialising[k])
        /\ serialising' = SubSeq(serialising, 1, k - 1)
                            \o SubSeq(serialising, k + 1, Len(serialising))
        /\ starting' = starting + 1
        /\ UNCHANGED <<tx_queue, tx_scheduled, rx, sent>>
  BY ZenonT(30) DEF Serialised
<1>2. /\ tx_queue \in Seq(Packet) /\ serialising \in Seq(Packet)
      /\ wire \in Seq(Packet) /\ starting \in Nat
  BY DEF PortInv, PortTypeOK
<1>3. starting + Len(serialising) <= 1 /\ Len(serialising) \in Nat
  BY <1>2, LenProperties DEF PortInv, OneTransmit
<1>4. Len(serialising) <= 1
  BY <1>2, <1>3
<1>5. /\ serialising = <<serialising[k]>> /\ serialising[k] \in Packet
      /\ serialising' = <<>>
  <2>1. /\ serialising = <<serialising[k]>> /\ serialising[k] \in Packet
        /\ Without(serialising, k) = <<>>
    BY <1>2, <1>4, OnlyOneSerialises
  <2> QED  BY <1>1, <2>1, ZenonT(30) DEF Without
<1>6. PortTypeOK'
  <2>1. Append(wire, serialising[k]) \in Seq(Packet)
    BY <1>2, <1>5, AppendProperties
  <2>2. <<>> \in Seq(Packet)
    BY EmptySeq
  <2> QED  BY <1>1, <1>2, <1>5, <2>1, <2>2 DEF PortInv, PortTypeOK
<1>7. OneTransmit'
  <2>1. Len(serialising) = 1 /\ Len(serialising') = 0
    BY <1>5
  <2>2. starting + Len(serialising) = starting' + Len(serialising')
    BY <1>1, <1>2, <2>1
  <2> QED  BY <1>1, <2>2, ZenonT(30) DEF PortInv, OneTransmit
<1>8. Flight(wire', serialising', tx_queue') = f
  <2>1. Flight(Append(wire, serialising[k]), <<>>, tx_queue)
          = Flight(wire, <<serialising[k]>>, tx_queue)
    BY <1>2, <1>5, FlightWire, ZenonT(30)
  <2>2. Flight(wire, <<serialising[k]>>, tx_queue) = f
    BY <1>5, ZenonT(30)
  <2>3. Flight(wire', serialising', tx_queue')
          = Flight(Append(wire, serialising[k]), <<>>, tx_queue)
    BY <1>1, <1>5, ZenonT(30)
  <2> QED  BY <2>1, <2>2, <2>3
<1>9. rx' = rx /\ sent' = sent
  BY <1>1
<1>10. InOrder'
  <2>1. rx \o f = sent
    BY OrderByFlight DEF PortInv
  <2>2. rx' \o Flight(wire', serialising', tx_queue') = sent'
    BY <1>8, <1>9, <2>1, ZenonT(30)
  <2> QED  BY <1>6, <2>2, OrderByFlightNext, ZenonT(30)
<1> QED  BY <1>6, <1>7, <1>8, <1>9, <1>10 DEF PortInv

(* A packet that leaves the wire keeps the invariant, and is a LinkReceive. *)
LEMMA ReceiveStep ==
  ASSUME PortInv, ext_recv
  PROVE  PortInv' /\ Link!LinkReceive
<1> DEFINE f == Flight(wire, serialising, tx_queue)
<1>1. /\ tx_queue \in Seq(Packet) /\ serialising \in Seq(Packet)
      /\ wire \in Seq(Packet) /\ rx \in Seq(Packet) /\ wire # <<>>
  BY DEF PortInv, PortTypeOK, ext_recv
<1>2. PortTypeOK'
  <2>1. Head(wire) \in Packet /\ Tail(wire) \in Seq(Packet)
    BY <1>1, HeadTailProperties
  <2> QED  BY <2>1 DEF PortInv, PortTypeOK, ext_recv
<1>3. OneTransmit'
  BY DEF PortInv, OneTransmit, ext_recv
<1>4. /\ f # <<>> /\ Head(f) = Head(wire)
      /\ Tail(f) = Flight(Tail(wire), serialising, tx_queue)
  <2>1. f # <<>>
    BY <1>1, FlightReceive
  <2>2. Head(f) = Head(wire)
    BY <1>1, FlightReceive
  <2>3. Tail(f) = Flight(Tail(wire), serialising, tx_queue)
    BY <1>1, FlightReceive
  <2> QED  BY <2>1, <2>2, <2>3, ZenonT(30)
<1>5. f \in Seq(Packet)
  <2>1. wire \o serialising \in Seq(Packet)
    BY <1>1, ConcatProperties
  <2> QED  BY <1>1, <2>1, ConcatProperties DEF Flight
<1>6. rx \o f = sent
  BY OrderByFlight DEF PortInv
<1>7. rx' = Append(rx, Head(f)) /\ Flight(wire', serialising', tx_queue') = Tail(f)
  BY <1>4, ZenonT(30) DEF ext_recv
<1>8. InOrder'
  <2>1. Append(rx, Head(f)) \o Tail(f) = rx \o f
    <3> HIDE DEF f
    <3> QED  BY <1>1, <1>4, <1>5, MoveOver, ZenonT(30)
  <2>2. sent' = sent
    BY DEF ext_recv
  <2>3. rx' \o Flight(wire', serialising', tx_queue') = sent'
    <3> HIDE DEF f
    <3> QED  BY <1>6, <1>7, <2>1, <2>2, ZenonT(30)
  <2> QED  BY <1>2, <2>3, OrderByFlightNext
<1>9. Link!LinkReceive
  BY <1>4, <1>7 DEF Flight, Link!LinkReceive
<1> QED  BY <1>2, <1>3, <1>8, <1>9 DEF PortInv

(* The invariant holds initially. *)
LEMMA PortInit == Init => PortInv
<1> SUFFICES ASSUME Init PROVE PortInv
  OBVIOUS
<1>1. PortTypeOK
  <2>1. <<>> \in Seq(Packet)
    BY EmptySeq
  <2> QED  BY <2>1 DEF Init, PortTypeOK
<1>2. OneTransmit
  BY DEF Init, OneTransmit
<1>3. InOrder
  BY DEF Init, InOrder
<1> QED  BY <1>1, <1>2, <1>3 DEF PortInv

(* Every step keeps the invariant and is a step, or a stutter, of the link. *)
LEMMA PortStep ==
  ASSUME PortInv, [Next]_vars
  PROVE  /\ PortInv'
         /\ Link!LinkNext
              \/ UNCHANGED <<Flight(wire, serialising, tx_queue), rx>>
<1>1. ASSUME NEW t \in Packet, send(t)
      PROVE  PortInv' /\ Link!LinkNext
  BY <1>1, SendStep DEF Link!LinkNext
<1>2. CASE TransmitBegins
  BY <1>2, BeginStep
<1>3. CASE Serialised
  BY <1>3, SerialisedStep
<1>4. CASE ext_recv
  BY <1>4, ReceiveStep DEF Link!LinkNext
<1>5. CASE UNCHANGED vars
  <2>1. PortInv'
    BY <1>5 DEF vars, PortInv, PortTypeOK, OneTransmit, InOrder
  <2> QED  BY <1>5, <2>1 DEF vars
<1> QED  BY <1>1, <1>2, <1>3, <1>4, <1>5 DEF Next

(* A port never runs two transmits at once, never leaves a queued packet   *)
(* without one, and neither loses, duplicates nor reorders packets.        *)
THEOREM PortIsInOrder == Spec => [](OneTransmit /\ InOrder)
<1>1. PortInv => OneTransmit /\ InOrder
  BY DEF PortInv
<1> QED  BY <1>1, PortInit, PortStep, PTL DEF Spec

(* The port implements the link: send queues on it, ext_recv takes from    *)
(* it, and the steps of transmit between them are not seen.                *)
THEOREM PortImplementsLink == Spec => ImplementsLink
<1>1. Init => Link!LinkInit
  BY DEF Init, Link!LinkInit
<1>2. PortInv /\ [Next]_vars
        => [Link!LinkNext]_<<wire \o serialising \o tx_queue, rx>>
  BY PortStep DEF Flight
<1> QED  BY <1>1, <1>2, PortInit, PortStep, PTL DEF Spec, ImplementsLink, Link!LinkSpec
=============================================================================
