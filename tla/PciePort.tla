------------------------------ MODULE PciePort ------------------------------
(***************************************************************************)
(* Port of pcie.py: send queues a packet and starts the generator transmit *)
(* unless one is scheduled; transmit takes a packet, waits for its         *)
(* serialisation time, starts the next transmit and, after the link delay, *)
(* hands the packet to the other port.  The link delay is the same for     *)
(* every packet, so packets leave the wire in the order they entered it.   *)
(* MyHDL resumes the sender as soon as transmit is forked, so that setting *)
(* tx_scheduled is part of send.                                           *)
(***************************************************************************)
EXTENDS Integers, Sequences

CONSTANTS Packet, MaxSent      \* bound: packets sent in a behaviour

ASSUME MaxSentAssumption == MaxSent \in Nat

VARIABLES
  tx_queue,
  tx_scheduled,
  starting,     \* transmit generators forked and not yet begun
  serialising,  \* packets whose transmit waits for the serialisation time
  wire,         \* packets in the link delay, oldest first
  rx,           \* packets the other port's ext_recv has got
  sent          \* packets given to send

vars == <<tx_queue, tx_scheduled, starting, serialising, wire, rx, sent>>

Init ==
  /\ tx_queue = <<>>
  /\ tx_scheduled = FALSE
  /\ starting = 0
  /\ serialising = <<>>
  /\ wire = <<>>
  /\ rx = <<>>
  /\ sent = <<>>

(* Faults: the flag is never set; it is not cleared when the queue is empty. *)
send_NoFlag(t) ==
  /\ Len(sent) < MaxSent
  /\ tx_queue' = Append(tx_queue, t)
  /\ sent' = Append(sent, t)
  /\ starting' = IF tx_scheduled THEN starting ELSE starting + 1
  /\ UNCHANGED <<tx_scheduled, serialising, wire, rx>>

send(t) ==
  /\ Len(sent) < MaxSent
  /\ tx_queue' = Append(tx_queue, t)
  /\ sent' = Append(sent, t)
  /\ starting' = IF tx_scheduled THEN starting ELSE starting + 1
  /\ tx_scheduled' = TRUE
  /\ UNCHANGED <<serialising, wire, rx>>

(* A forked transmit begins: it takes a packet or ends. *)
TransmitBegins_StaysScheduled ==
  /\ starting > 0
  /\ starting' = starting - 1
  /\ IF tx_queue # <<>>
     THEN /\ serialising' = Append(serialising, Head(tx_queue))
          /\ tx_queue' = Tail(tx_queue)
     ELSE UNCHANGED <<tx_queue, serialising>>
  /\ UNCHANGED <<tx_scheduled, wire, rx, sent>>

TransmitBegins ==
  /\ starting > 0
  /\ starting' = starting - 1
  /\ IF tx_queue # <<>>
     THEN /\ serialising' = Append(serialising, Head(tx_queue))
          /\ tx_queue' = Tail(tx_queue)
          /\ UNCHANGED tx_scheduled
     ELSE /\ tx_scheduled' = FALSE
          /\ UNCHANGED <<tx_queue, serialising>>
  /\ UNCHANGED <<wire, rx, sent>>

(* The serialisation time of a packet is over; with several transmits at   *)
(* once it would be that of any of them.                                   *)
Serialised ==
  \E k \in 1..Len(serialising) :
    /\ wire' = Append(wire, serialising[k])
    /\ serialising' = SubSeq(serialising, 1, k - 1)
                        \o SubSeq(serialising, k + 1, Len(serialising))
    /\ starting' = starting + 1
    /\ UNCHANGED <<tx_queue, tx_scheduled, rx, sent>>

(* The link delay of the oldest packet is over: _transmit and ext_recv. *)
ext_recv ==
  /\ wire # <<>>
  /\ rx' = Append(rx, Head(wire))
  /\ wire' = Tail(wire)
  /\ UNCHANGED <<tx_queue, tx_scheduled, starting, serialising, sent>>

Next == (\E t \in Packet : send(t)) \/ TransmitBegins \/ Serialised \/ ext_recv

(* Delays end: the simulation time moves on. *)
Fairness == WF_vars(TransmitBegins) /\ WF_vars(Serialised) /\ WF_vars(ext_recv)

Spec == Init /\ [][Next]_vars /\ Fairness

(* At most one transmit is at work before the link delay, it is there      *)
(* exactly while tx_scheduled is set, and a queued packet always has one:  *)
(* the flag never lets two transmits serialise at once nor leaves a packet *)
(* behind.                                                                 *)
OneTransmit ==
  /\ starting + Len(serialising) = IF tx_scheduled THEN 1 ELSE 0
  /\ tx_queue # <<>> => tx_scheduled

(* Packets are neither lost, duplicated nor reordered between send and     *)
(* ext_recv, whatever their serialisation times.                           *)
InOrder == rx \o wire \o serialising \o tx_queue = sent

(* The port implements a link in each direction. *)
Link == INSTANCE PcieLink WITH flight <- wire \o serialising \o tx_queue, received <- rx

ImplementsLink == Link!LinkSpec

(* Every packet sent arrives: again and again the other port has all of    *)
(* them, although transmit ends when it finds the queue empty and only     *)
(* send starts it again.                                                   *)
EverythingArrives == []<>(Len(rx) = Len(sent))
=============================================================================
