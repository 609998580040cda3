------------------------------ MODULE PcieLink ------------------------------
(***************************************************************************)
(* What one direction of a PCIe link promises: the packets sent arrive     *)
(* once each, in the order they were sent.                                 *)
(***************************************************************************)
EXTENDS Sequences

CONSTANT Packet

VARIABLES
  flight,      \* packets sent and not yet received, oldest first
  received     \* packets received, oldest first

LinkInit == flight = <<>> /\ received = <<>>

LinkSend(t) == flight' = Append(flight, t) /\ UNCHANGED received

LinkReceive ==
  /\ flight # <<>>
  /\ received' = Append(received, Head(flight))
  /\ flight' = Tail(flight)

LinkNext == (\E t \in Packet : LinkSend(t)) \/ LinkReceive

LinkSpec == LinkInit /\ [][LinkNext]_<<flight, received>>
=============================================================================
