----------------------------- MODULE Descriptor -----------------------------
(***************************************************************************)
(* The packet descriptor of the receive path (RL_DESC_* in define.v), cut  *)
(* to the two fields that scheduling and dispatch read.                    *)
(***************************************************************************)
EXTENDS Naturals

CONSTANTS
  App,     \* application ids; the arbiters rank them by number
  Prio     \* priorities; smaller is more urgent

ASSUME DescriptorAssumption ==
  /\ App \subseteq Nat
  /\ Prio \subseteq Nat

Desc == [app : App, prio : Prio]
=============================================================================
