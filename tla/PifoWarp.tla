------------------------------ MODULE PifoWarp ------------------------------
(***************************************************************************)
(* pifo_warp around the push-in-first-out queue, which is taken at its     *)
(* list view (PifoList, implemented by PifoArray).                         *)
(*                                                                         *)
(* The drop path (push_1_drop, odrop_vld_0) needs more than 8 elements;    *)
(* invariant PifoHoldsEachAppOnce of RxScheduler bounds them by the number *)
(* of applications, of which there are 2^APP_ID_WIDTH = 4.                 *)
(***************************************************************************)
EXTENDS QueueManager, PifoList

ASSUME PifoWarpAssumption == IsFiniteSet(App) /\ Cardinality(App) <= 8

VARIABLES
  if_empty,          \* the application's queue was found empty when served
  if_pifo_enqueued,  \* the application is in the PIFO
  pifo_counter_reg   \* 5-bit element count that enables pop_0

warpVars == <<listVars, if_empty, if_pifo_enqueued, pifo_counter_reg>>

WarpInit ==
  /\ ListInit
  /\ if_empty = [a \in App |-> TRUE]
  /\ if_pifo_enqueued = [a \in App |-> FALSE]
  /\ pifo_counter_reg = 0

(* Fault: an application already in the PIFO is inserted again. *)
push_1_Unchecked(in) == in

push_1(in) ==
  IF in # <<>> /\ ~if_pifo_enqueued[in[1].app] THEN in ELSE <<>>

push_2 == IF ovld_0 # <<>> /\ ~if_empty[ovld_0[1].app] THEN ovld_0 ELSE <<>>

(* Faults: the dispatcher's ready, or the output register, is not looked at. *)
pop_0_NotReady(ready) == pifo_counter_reg > 0 /\ ovld_0 = <<>>
pop_0_BackToBack(ready) == ready /\ pifo_counter_reg > 0

pop_0(ready) == ready /\ pifo_counter_reg > 0 /\ ovld_0 = <<>>

(* One clock edge: `in' is pifo_in, `empty' the slot of pifo_in_empty_data. *)
WarpClock(in, empty, ready, mask) ==
  /\ ListClock(pop_0(ready), push_1(in), push_2, mask)
  /\ if_empty' = [a \in App |->
       empty = <<a>> \/ (if_empty[a] /\ ~(in # <<>> /\ in[1].app = a))]
  /\ if_pifo_enqueued' = [a \in App |->
       \/ push_1(in) # <<>> /\ in[1].app = a
       \/ push_2 # <<>> /\ push_2[1].app = a
       \/ if_pifo_enqueued[a] /\ ~(ovld_0 # <<>> /\ ovld_0[1].app = a)]
  /\ pifo_counter_reg' =
       (pifo_counter_reg + Len(push_1(in)) + Len(push_2) - Len(ovld_0)) % 32

WarpTypeOK ==
  /\ pf \in Seq(Desc)
  /\ push_lo \in Slot(App)
  /\ ovld_0 \in Slot(Desc)
  /\ if_empty \in [App -> BOOLEAN]
  /\ if_pifo_enqueued \in [App -> BOOLEAN]
  /\ pifo_counter_reg \in 0..31
=============================================================================
