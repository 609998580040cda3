----------------------------- MODULE RxFairness -----------------------------
(***************************************************************************)
(* Progress of the receive scheduler for one application, Watched, that    *)
(* always has an eligible core.  The clock ticks, and the receive engine   *)
(* takes a descriptor that is offered to it forever.                       *)
(***************************************************************************)
EXTENDS RxScheduler

CONSTANT Watched

ASSUME WatchedAssumption == Watched \in App

WatchedCycle(m_ready) ==
  \E mask \in SUBSET App, drop \in BOOLEAN, next \in Slot(Desc) :
    /\ IF pop_0(s_packet_desc_ready) THEN Watched \in mask ELSE mask = {}
    /\ (qm_packet_desc # <<>> /\ ~FindMin) \/ ~drop
    /\ Cycle(mask, m_ready, drop, next)

(* The receive engine is ready, or not. *)
EngineReady == WatchedCycle(TRUE)
EngineStalls == m_packet_desc_valid /\ WatchedCycle(FALSE)

FairSpec ==
  /\ Init
  /\ [][EngineReady \/ EngineStalls]_vars
  /\ WF_vars(EngineReady)

Served(a) == qm_packet_desc_req = <<a>> /\ out_app_fifo_valid(a)

(* Every stored descriptor of an application that stays eligible is        *)
(* eventually handed to the dispatcher: with equal priorities the PIFO     *)
(* serves in turn, and neither the fixed-priority arbiter nor the          *)
(* if_empty / if_pifo_enqueued suppression starves a handler.              *)
StoredIsServed == Occupancy(app_fifo[Watched]) > 0 ~> Served(Watched)
=============================================================================
