---------------------------- MODULE RxScheduler -----------------------------
(***************************************************************************)
(* The receive scheduler: queue manager, PIFO and dispatcher on one clock, *)
(* wired as in ringleader and desc_sche_pifo.  Every combinational path    *)
(* between them is an operator over the registers; one step is one edge.   *)
(***************************************************************************)
EXTENDS PifoWarp, Dispatch

VARIABLE s_packet_desc    \* descriptor on the queue manager's input (gen_packet_desc)

vars == <<qmVars, warpVars, dispVars, s_packet_desc>>

Init == QMInit /\ WarpInit /\ DispInit /\ s_packet_desc = <<>>

(* desc_sche_pifo: qm_packet_desc_req with qm_packet_desc_app_id. *)
qm_packet_desc_req ==
  IF ovld_0 # <<>> /\ s_packet_desc_ready THEN <<ovld_0[1].app>> ELSE <<>>

(* The descriptor the dispatcher is handed: valid only with the request. *)
qm_packet_desc ==
  IF qm_packet_desc_req # <<>> /\ out_app_fifo_valid(ovld_0[1].app)
  THEN <<TData(app_fifo[ovld_0[1].app])>> ELSE <<>>

sche_pifo_empty ==
  IF m_pifo_empty(qm_packet_desc_req) THEN qm_packet_desc_req ELSE <<>>

(* Cells given back to the allocator: by the queue manager for a full      *)
(* queue, by the dispatcher for an RSS drop.                               *)
free_mem_req_2 == Dropped(s_packet_desc)
free_mem_req_1 == if_drop

(* One clock edge with eligibility mask `mask', the receive engine's ready *)
(* `m_ready', the RSS verdict `drop' on the descriptor handed over, and    *)
(* `next' the descriptor that desc_gen offers after the edge.              *)
Cycle(mask, m_ready, drop, next) ==
  /\ QMClock(s_packet_desc, qm_packet_desc_req)
  /\ WarpClock(grant, sche_pifo_empty, s_packet_desc_ready, mask)
  /\ DispClock(qm_packet_desc, drop, m_ready)
  /\ s_packet_desc' = next

(* The inputs are free; one that no register reads at this edge is fixed. *)
Next ==
  \E mask \in SUBSET App, m_ready \in BOOLEAN, drop \in BOOLEAN,
     next \in Slot(Desc) :
    /\ pop_0(s_packet_desc_ready) \/ mask = {}
    /\ m_packet_desc_valid \/ ~m_ready
    /\ (qm_packet_desc # <<>> /\ ~FindMin) \/ ~drop
    /\ Cycle(mask, m_ready, drop, next)

Spec == Init /\ [][Next]_vars

-----------------------------------------------------------------------------
TypeOK ==
  /\ QMTypeOK
  /\ WarpTypeOK
  /\ DispTypeOK
  /\ s_packet_desc \in Slot(Desc)

(* The application is in the PIFO's array or on its output. *)
InPifo(a) ==
  \/ \E i \in DOMAIN pf : pf[i].app = a
  \/ ovld_0 # <<>> /\ ovld_0[1].app = a

(* No lost wakeup: an application with a descriptor to give is in the      *)
(* PIFO, or its handler is asking or has just been granted an insertion.   *)
(* The insertion of a granted handler is suppressed when if_pifo_enqueued  *)
(* is still set, and the re-insertion of a popped application when         *)
(* if_empty is, and the two may meet at one edge.                          *)
NoLostWakeup ==
  \A a \in App : out_app_fifo_valid(a) =>
    InPifo(a) \/ pifo_enqueue_arb_valid(a) \/ Granted(a)

(* "There is no double insert for an application" (pifo.sv): each          *)
(* application is at most once in the PIFO, if_pifo_enqueued says exactly  *)
(* whether, and pifo_counter_reg counts the elements.                      *)
PifoHoldsEachAppOnce ==
  /\ \A i, j \in DOMAIN pf : pf[i].app = pf[j].app => i = j
  /\ \A i \in DOMAIN pf : ovld_0 # <<pf[i]>> /\ (ovld_0 # <<>> => ovld_0[1].app # pf[i].app)
  /\ \A a \in App : if_pifo_enqueued[a] <=> InPifo(a)
  /\ pifo_counter_reg = Len(pf) + Len(ovld_0)

(* The scheduler uses the PIFO only in the way its list view requires, so  *)
(* that PifoArray's register array is a correct implementation of it here. *)
PifoUsedAsList == ListSpec

(* A popped application is always asked for its descriptor: pop_0 looks at *)
(* the dispatcher's ready one clock before the request is made.            *)
PoppedIsRequested == ovld_0 # <<>> => s_packet_desc_ready

(* "we do not need ready signal" (ringleader.v): neither source of a free  *)
(* can be refused, so neither sees nor needs a ready.  The multiplexer     *)
(* forwards free_mem_req_2 and discards a free_mem_req_1 at the same edge. *)
EveryDropIsFreed == ~(free_mem_req_1 /\ free_mem_req_2)
=============================================================================
