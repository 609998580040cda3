---------------------------- MODULE QueueManager ----------------------------
(***************************************************************************)
(* pifo_queue_manager: one descriptor FIFO per application, and for each   *)
(* of them a handler that asks the PIFO to schedule the application.  The  *)
(* handlers share the PIFO's insertion port through a registered           *)
(* fixed-priority arbiter.                                                 *)
(***************************************************************************)
EXTENDS AxisFifo, Descriptor, Integers

CONSTANTS
  QueueSize,      \* queue_size, per application
  QueueDepth      \* PER_QUEUE_RAM_SIZE

(* fifo_counter has 10 bits. *)
ASSUME QueueManagerAssumption ==
  /\ QueueSize \in [App -> Nat]
  /\ QueueDepth \in 1..1021

VARIABLES
  app_fifo,            \* pk_len_fifo of each application
  fifo_counter,        \* 10-bit occupancy the drop decision reads
  if_handler_oustand,  \* the handler has an insertion outstanding
  grant                \* registered arbiter output: an application and prio_ctrl

qmVars == <<app_fifo, fifo_counter, if_handler_oustand, grant>>

OutputStages == 2      \* PIPELINE_OUTPUT of pk_len_fifo (default)

QMInit ==
  /\ app_fifo = [a \in App |-> EmptyFifo(OutputStages)]
  /\ fifo_counter = [a \in App |-> 0]
  /\ if_handler_oustand = [a \in App |-> FALSE]
  /\ grant = <<>>

out_app_fifo_valid(a) == TValid(app_fifo[a])

Granted(a) == grant # <<>> /\ grant[1].app = a

(* Fault: the queue may hold one descriptor more. *)
if_free_OffByOne(a) == QueueSize[a] > 0 /\ fifo_counter[a] >= QueueSize[a]

(* queue_size - 1 is an unsigned subtraction: for a size of 0 it wraps to  *)
(* a value the 10-bit counter never reaches.                               *)
if_free(a) == QueueSize[a] > 0 /\ fifo_counter[a] >= QueueSize[a] - 1

(* The packet offered at the input is for a, and stored or dropped. *)
Stored(in, a)  == in # <<>> /\ in[1].app = a /\ ~if_free(a)
Dropped(in)    == in # <<>> /\ if_free(in[1].app)

pifo_enqueue_arb_valid(a) ==
  out_app_fifo_valid(a) /\ ~if_handler_oustand[a] /\ ~Granted(a)

(* The arbiter registers the highest-numbered request; prio_ctrl latches   *)
(* the priority of the descriptor at the head when the request is made.    *)
Arbitrate ==
  \/ /\ \A a \in App : ~pifo_enqueue_arb_valid(a)
     /\ grant' = <<>>
  \/ \E a \in App :
       /\ pifo_enqueue_arb_valid(a)
       /\ \A b \in App : pifo_enqueue_arb_valid(b) => b <= a
       /\ grant' = <<[app |-> a, prio |-> TData(app_fifo[a]).prio]>>

(* Fault: a grant outlives a dequeue at the same edge. *)
OutstandNext_GrantWins(a, req) ==
  Granted(a) \/ (if_handler_oustand[a] /\ req # <<a>>)

(* The handler's flag after the edge: a dequeue clears it, even when the   *)
(* grant arrives at the same edge.                                         *)
OutstandNext(a, req) ==
  req # <<a>> /\ (if_handler_oustand[a] \/ Granted(a))

(* One clock edge: `in' is the arriving descriptor, `req' the application  *)
(* the scheduler dequeues (m_packet_desc_req with m_packet_desc_app_id).   *)
QMClock(in, req) ==
  /\ app_fifo' = [a \in App |->
       Clock(app_fifo[a], QueueDepth,
             IF Stored(in, a) THEN in ELSE <<>>, req = <<a>>)]
  /\ fifo_counter' = [a \in App |->
       (fifo_counter[a]
          + (IF Stored(in, a) /\ TReady(app_fifo[a], QueueDepth) THEN 1 ELSE 0)
          - (IF out_app_fifo_valid(a) /\ req = <<a>> THEN 1 ELSE 0)) % 1024]
  /\ if_handler_oustand' = [a \in App |-> OutstandNext(a, req)]
  /\ Arbitrate

(* m_pifo_empty: the scheduler asked an application with nothing to give.  *)
m_pifo_empty(req) == req # <<>> /\ ~out_app_fifo_valid(req[1])

QMTypeOK ==
  /\ \A a \in App : IsFifo(app_fifo[a], Desc, QueueDepth, OutputStages)
  /\ DOMAIN app_fifo = App
  /\ fifo_counter \in [App -> 0..1023]
  /\ if_handler_oustand \in [App -> BOOLEAN]
  /\ grant \in Slot(Desc)

(* The occupancy the drop decision reads is exact, and an application      *)
(* never holds more than queue_size - 1 descriptors.                       *)
OccupancyIsExact ==
  \A a \in App :
    /\ fifo_counter[a] = Occupancy(app_fifo[a])
    /\ QueueSize[a] > 0 => fifo_counter[a] <= QueueSize[a] - 1
=============================================================================
