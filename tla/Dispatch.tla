------------------------------ MODULE Dispatch ------------------------------
(***************************************************************************)
(* desc_dispatch: an accepted descriptor waits in in_find_min_fifo while   *)
(* the reduce tree looks for its core; the result, a fixed number of       *)
(* clocks later, moves it to out_fifo, from which the receive engine takes *)
(* it.  out_fifo_counter is the credit: descriptors inside the dispatcher. *)
(*                                                                         *)
(* The tree is its delay line: a request and the RSS policy's drop verdict *)
(* (queue_length_state >= rank_upbound) on it.  Which core it selects is   *)
(* not modelled here.                                                      *)
(***************************************************************************)
EXTENDS AxisFifo, Descriptor, Integers

CONSTANTS
  FindMin,         \* sche_policy == 1; otherwise RSS
  Credits,         \* descriptors the dispatcher may hold (4 in the code)
  InDepth,         \* depth of in_find_min_fifo
  OutDepth         \* depth of out_fifo

ASSUME DispatchAssumption ==
  /\ FindMin \in BOOLEAN
  /\ Credits \in 1..255
  /\ InDepth \in Nat \ {0}
  /\ OutDepth \in Nat
  /\ Credits <= OutDepth

VARIABLES
  in_find_min_fifo,   \* accepted, waiting for a core
  tree,               \* tree[i]: the request made i clocks ago, with its verdict
  out_fifo,           \* assigned, waiting for the receive engine
  out_fifo_counter    \* 8-bit credit counter

dispVars == <<in_find_min_fifo, tree, out_fifo, out_fifo_counter>>

(* Registers between s_findmin_req_en and m_findmin_result_en: the request *)
(* and the result, and for find-min three registered levels of the tree.   *)
Latency == IF FindMin THEN 5 ELSE 2

Request == [desc : Desc, drop : BOOLEAN]

DispInit ==
  /\ in_find_min_fifo = EmptyFifo(1)
  /\ tree = [i \in 1..Latency |-> <<>>]
  /\ out_fifo = EmptyFifo(1)
  /\ out_fifo_counter = 0

(* Fault: the credit is not looked at. *)
s_packet_desc_ready_NoCredit == TReady(in_find_min_fifo, InDepth)

s_packet_desc_ready ==
  TReady(in_find_min_fifo, InDepth) /\ out_fifo_counter < Credits

min_queue_en == tree[Latency] # <<>>
if_drop      == min_queue_en /\ tree[Latency][1].drop

(* Fault: a dropped descriptor stays in in_find_min_fifo. *)
m_out_fifo_packet_desc_ready_KeepsDropped ==
  TReady(out_fifo, OutDepth) /\ min_queue_en /\ ~if_drop

m_out_fifo_packet_desc_ready == TReady(out_fifo, OutDepth) /\ min_queue_en

m_packet_desc_valid == TValid(out_fifo)

(* One clock edge: `s' is the descriptor accepted, `drop' the verdict its  *)
(* request will get, `m_ready' the receive engine's ready.                 *)
DispClock(s, drop, m_ready) ==
  LET moved == IF /\ TValid(in_find_min_fifo)
                  /\ m_out_fifo_packet_desc_ready
                  /\ ~if_drop
               THEN <<TData(in_find_min_fifo)>> ELSE <<>>
  IN  /\ in_find_min_fifo' =
           Clock(in_find_min_fifo, InDepth, s, m_out_fifo_packet_desc_ready)
      /\ tree' = [i \in 1..Latency |->
           IF i > 1 THEN tree[i-1]
           ELSE IF s = <<>> THEN <<>>
           ELSE <<[desc |-> s[1], drop |-> drop /\ ~FindMin]>>]
      /\ out_fifo' = Clock(out_fifo, OutDepth, moved, m_ready)
      /\ out_fifo_counter' =
           (out_fifo_counter
              + Len(s)
              - (IF m_packet_desc_valid /\ m_ready THEN 1 ELSE 0)
              - (IF if_drop THEN 1 ELSE 0)) % 256

DispTypeOK ==
  /\ IsFifo(in_find_min_fifo, Desc, InDepth, 1)
  /\ tree \in [1..Latency -> Slot(Request)]
  /\ IsFifo(out_fifo, Desc, OutDepth, 1)
  /\ out_fifo_counter \in 0..Credits

(***************************************************************************)
(* The component alone, offered a descriptor at any clock at which it is   *)
(* ready.                                                                  *)
(***************************************************************************)
DispNext ==
  \E s \in Slot(Desc), drop \in BOOLEAN, m_ready \in BOOLEAN :
    /\ s # <<>> => s_packet_desc_ready
    /\ DispClock(s, drop, m_ready)

DispSpec == DispInit /\ [][DispNext]_dispVars

(* A result always finds its own descriptor at the head of                 *)
(* in_find_min_fifo, and room in out_fifo: desc_dispatch pairs the two by  *)
(* timing alone and checks neither when it frees the cell of a drop.       *)
ResultMeetsItsDescriptor ==
  min_queue_en =>
    /\ TValid(in_find_min_fifo)
    /\ TData(in_find_min_fifo) = tree[Latency][1].desc
    /\ TReady(out_fifo, OutDepth)

(* The credit is exactly what the dispatcher holds, so it neither leaks    *)
(* nor underflows when an acceptance, a departure and a drop coincide.     *)
CreditIsOccupancy ==
  /\ out_fifo_counter = Occupancy(in_find_min_fifo) + Occupancy(out_fifo)
  /\ out_fifo_counter <= Credits
=============================================================================
