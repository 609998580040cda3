------------------------------ MODULE RlDriver ------------------------------
(***************************************************************************)
(* One poll thread of the sample application on the user-space driver      *)
(* (mqnic.c, memory.c, ixy-throughput.c): receive a batch into the work    *)
(* ring, work, send feedback, transmit.  Driver and NIC share the two      *)
(* descriptor rings and the two completion rings; the driver bypasses the  *)
(* NIC's pointer registers (IF_RXCQ_, IF_TXCQ_ and IF_RXTX_BYPASS_REG): it *)
(* knows a completion by its length and counts its own tail pointers.      *)
(*                                                                         *)
(* The free stack of the memory pool is the set of buffers whose ref_count *)
(* is 0: pkt_buf_free pushes a buffer exactly when its count becomes 0.    *)
(* The pointers wrap at PtrMod, a multiple of Size as 2^32 is.             *)
(***************************************************************************)
EXTENDS Integers, Sequences, FiniteSets

CONSTANTS
  Size,        \* entries of each ring (256)
  PtrMod,      \* modulus of the pointers (2^32)
  PoolSize,    \* buffers of the queue's memory pool (4096)
  RefillMin,   \* the least number of missing buffers refilled (8)
  TailBatch,   \* RXCQ_TAIL_UPDATE_BATCH (32)
  RingSize,    \* RING_SIZE of the work ring (128)
  RxBatch,     \* RX_BATCH_SIZE (16)
  TxBatch,     \* TX_BATCH_SIZE (1)
  Backlog      \* packets the work ring may still hold when more are pulled (4)

VARIABLES
  rx,      \* receive ring: pointers, slots, completion tail, updates not published
  tx,      \* transmit ring: pointers, slots, completion tail
  work,    \* worker_ring_s and its buffers
  ref,     \* ref_count of each buffer
  got,     \* buf_index while a batch is received, or NULL
  pc,      \* the handler that the thread calls next
  hw,      \* the NIC's registers
  cpl,     \* completion rings; an entry is the descriptor's index, or NULL (len = 0)
  died     \* the thread called error() or exit(), or found NULL for a buffer

rlVars == <<rx, tx, work, ref, got, pc, hw, cpl, died>>

NULL     == -1
Buf      == 1..PoolSize
Slots    == 0 .. Size - 1
Minus(a, b) == (a - b) % PtrMod
Plus(a, n)  == (a + n) % PtrMod
Least(S) == CHOOSE n \in S : \A m \in S : n <= m

\* The receive queue is activated: its ring is full of buffers.
RlInit ==
  /\ rx = [head |-> Plus(0, Size), tail |-> 0, clean |-> 0, cq |-> 0, acc |-> 0,
           slot |-> [i \in Slots |-> i + 1]]
  /\ tx = [head |-> 0, tail |-> 0, clean |-> 0, cq |-> 0,
           slot |-> [i \in Slots |-> NULL]]
  /\ work = [head |-> 0, tail |-> 0, empty_slots |-> RingSize, unprocessed |-> 0,
             unsent_feedback |-> 0, unsent |-> 0,
             bufs |-> [i \in 0 .. RingSize - 1 |-> NULL]]
  /\ ref = [b \in Buf |-> IF b <= Size THEN 1 ELSE 0]
  /\ got = NULL
  /\ pc = "if_pull_rx"
  /\ hw = [rxHead |-> Plus(0, Size), taken |-> {}, rxTail |-> 0, rxCq |-> 0, rxCqTail |-> 0,
           txHead |-> 0, txTail |-> 0, txCq |-> 0, txCqTail |-> 0]
  /\ cpl = [rx |-> [i \in Slots |-> NULL], tx |-> [i \in Slots |-> NULL]]
  /\ died = FALSE

(***************************************************************************)
(* Receive.                                                                *)
(***************************************************************************)
\* Fault: slots behind a late completion count as missing.
Missing_FromTail == Size - Minus(rx.head, rx.tail)

Missing == Size - Minus(rx.head, rx.clean)

rx_batch_size ==
  Least({RxBatch, RingSize - work.head, work.empty_slots})

\* mqnic_refill_rx_buffers, with the buffers of mqnic_prepare_rx_desc.
Refill ==
  IF Missing < RefillMin
  THEN UNCHANGED <<rx, ref, hw, died>>
  ELSE LET free == {b \in Buf : ref[b] = 0}
           nth(i) == CHOOSE b \in free : Cardinality({c \in free : c < b}) = i
           given  == [i \in 0 .. Missing - 1 |-> nth(i)]
       IN  IF Cardinality(free) < Missing
           THEN died' = TRUE /\ UNCHANGED <<rx, ref, hw>>
           ELSE /\ ref' = [b \in Buf |->
                     ref[b] + (IF \E i \in DOMAIN given : given[i] = b THEN 1 ELSE 0)]
                /\ rx' = [rx EXCEPT
                     !.head = Plus(@, Missing),
                     !.slot = [s \in Slots |->
                       IF \E i \in DOMAIN given : Plus(rx.head, i) % Size = s
                       THEN given[CHOOSE i \in DOMAIN given : Plus(rx.head, i) % Size = s]
                       ELSE @[s]]]
                /\ hw' = [hw EXCEPT !.rxHead = Plus(rx.head, Missing)]
                /\ UNCHANGED died

if_pull_rx ==
  /\ pc = "if_pull_rx"
  /\ \/ /\ \/ RingSize - work.empty_slots >= TxBatch + Backlog
           \/ work.empty_slots < RxBatch
        /\ pc' = "if_do_work"
        /\ UNCHANGED <<rx, ref, hw, died, got>>
     \/ /\ RingSize - work.empty_slots < TxBatch + Backlog
        /\ work.empty_slots >= RxBatch
        /\ Refill
        /\ got' = 0
        /\ pc' = "mqnic_rx_batch_hints"
  /\ UNCHANGED <<tx, work, cpl>>

if_next == cpl.rx[rx.cq % Size] # NULL

\* An iteration of the receive loop; the NIC may complete more packets between two.
ReceiveOne ==
  LET i == cpl.rx[rx.cq % Size]
  IN  /\ pc = "mqnic_rx_batch_hints"
      /\ if_next /\ got < rx_batch_size
      /\ died' = (rx.slot[i] = NULL)
      /\ work' = [work EXCEPT !.bufs[work.head + got] = rx.slot[i]]
      /\ cpl' = [cpl EXCEPT !.rx[rx.cq % Size] = NULL]
      /\ rx' = [rx EXCEPT !.slot[i] = NULL, !.cq = Plus(@, 1)]
      /\ got' = got + 1
      /\ UNCHANGED <<tx, ref, pc, hw>>

\* The first position from `clean' to `tail' whose slot is in use, or `tail'.
CleanTo(ring, tail) ==
  LET n == Minus(tail, ring.clean)
  IN  Plus(ring.clean,
           Least({n} \cup {k \in 0 .. n - 1 : ring.slot[(ring.clean + k) % Size] # NULL}))

\* After the loop: the completion tail is published once in a batch of updates.
ReceiveEnds ==
  LET tail == Plus(rx.tail, got)
      acc  == rx.acc + got
  IN  /\ pc = "mqnic_rx_batch_hints"
      /\ ~if_next \/ got >= rx_batch_size
      /\ rx' = [rx EXCEPT !.tail = tail, !.clean = CleanTo(rx, tail),
                          !.acc = IF acc > TailBatch THEN 0 ELSE acc]
      /\ hw' = IF acc > TailBatch THEN [hw EXCEPT !.rxCqTail = rx.cq] ELSE hw
      /\ work' = [work EXCEPT !.unprocessed = @ + got, !.empty_slots = @ - got,
                              !.head = (@ + got) % RingSize]
      /\ got' = NULL
      /\ pc' = "if_do_work"
      /\ UNCHANGED <<tx, ref, cpl, died>>

(***************************************************************************)
(* Work and feedback (FEEDBACK_BATCH_SIZE is 1).                           *)
(***************************************************************************)
if_do_work ==
  /\ pc = "if_do_work"
  /\ pc' = "if_send_feedback"
  /\ work' = IF work.unprocessed = 0 THEN work
             ELSE [work EXCEPT !.unprocessed = @ - 1, !.unsent_feedback = @ + 1,
                               !.unsent = @ + 1]
  /\ UNCHANGED <<rx, tx, ref, got, hw, cpl, died>>

if_send_feedback ==
  /\ pc = "if_send_feedback"
  /\ pc' = "if_send_tx"
  /\ work' = IF work.unsent_feedback = 0 THEN work
             ELSE [work EXCEPT !.unsent_feedback = @ - 1]
  /\ UNCHANGED <<rx, tx, ref, got, hw, cpl, died>>

(***************************************************************************)
(* Transmit.                                                               *)
(***************************************************************************)
mqnic_is_tx_ring_full(ring) == Minus(ring.head, ring.clean) >= Size \div 2

\* Completions the loop of mqnic_process_tx_cq finds (its budget, 64, is not reached).
TxDone ==
  Least({Size} \cup {n \in 0 .. Size - 1 : cpl.tx[(tx.cq + n) % Size] = NULL})

\* mqnic_process_tx_cq: descriptors it frees, and the ring after it.
TxFreed == {cpl.tx[(tx.cq + n) % Size] : n \in 0 .. TxDone - 1}
TxCleaned ==
  LET freed == [tx EXCEPT !.slot = [s \in Slots |-> IF s \in TxFreed THEN NULL ELSE @[s]]]
      tail  == Plus(tx.tail, TxDone)
  IN  [freed EXCEPT !.cq = Plus(@, TxDone), !.tail = tail, !.clean = CleanTo(freed, tail)]

tx_batch_size == Least({TxBatch, RingSize - work.tail, work.unsent})

\* mqnic_tx_batch fills the ring until it is full: the number of buffers sent.
Sent(ring) ==
  Least({n \in 0 .. tx_batch_size :
           n = tx_batch_size \/ mqnic_is_tx_ring_full([ring EXCEPT !.head = Plus(@, n)])})

if_send_tx ==
  /\ pc = "if_send_tx"
  /\ pc' = "if_pull_rx"
  /\ IF work.unsent < TxBatch
     THEN UNCHANGED <<tx, work, ref, hw, cpl, died>>
     ELSE LET ring == TxCleaned
              sent == Sent(ring)
              buf(k) == work.bufs[work.tail + k]
          IN  /\ tx' = [ring EXCEPT
                   !.head = Plus(@, sent),
                   !.slot = [s \in Slots |->
                     IF \E k \in 0 .. sent - 1 : Plus(ring.head, k) % Size = s
                     THEN buf(CHOOSE k \in 0 .. sent - 1 : Plus(ring.head, k) % Size = s)
                     ELSE @[s]]]
              \* The ring's reference replaces the application's, which is freed.
              /\ ref' = [b \in Buf |->
                   ref[b] - Cardinality({s \in TxFreed : tx.slot[s] = b})]
              /\ died' = \/ \E s \in TxFreed : tx.slot[s] = NULL
                         \/ \E s \in TxFreed : tx.slot[s] # NULL /\ ref[tx.slot[s]] <= 0
                         \/ ring.clean # ring.tail
              /\ hw' = [hw EXCEPT !.txCqTail = ring.cq, !.txHead = Plus(ring.head, sent)]
              /\ cpl' = [cpl EXCEPT !.tx = [s \in Slots |->
                   IF \E n \in 0 .. TxDone - 1 : (tx.cq + n) % Size = s THEN NULL ELSE @[s]]]
              /\ work' = [work EXCEPT
                   !.empty_slots = @ + sent, !.unsent = @ - sent,
                   !.tail = (@ + sent) % RingSize,
                   !.bufs = [i \in DOMAIN @ |->
                     IF \E k \in 0 .. sent - 1 : work.tail + k = i THEN NULL ELSE @[i]]]
  /\ UNCHANGED <<rx, got>>

(***************************************************************************)
(* The NIC: it takes receive descriptors in order and completes them in    *)
(* any order, and transmits in order; a completion a full ring has no room *)
(* for is dropped.                                                         *)
(***************************************************************************)
NicTake ==
  /\ hw.rxTail # hw.rxHead
  /\ Cardinality(hw.taken) < 2
  /\ hw' = [hw EXCEPT !.taken = @ \cup {hw.rxTail % Size}, !.rxTail = Plus(@, 1)]
  /\ UNCHANGED <<rx, tx, work, ref, got, pc, cpl, died>>

HasRoom(head, tail) == Minus(head, tail) < Size

NicComplete ==
  /\ \E i \in hw.taken :
       IF HasRoom(hw.rxCq, hw.rxCqTail)
       THEN /\ cpl' = [cpl EXCEPT !.rx[hw.rxCq % Size] = i]
            /\ hw' = [hw EXCEPT !.taken = @ \ {i}, !.rxCq = Plus(@, 1)]
       ELSE /\ hw' = [hw EXCEPT !.taken = @ \ {i}]
            /\ UNCHANGED cpl
  /\ UNCHANGED <<rx, tx, work, ref, got, pc, died>>

NicTransmit ==
  /\ hw.txTail # hw.txHead
  /\ IF HasRoom(hw.txCq, hw.txCqTail)
     THEN /\ cpl' = [cpl EXCEPT !.tx[hw.txCq % Size] = hw.txTail % Size]
          /\ hw' = [hw EXCEPT !.txTail = Plus(@, 1), !.txCq = Plus(@, 1)]
     ELSE /\ hw' = [hw EXCEPT !.txTail = Plus(@, 1)]
          /\ UNCHANGED cpl
  /\ UNCHANGED <<rx, tx, work, ref, got, pc, died>>

RlNext ==
  /\ ~died
  /\ \/ if_pull_rx \/ ReceiveOne \/ ReceiveEnds
     \/ if_do_work \/ if_send_feedback \/ if_send_tx
     \/ NicTake \/ NicComplete \/ NicTransmit

RlSpec == RlInit /\ [][RlNext]_rlVars

(* Every buffer's ref_count is the number of places that hold it: receive  *)
(* slots, the work ring, transmit slots.  A descriptor that the NIC may    *)
(* still write, or whose completion the driver has not read, has its       *)
(* buffer; so no buffer is lost, freed twice or given to the NIC while the *)
(* application has it, and the thread never reaches "failed to allocate rx *)
(* descriptor", "buf ref counter smaller than 0" or "Error TX queue".      *)
BuffersAreCounted ==
  /\ ~died
  /\ \A b \in Buf :
       ref[b] = Cardinality({s \in Slots : rx.slot[s] = b})
                + Cardinality({s \in Slots : tx.slot[s] = b})
                + Cardinality({i \in DOMAIN work.bufs : work.bufs[i] = b})
  /\ \A s \in Slots :
       (\/ s \in hw.taken
        \/ \E i \in Slots : cpl.rx[i] = s
        \/ \E k \in 0 .. Minus(hw.rxHead, hw.rxTail) - 1 : (hw.rxTail + k) % Size = s)
       => rx.slot[s] # NULL
=============================================================================
