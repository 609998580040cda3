------------------------------- MODULE Mqnic -------------------------------
(***************************************************************************)
(* The driver of common/tb/mqnic.py with the NIC's queue managers: event   *)
(* and completion queues, transmit and receive rings, packet buffers and   *)
(* the interrupt handler.                                                  *)
(*                                                                         *)
(* A step of the driver runs from one register access to the next: that is *)
(* where its coroutines give way to each other and to the NIC.  Register   *)
(* accesses reach the NIC in order.  The NIC is cpl_queue_manager.v and    *)
(* queue_manager.v as the driver sees them.                                *)
(***************************************************************************)
EXTENDS Integers, Sequences, FiniteSets, Functions

CONSTANTS
  Queues,        \* indices of the rings of each kind, 0..n-1
  Size,          \* entries of a ring, a power of two
  EqSize,        \* entries of the event queue
  PtrMod, EqMod, \* hardware pointers wrap here (hw_ptr_mask + 1 of each class)
  RefillMin,     \* refill_buffers waits for this many missing buffers (8)
  max_count,     \* receive completions handled per event (1)
  Closing,       \* whether close() is ever called
  MaxRx, MaxTx   \* bounds: packets that arrive, packets sent

(* The driver has one event ring of 1024 entries and at most 4 rings of    *)
(* each other kind (MQNIC_MAX_*_RINGS), and pointers of 16 bits.           *)
ASSUME EventRingAssumption ==
  /\ Cardinality(Queues) \in Nat \ {0}
  /\ Queues = 0..(Cardinality(Queues) - 1)
  /\ EqSize \in Nat /\ EqMod \in Nat
  /\ 4 * Cardinality(Queues) <= EqSize /\ EqSize < EqMod
  /\ EqMod % EqSize = 0

VARIABLES
  nic,           \* nic[k][q]: queue q of kind k in the NIC
  entries,       \* entries[k][q]: what is in host memory, by slot
  evq, msi,      \* events and interrupt messages on their way
  inflight,      \* inflight[k][q]: slots taken by the NIC and not yet completed
  ring,          \* ring[k][q]: the driver's rings
  free_packets, allocated_packets, content,   \* packet buffers; content by buffer
  port_up, handler, opener, closer,
  doorbell,      \* doorbell[q]: write_head_ptr of start_xmit still to come
  feedback,      \* feedback[q]: tasks reported finished to the NIC
  arrived, pkt_rx_queue, submitted, transmitted, failed

mqVars == <<nic, entries, evq, msi, inflight, ring, free_packets, allocated_packets, content,
            port_up, handler, opener, closer, doorbell, feedback, arrived, pkt_rx_queue,
            submitted, transmitted, failed>>

Kinds == {"eq", "rxcq", "txcq", "rx", "tx"}
CqOf(k) == IF k = "rx" THEN "rxcq" ELSE "txcq"
RingOf(k) == IF k = "rxcq" THEN "rx" ELSE "tx"
None == 0                       \* no packet buffer
Slot(ptr) == ptr % Size
Ptr(n) == n % PtrMod

(***************************************************************************)
(* Register writes of the rings.  Each is a value of the NIC's queue after *)
(* the writes of one method.                                               *)
(***************************************************************************)
NicQueue == [active |-> FALSE, armed |-> FALSE, head |-> 0, tail |-> 0]

EqInit(r)  == [NicQueue EXCEPT !.head = r.head % EqMod, !.tail = r.tail % EqMod]
CqInit(r)  == [NicQueue EXCEPT !.head = Ptr(r.head), !.tail = Ptr(r.tail)]
TxInit(r)  == [NicQueue EXCEPT !.head = Ptr(r.head), !.tail = Ptr(r.tail)]
RxInit(r)  == [NicQueue EXCEPT !.head = Ptr(r.head), !.tail = Ptr(r.tail)]

(* activate: the queue is inactive while its pointers are written, as the  *)
(* head pointer is read-only in an active queue.  CqRing.activate then     *)
(* sends three CPU messages, for the scheduler: see ReduceTree.            *)
EqActivate(r) == [EqInit(r) EXCEPT !.active = TRUE]
CqActivate(r) == [CqInit(r) EXCEPT !.active = TRUE]
TxActivate(r) == [TxInit(r) EXCEPT !.active = TRUE]
RxActivate(r) == [RxInit(r) EXCEPT !.active = TRUE]

(* deactivate also disarms an event or completion queue. *)
EqDeactivate(n) == [n EXCEPT !.active = FALSE, !.armed = FALSE]
CqDeactivate(n) == [n EXCEPT !.active = FALSE, !.armed = FALSE]
TxDeactivate(n) == [n EXCEPT !.active = FALSE]
RxDeactivate(n) == [n EXCEPT !.active = FALSE]

(* Arming a queue that is not empty gives the event at once instead. *)
Armed(n) == [n EXCEPT !.armed = n.head = n.tail]

EventOnArm_Never(n) == FALSE
EventOnArm(n) == n.head # n.tail

(* The driver's view of a pointer after reading it from the NIC. *)
ReadPtr(mine, val) == mine + ((val - mine) % PtrMod)
EqReadPtr(mine, val) == mine + ((val - mine) % EqMod)

(***************************************************************************)
(* Packet buffers.                                                         *)
(***************************************************************************)
Buffers == [free |-> free_packets, all |-> allocated_packets, ok |-> TRUE]

(* alloc_pkt: the oldest free buffer, or a new one. *)
NextPkt(b) == IF b.free # <<>> THEN Head(b.free) ELSE b.all + 1
alloc_pkt(b) == IF b.free # <<>> THEN [b EXCEPT !.free = Tail(@)]
                ELSE [b EXCEPT !.all = @ + 1]

(* free_pkt asserts that it is given an allocated buffer. *)
free_pkt(b, pkt) == IF pkt \in 1..b.all THEN [b EXCEPT !.free = Append(@, pkt)]
                    ELSE [b EXCEPT !.ok = FALSE]

SetBuffers(b) ==
  /\ free_packets' = b.free
  /\ allocated_packets' = b.all
  /\ failed' = (failed \/ ~b.ok)

(* A ring and its buffers after methods of TxRing or RxRing. *)
With(r, d, b) == [r |-> r, d |-> d, b |-> b]

TxFreeDesc(w, i) == [w EXCEPT !.b = free_pkt(w.b, w.r.info[i]), !.r.info[i] = None]
RxFreeDesc(w, i) == [w EXCEPT !.b = free_pkt(w.b, w.r.info[i]), !.r.info[i] = None]

(* free_buf: every descriptor from clean_tail_ptr to the head. *)
TxFreeBuf(w0) ==
  LET step[n \in Nat] ==
        IF n = 0 THEN w0
        ELSE LET w == step[n - 1]
             IN  [TxFreeDesc(w, Slot(w.r.clean)) EXCEPT !.r.clean = @ + 1]
  IN  step[w0.r.head - w0.r.clean]

(* prepare_desc: a fresh buffer in the slot and its descriptor. *)
prepare_desc(w, i) ==
  [r |-> [w.r EXCEPT !.info[i] = NextPkt(w.b)],
   d |-> [w.d EXCEPT ![i] = NextPkt(w.b)],
   b |-> alloc_pkt(w.b)]

refill_buffers_Early(w0) ==
  LET missing == Size - (w0.r.head - w0.r.clean)
      step[n \in Nat] ==
        IF n = 0 THEN w0
        ELSE LET w == step[n - 1]
             IN  [prepare_desc(w, Slot(w.r.head)) EXCEPT !.r.head = @ + 1]
  IN  IF missing < RefillMin THEN w0 ELSE step[missing + 1]

(* refill_buffers, once enough are missing: the ring is filled up. *)
refill_buffers(w0) ==
  LET missing == Size - (w0.r.head - w0.r.clean)
      step[n \in Nat] ==
        IF n = 0 THEN w0
        ELSE LET w == step[n - 1]
             IN  [prepare_desc(w, Slot(w.r.head)) EXCEPT !.r.head = @ + 1]
  IN  IF missing < RefillMin THEN w0 ELSE step[missing]

(***************************************************************************)
(* Init: the rings are set up and all queues inactive (Interface.init).    *)
(***************************************************************************)
OpenSteps ==
  LET act(k) == [i \in 1..Cardinality(Queues) |-> <<"activate", k, i - 1>>]
      both(k) == [i \in 1..(2 * Cardinality(Queues)) |->
                    <<IF i % 2 = 1 THEN "activate" ELSE "arm", k, (i - 1) \div 2>>]
  IN  <<<<"activate", "eq", 0>>, <<"arm", "eq", 0>>>>
        \o both("rxcq") \o act("rx") \o both("txcq") \o act("tx")

CloseSteps ==
  LET off(k) == [i \in 1..Cardinality(Queues) |-> <<k, i - 1>>]
  IN  off("tx") \o off("txcq") \o off("rx") \o off("rxcq") \o <<<<"eq", 0>>>>

DriverRing == [head |-> 0, tail |-> 0, clean |-> 0, info |-> [i \in 0..(Size - 1) |-> None]]

InitQueue(k) == CASE k = "eq" -> EqInit(DriverRing)
                  [] k \in {"rxcq", "txcq"} -> CqInit(DriverRing)
                  [] k = "tx" -> TxInit(DriverRing)
                  [] k = "rx" -> RxInit(DriverRing)

IdleHandler == [pc |-> "idle", kind |-> "none", q |-> 0, eq_tail |-> 0, count |-> 0, pending |-> 0]

MqInit ==
  /\ nic = [k \in Kinds |-> [q \in Queues |-> InitQueue(k)]]
  /\ entries = [k \in Kinds |-> [q \in Queues |->
                   [i \in 0..((IF k = "eq" THEN EqSize ELSE Size) - 1) |-> 0]]]
  /\ evq = <<>>
  /\ msi = 0
  /\ inflight = [k \in {"rx", "tx"} |-> [q \in Queues |-> <<>>]]
  /\ ring = [k \in Kinds |-> [q \in Queues |-> DriverRing]]
  /\ free_packets = <<>>
  /\ allocated_packets = 0
  /\ content = [b \in 1..(2 * Size * Cardinality(Queues) + 1) |-> 0]
  /\ port_up = FALSE
  /\ handler = IdleHandler
  /\ opener = 1
  /\ closer = [step |-> 0, seen |-> IdleHandler]
  /\ doorbell = [q \in Queues |-> <<>>]
  /\ feedback = [q \in Queues |-> 0]
  /\ arrived = [q \in Queues |-> <<>>]
  /\ pkt_rx_queue = <<>>
  /\ submitted = [q \in Queues |-> <<>>]
  /\ transmitted = [q \in Queues |-> <<>>]
  /\ failed = FALSE

Logs == <<content, doorbell, feedback, arrived, pkt_rx_queue, submitted, transmitted>>

(* A write of the arm bit of queue q of kind k; the rest of nic as in n. *)
Arm(n, k, q) ==
  /\ nic' = [n EXCEPT ![k][q] = Armed(@)]
  /\ evq' = IF k # "eq" /\ EventOnArm(n[k][q]) THEN Append(evq, <<k, q>>) ELSE evq
  /\ msi' = IF k = "eq" /\ EventOnArm(n[k][q]) THEN msi + 1 ELSE msi

(***************************************************************************)
(* open and close.                                                         *)
(***************************************************************************)
Activate(k, q) ==
  LET r == ring[k][q]
      w == IF k = "rx" THEN refill_buffers(With(r, entries[k][q], Buffers))
           ELSE With(r, entries[k][q], Buffers)
      n == CASE k = "eq" -> EqActivate(r)
             [] k \in {"rxcq", "txcq"} -> CqActivate(r)
             [] k = "tx" -> TxActivate(r)
             [] k = "rx" -> RxActivate(w.r)
  IN  /\ nic' = [nic EXCEPT ![k][q] = n]
      /\ ring' = [ring EXCEPT ![k][q] = w.r]
      /\ entries' = [entries EXCEPT ![k][q] = w.d]
      /\ SetBuffers(w.b)
      /\ UNCHANGED <<evq, msi>>

open ==
  /\ opener <= Len(OpenSteps) + 1
  /\ opener' = opener + 1
  /\ IF opener = Len(OpenSteps) + 1
     THEN port_up' = TRUE /\ UNCHANGED <<nic, evq, msi, ring, entries, free_packets,
                                         allocated_packets, failed>>
     ELSE /\ UNCHANGED port_up
          /\ LET s == OpenSteps[opener]
             IN  IF s[1] = "activate" THEN Activate(s[2], s[3])
                 ELSE /\ Arm(nic, s[2], s[3])
                      /\ UNCHANGED <<ring, entries, free_packets, allocated_packets, failed>>
  /\ UNCHANGED <<inflight, handler, closer, Logs>>

Deactivate(n, k) == CASE k = "eq" -> EqDeactivate(n)
                      [] k \in {"rxcq", "txcq"} -> CqDeactivate(n)
                      [] k = "tx" -> TxDeactivate(n)
                      [] k = "rx" -> RxDeactivate(n)

(* The queues go inactive one by one, and a read waits for the writes,     *)
(* behind a read the handler may have under way.  Then the buffers of the  *)
(* first transmit ring are freed.  free_buf is no coroutine, so awaiting   *)
(* its result raises TypeError, and the other rings keep their buffers.    *)
close ==
  LET step == closer.step
      last == Len(CloseSteps) + 1
  IN
  /\ Closing /\ step <= last
  /\ step = 0 => port_up
  /\ step = last => handler # closer.seen \/ handler.pc \notin {"eq_read", "cq_read", "ring_read"}
  /\ closer' = [step |-> step + 1, seen |-> IF step = last THEN IdleHandler ELSE handler]
  /\ port_up' = FALSE
  /\ IF step \in DOMAIN CloseSteps
     THEN nic' = [nic EXCEPT ![CloseSteps[step][1]][CloseSteps[step][2]] =
                                Deactivate(@, CloseSteps[step][1])]
     ELSE UNCHANGED nic
  /\ IF step = last
     THEN LET w == TxFreeBuf(With(ring["tx"][0], entries["tx"][0], Buffers))
          IN  ring' = [ring EXCEPT !["tx"][0] = w.r] /\ SetBuffers(w.b)
     ELSE UNCHANGED <<ring, free_packets, allocated_packets, failed>>
  /\ UNCHANGED <<entries, evq, msi, inflight, handler, opener, Logs>>

(***************************************************************************)
(* Sending.  Nothing checks that the ring has room: the callers keep fewer *)
(* packets outstanding than it has slots.                                  *)
(***************************************************************************)
start_xmit(q) ==
  LET r == ring["tx"][q]
      i == Slot(r.head)
      pkt == NextPkt(Buffers)
      new == Len(submitted[q]) + 1
  IN
  /\ port_up /\ Len(submitted[q]) < MaxTx
  /\ r.head - r.clean < Size
  /\ SetBuffers(alloc_pkt(Buffers))
  /\ content' = [content EXCEPT ![pkt] = new]
  /\ entries' = [entries EXCEPT !["tx"][q][i] = pkt]
  /\ ring' = [ring EXCEPT !["tx"][q].info[i] = pkt, !["tx"][q].head = @ + 1]
  /\ doorbell' = [doorbell EXCEPT ![q] = Append(@, r.head + 1)]
  /\ submitted' = [submitted EXCEPT ![q] = Append(@, new)]
  /\ UNCHANGED <<nic, evq, msi, inflight, port_up, handler, opener, closer, feedback, arrived,
                 pkt_rx_queue, transmitted>>

(* TxRing.write_head_ptr. *)
write_head_ptr(q) ==
  /\ doorbell[q] # <<>>
  /\ nic' = [nic EXCEPT !["tx"][q].head = Ptr(Head(doorbell[q]))]
  /\ doorbell' = [doorbell EXCEPT ![q] = Tail(@)]
  /\ UNCHANGED <<entries, evq, msi, inflight, ring, free_packets, allocated_packets, content,
                 port_up, handler, opener, closer, feedback, arrived, pkt_rx_queue, submitted,
                 transmitted, failed>>

(***************************************************************************)
(* The interrupt handler.                                                  *)
(***************************************************************************)
(* eq.process returns at once, and eq.arm follows, while the port is down. *)
Entered(h) == [h EXCEPT !.pc = IF port_up THEN "eq_read" ELSE "eq_arm"]

(* interrupt: a call made while one is running is only counted. *)
interrupt ==
  /\ msi > 0
  /\ msi' = msi - 1
  /\ handler' = IF handler.pc = "idle" THEN Entered(handler)
                ELSE [handler EXCEPT !.pending = @ + 1]
  /\ UNCHANGED <<nic, entries, evq, inflight, ring, free_packets, allocated_packets, port_up,
                 opener, closer, Logs, failed>>

(* The handler turns to the next event of the queue, if there is one. *)
NextEvent(h, head) ==
  IF head = h.eq_tail THEN [h EXCEPT !.pc = "eq_tail"]
  ELSE LET ev == entries["eq"][0][h.eq_tail % EqSize]
       IN  [h EXCEPT !.kind = ev[1], !.q = ev[2], !.pc = IF port_up THEN "cq_read" ELSE "cq_arm"]

EqReadHead ==
  LET head == EqReadPtr(ring["eq"][0].head, nic["eq"][0].head)
  IN
  /\ handler.pc = "eq_read"
  /\ ring' = [ring EXCEPT !["eq"][0].head = head]
  /\ handler' = NextEvent([handler EXCEPT !.eq_tail = ring["eq"][0].tail], head)
  /\ UNCHANGED <<nic, entries, evq, msi, inflight, free_packets, allocated_packets, port_up,
                 opener, closer, Logs, failed>>

ServeTx(r, cq, slots) ==
  LET step[n \in 0..Size] ==
        IF n = 0 THEN With(r, <<>>, Buffers)
        ELSE TxFreeDesc(step[n - 1], slots[Slot(cq.tail + n - 1)] % Size)
  IN  step

ServeRx(r, cq, slots) ==
  LET step[n \in 0..Size] ==
        IF n = 0 THEN With(r, <<>>, Buffers)
        ELSE LET w == step[n - 1]
                 i == slots[Slot(cq.tail + n - 1)] % Size
             IN  RxFreeDesc([w EXCEPT !.d = Append(@, content[w.r.info[i]])], i)
  IN  step

(* process_tx_cq up to the write of the tail pointer: all completions. *)
process_tx_cq ==
  LET q == handler.q
      cq == [ring["txcq"][q] EXCEPT !.head = ReadPtr(@, nic["txcq"][q].head)]
      n == cq.head - cq.tail
      w == ServeTx(ring["tx"][q], cq, entries["txcq"][q])[n]
  IN
  /\ handler.pc = "cq_read" /\ handler.kind = "txcq"
  /\ ring' = [ring EXCEPT !["txcq"][q] = [cq EXCEPT !.tail = @ + n], !["tx"][q] = w.r]
  /\ SetBuffers(w.b)
  /\ handler' = [handler EXCEPT !.pc = "cq_tail"]
  /\ UNCHANGED <<nic, entries, evq, msi, inflight, port_up, opener, closer, Logs>>

(* process_rx_cq up to the write of the tail pointer: at most max_count *)
(* completions; what is left waits for the event that arming the queue  *)
(* gives.                                                               *)
process_rx_cq ==
  LET q == handler.q
      cq == [ring["rxcq"][q] EXCEPT !.head = ReadPtr(@, nic["rxcq"][q].head)]
      n == IF cq.head - cq.tail < max_count THEN cq.head - cq.tail ELSE max_count
      w == ServeRx(ring["rx"][q], cq, entries["rxcq"][q])[n]
  IN
  /\ handler.pc = "cq_read" /\ handler.kind = "rxcq"
  /\ ring' = [ring EXCEPT !["rxcq"][q] = [cq EXCEPT !.tail = @ + n], !["rx"][q] = w.r]
  /\ pkt_rx_queue' = pkt_rx_queue \o [k \in 1..Len(w.d) |-> <<q, w.d[k]>>]
  /\ SetBuffers(w.b)
  /\ handler' = [handler EXCEPT !.pc = "cq_tail", !.count = n]
  /\ UNCHANGED <<nic, entries, evq, msi, inflight, port_up, opener, closer, content, doorbell,
                 feedback, arrived, submitted, transmitted>>

CqWriteTail ==
  /\ handler.pc = "cq_tail"
  /\ nic' = [nic EXCEPT ![handler.kind][handler.q].tail = Ptr(ring[handler.kind][handler.q].tail)]
  /\ handler' = [handler EXCEPT !.pc = IF handler.kind = "rxcq" THEN "feedback" ELSE "ring_read"]
  /\ UNCHANGED <<entries, evq, msi, inflight, ring, free_packets, allocated_packets, port_up,
                 opener, closer, Logs, failed>>

task_feedback ==
  /\ handler.pc = "feedback"
  /\ feedback' = [feedback EXCEPT ![handler.q] = @ + handler.count]
  /\ handler' = [handler EXCEPT !.pc = "ring_read"]
  /\ UNCHANGED <<nic, entries, evq, msi, inflight, ring, free_packets, allocated_packets, port_up,
                 opener, closer, content, doorbell, arrived, pkt_rx_queue, submitted, transmitted,
                 failed>>

Cleaned_ToTail(r) == [r EXCEPT !.clean = r.tail]

(* clean_tail_ptr moves up to the NIC's tail or the first slot in use. *)
Cleaned(r) ==
  LET stop == {c \in r.clean..r.tail : c = r.tail \/ r.info[Slot(c)] # None}
  IN  [r EXCEPT !.clean = CHOOSE c \in stop : \A o \in stop : c <= o]

(* The rest of process_tx_cq and process_rx_cq.  Where free_buf of close   *)
(* has moved clean_tail_ptr past the tail, the loop that moves it up to    *)
(* the tail finds every slot empty and never ends.                         *)
ReadTail ==
  LET k == RingOf(handler.kind)
      q == handler.q
      t == [ring[k][q] EXCEPT !.tail = ReadPtr(@, nic[k][q].tail)]
      r == Cleaned(t)
      w == IF k = "rx" THEN refill_buffers(With(r, entries[k][q], Buffers))
           ELSE With(r, entries[k][q], Buffers)
  IN
  /\ handler.pc = "ring_read"
  /\ t.clean <= t.tail
  /\ ring' = [ring EXCEPT ![k][q] = w.r]
  /\ entries' = [entries EXCEPT ![k][q] = w.d]
  /\ SetBuffers(w.b)
  /\ handler' = [handler EXCEPT !.pc = IF w.r.head # r.head THEN "ring_head" ELSE "cq_arm"]
  /\ UNCHANGED <<nic, evq, msi, inflight, port_up, opener, closer, Logs>>

RxWriteHead ==
  /\ handler.pc = "ring_head"
  /\ nic' = [nic EXCEPT !["rx"][handler.q].head = Ptr(ring["rx"][handler.q].head)]
  /\ handler' = [handler EXCEPT !.pc = "cq_arm"]
  /\ UNCHANGED <<entries, evq, msi, inflight, ring, free_packets, allocated_packets, port_up,
                 opener, closer, Logs, failed>>

CqArmed ==
  /\ handler.pc = "cq_arm"
  /\ Arm(nic, handler.kind, handler.q)
  /\ handler' = NextEvent([handler EXCEPT !.eq_tail = @ + 1, !.count = 0], ring["eq"][0].head)
  /\ UNCHANGED <<entries, inflight, ring, free_packets, allocated_packets, port_up, opener,
                 closer, Logs, failed>>

EqWriteTail ==
  /\ handler.pc = "eq_tail"
  /\ ring' = [ring EXCEPT !["eq"][0].tail = handler.eq_tail]
  /\ nic' = [nic EXCEPT !["eq"][0].tail = handler.eq_tail % EqMod]
  /\ handler' = [handler EXCEPT !.pc = "eq_arm"]
  /\ UNCHANGED <<entries, evq, msi, inflight, free_packets, allocated_packets, port_up, opener,
                 closer, Logs, failed>>

(* Armed again, the handler ends, or starts over if calls were counted. *)
EqArmed ==
  /\ handler.pc = "eq_arm"
  /\ Arm(nic, "eq", 0)
  /\ handler' = IF handler.pending > 0 THEN Entered([handler EXCEPT !.pending = @ - 1])
                ELSE IdleHandler
  /\ UNCHANGED <<entries, inflight, ring, free_packets, allocated_packets, port_up, opener,
                 closer, Logs, failed>>

Handler ==
  \/ EqReadHead \/ process_tx_cq \/ process_rx_cq \/ CqWriteTail \/ task_feedback \/ ReadTail
  \/ RxWriteHead \/ CqArmed \/ EqWriteTail \/ EqArmed

(***************************************************************************)
(* The NIC.                                                                *)
(***************************************************************************)
Driver == <<ring, free_packets, allocated_packets, port_up, handler, opener, closer, doorbell,
            feedback, pkt_rx_queue, submitted, failed>>

(* A descriptor is taken and its packet received into, or sent from, the   *)
(* buffer it names.  The queue manager moves the tail only when the        *)
(* descriptor has been read; until the completion its buffer is in use, so *)
(* the driver cleans the ring up to it in either case.                     *)
NicTake(k, q) ==
  LET n == nic[k][q]
      pkt == entries[k][q][Slot(n.tail)]
      new == Len(arrived[q]) + 1
  IN
  /\ n.active /\ n.head # n.tail
  /\ k = "rx" => Len(arrived[q]) < MaxRx
  /\ nic' = [nic EXCEPT ![k][q].tail = Ptr(n.tail + 1)]
  /\ inflight' = [inflight EXCEPT ![k][q] = Append(@, n.tail)]
  /\ IF k = "rx"
     THEN /\ arrived' = [arrived EXCEPT ![q] = Append(@, new)]
          /\ content' = [content EXCEPT ![pkt] = new]
          /\ UNCHANGED transmitted
     ELSE /\ transmitted' = [transmitted EXCEPT ![q] = Append(@, content[pkt])]
          /\ UNCHANGED <<arrived, content>>
  /\ UNCHANGED <<Driver, entries, evq, msi>>

EqUsed == (nic["eq"][0].head - nic["eq"][0].tail) % EqMod
CqUsed(c, q) == (nic[c][q].head - nic[c][q].tail) % PtrMod

(* The completion is written and the head pointer moves; an armed queue   *)
(* gives an event and is disarmed.  A full or inactive queue drops it.    *)
NicComplete(k, q) ==
  LET c == CqOf(k)
      n == nic[c][q]
      ok == n.active /\ CqUsed(c, q) < Size
  IN
  /\ inflight[k][q] # <<>>
  /\ entries' = IF ok THEN [entries EXCEPT ![c][q][Slot(n.head)] = Head(inflight[k][q])] ELSE entries
  /\ nic' = IF ok THEN [nic EXCEPT ![c][q].head = Ptr(n.head + 1), ![c][q].armed = FALSE] ELSE nic
  /\ evq' = IF ok /\ n.armed THEN Append(evq, <<c, q>>) ELSE evq
  /\ inflight' = [inflight EXCEPT ![k][q] = Tail(@)]
  /\ UNCHANGED <<Driver, msi, content, arrived, transmitted>>

(* An event reaches the event queue, which interrupts if it is armed. *)
NicEvent ==
  LET n == nic["eq"][0]
      ok == n.active /\ EqUsed < EqSize
  IN
  /\ evq # <<>>
  /\ entries' = IF ok THEN [entries EXCEPT !["eq"][0][n.head % EqSize] = Head(evq)] ELSE entries
  /\ nic' = IF ok THEN [nic EXCEPT !["eq"][0].head = (n.head + 1) % EqMod, !["eq"][0].armed = FALSE]
            ELSE nic
  /\ msi' = IF ok /\ n.armed THEN msi + 1 ELSE msi
  /\ evq' = Tail(evq)
  /\ UNCHANGED <<Driver, inflight, content, arrived, transmitted>>

MqNext ==
  \/ open \/ close \/ interrupt \/ Handler
  \/ \E q \in Queues : start_xmit(q) \/ write_head_ptr(q)
  \/ \E k \in {"rx", "tx"}, q \in Queues : NicTake(k, q) \/ NicComplete(k, q)
  \/ NicEvent

MqSpec == MqInit /\ [][MqNext]_mqVars

(***************************************************************************)
(* Properties.                                                             *)
(***************************************************************************)
Owners(b) ==
  {i \in DOMAIN free_packets : free_packets[i] = b}
    \cup {x \in {"rx", "tx"} \X Queues \X (0..(Size - 1)) : ring[x[1]][x[2]].info[x[3]] = b}

(* Every packet buffer is in one place: free, or in one slot of one ring.  *)
(* None is lost, none is handed out twice, and free_pkt is never called    *)
(* without a buffer (alloc_pkt, free_pkt), although start_xmit, the        *)
(* interrupt handler and the NIC use the rings at the same time, and close *)
(* may have begun.                                                         *)
BuffersAreOwned ==
  closer.step <= Len(CloseSteps) + 1 =>
  /\ ~failed
  /\ \A b \in 1..allocated_packets : Cardinality(Owners(b)) = 1

(* "assert pkt is not None" in free_pkt holds, also while close runs. *)
FreesAreValid == ~failed

(* A completion nobody has handled is not forgotten: its queue has an      *)
(* event under way, or the handler is at that queue and will arm it, which *)
(* gives one.  Likewise an event in the event queue has an interrupt under *)
(* way, or the handler runs and will arm the queue.  That is what makes    *)
(* handling only max_count completions per event, ignoring events while    *)
(* the port is down and counting interrupts instead of nesting them safe   *)
(* (interrupt, EqRing.process, process_rx_cq).                             *)
NoForgottenCompletion ==
  LET eq == nic["eq"][0]
      queued == {entries["eq"][0][(eq.tail + i) % EqSize] :
                   i \in 0..(EqUsed - 1)}
  IN
  closer.step = 0 =>
  /\ \A k \in {"rxcq", "txcq"}, q \in Queues :
       nic[k][q].head # nic[k][q].tail =>
         ~nic[k][q].armed /\ (<<k, q>> \in Range(evq) \cup queued)
  /\ eq.head # eq.tail => ~eq.armed /\ (msi > 0 \/ handler.pc # "idle")

(* A completion queue has room for every packet the NIC has in hand, and   *)
(* the event queue for every event: nothing is ever dropped for want of a  *)
(* slot.                                                                   *)
QueuesHaveRoom ==
  /\ \A k \in {"rx", "tx"}, q \in Queues :
       nic[CqOf(k)][q].active => CqUsed(CqOf(k), q) + Len(inflight[k][q]) <= Size
  /\ EqUsed + Len(evq) <= EqSize

(* Each ring delivers what the NIC put into it, and transmits what was     *)
(* submitted to it, in order and nothing twice: no buffer is filled again  *)
(* before it is read, and the pointers, which wrap, stay in step           *)
(* (process_rx_cq, process_tx_cq, refill_buffers, write_tail_ptr).         *)
RingsKeepOrder ==
  /\ QueuesHaveRoom
  /\ \A q \in Queues :
       LET got == SelectSeq(pkt_rx_queue, LAMBDA x : x[1] = q)
       IN  /\ Len(got) <= Len(arrived[q])
           /\ \A i \in DOMAIN got : got[i][2] = arrived[q][i]
           /\ Len(transmitted[q]) <= Len(submitted[q])
           /\ \A i \in DOMAIN transmitted[q] : transmitted[q][i] = submitted[q][i]
=============================================================================
