------------------------------ MODULE IfDevice ------------------------------
(***************************************************************************)
(* The generic PCIe interface of lib/pcie/tb/pcie_if.py end to end:        *)
(* PcieIfTestDevice, which issues DMA operations and serves requests to    *)
(* its BARs, PcieIfDevice, which routes between its five streams and the   *)
(* link, and a host, which is outside this file.  A stream (IfStream) and  *)
(* a link direction are FIFO queues; nothing orders one against another.   *)
(*                                                                         *)
(* A frame carries its packet unchanged except that every memory request   *)
(* gets the 64-bit header format, which its receivers treat as the 32-bit  *)
(* one.  The sequence numbers a frame may carry are left out: the test     *)
(* device sets none.                                                       *)
(***************************************************************************)
EXTENDS Tlp, Functions

CONSTANTS
  DmaProcs,            \* test processes that call dma_*
  TagCount,            \* tag_count
  MaxPayload, ReadReq,    \* dev_max_payload, dev_max_read_req; the host's limits too
  BarBase, BarSize,    \* one BAR per space; functions of the space
  HostTop,             \* the host serves addresses 0..HostTop, in both spaces
  DmaOps, HostOps,     \* <<operation, address, length>>
  Timed,               \* operations called with a timeout
  MaxOps, MaxTimeouts  \* bounds: operations started, waits that time out

VARIABLES
  dma,             \* dma[p]: the operation process p is in
  tag_active, current_tag,
  rx_cpl_queues,   \* rx_cpl_queues[tag]
  tx_rd, tx_wr, tx_cpl, rx_req, rx_cpl,   \* the streams between the devices
  up, down,        \* the link to and from the host
  hostMem, devMem, \* bytes by space and address
  host,            \* host[i]: the i-th operation of the host and its answer
  written,         \* <<space, address>> of every byte a DMA write was called for
  late,            \* history: requests whose tag was released before their completion
  started, expired \* operations started, timeouts taken

streams == <<tx_rd, tx_wr, tx_cpl, rx_req, rx_cpl, up, down>>
ifdVars == <<dma, tag_active, current_tag, rx_cpl_queues, streams, hostMem, devMem,
             host, written, late, started, expired>>

Spaces == {"MEM", "IO"}
SpaceIn(op) == IF op \in {"MEM_READ", "MEM_WRITE"} THEN "MEM" ELSE "IO"
Reads(op) == op \in {"MEM_READ", "IO_READ"}

(* A byte starts out as its address and is written as Mark(address). *)
Mark(a) == -1 - a
Marks(a, n) == [i \in 1..n |-> Mark(a + i - 1)]

IdleOp == [st |-> "idle", op |-> "none", addr |-> 0, len |-> 0, n |-> 0, m |-> 0,
           chunk |-> 0, tag |-> NoTag, data |-> <<>>, calls |-> 0,
           foreign |-> FALSE]                \* history: it took a completion of another

IfdInit ==
  /\ dma = [p \in DmaProcs |-> IdleOp]
  /\ tag_active = [t \in 0..(TagCount - 1) |-> FALSE]
  /\ current_tag = 0
  /\ rx_cpl_queues = [t \in 0..(TagCount - 1) |-> <<>>]
  /\ tx_rd = <<>> /\ tx_wr = <<>> /\ tx_cpl = <<>> /\ rx_req = <<>> /\ rx_cpl = <<>>
  /\ up = <<>> /\ down = <<>>
  /\ hostMem = [s \in Spaces |-> [a \in 0..HostTop |-> a]]
  /\ devMem = [s \in Spaces |-> [a \in 0..(BarSize[s] - 1) |-> a]]
  /\ host = <<>>
  /\ written = {}
  /\ late = {}
  /\ started = 0
  /\ expired = 0

(***************************************************************************)
(* DMA operations of the test device.  Definitions with a suffix after an  *)
(* underscore are faulty variants of the one they precede.                 *)
(***************************************************************************)
FreeTags == {t \in DOMAIN tag_active : ~tag_active[t]}

(* The first free tag after current_tag, cyclically; alloc_tag waits for a *)
(* release as long as there is none.                                       *)
alloc_tag ==
  LET try(k) == (current_tag + k) % TagCount
  IN  try(CHOOSE k \in 1..TagCount :
            /\ try(k) \in FreeTags
            /\ \A j \in 1..(k - 1) : try(j) \notin FreeTags)

StartDma(p) ==
  /\ started < MaxOps
  /\ dma[p].st \in {"idle", "done", "failed"}
  /\ \E call \in DmaOps :
       /\ dma' = [dma EXCEPT ![p] = [IdleOp EXCEPT
                    !.st = "next", !.op = call[1], !.addr = call[2], !.len = call[3],
                    !.calls = dma[p].calls + 1]]
       /\ written' = IF Reads(call[1]) THEN written
                     ELSE written \cup ({SpaceIn(call[1])} \X (call[2]..(call[2] + call[3] - 1)))
  /\ started' = started + 1
  /\ UNCHANGED <<tag_active, current_tag, rx_cpl_queues, streams, hostMem, devMem, host,
                 late, expired>>

\* What tells a request of a process from every other.
Id(o, p) == <<p, o.calls, o.n>>

Frame(o, p) == [TLP EXCEPT !.type = o.op, !.id = Id(o, p)]

DwordBytes(o) == Least(o.len - o.n, 4 - (o.addr % 4))
MemBytes(o, size) ==
  Least(Least(o.len - o.n, Limit(size) - (o.addr % 4)), Page - (o.addr % Page))

(* One round of the loop of each operation: the bytes it moves and the frame. *)
dma_io_write(o, p)  == LET k == DwordBytes(o)
                       IN  [chunk |-> k, tlp |-> set_be_data(Frame(o, p), o.addr, Marks(o.addr, k))]
dma_io_read(o, p)   == LET k == DwordBytes(o)
                       IN  [chunk |-> k, tlp |-> set_be(Frame(o, p), o.addr, k)]
dma_mem_write(o, p) == LET k == MemBytes(o, MaxPayload)
                       IN  [chunk |-> k, tlp |-> set_be_data(Frame(o, p), o.addr, Marks(o.addr, k))]
dma_mem_read(o, p)  == LET k == MemBytes(o, ReadReq)
                       IN  [chunk |-> k, tlp |-> set_be(Frame(o, p), o.addr, k)]

Round(o, p) == CASE o.op = "IO_WRITE"  -> dma_io_write(o, p)
                 [] o.op = "IO_READ"   -> dma_io_read(o, p)
                 [] o.op = "MEM_WRITE" -> dma_mem_write(o, p)
                 [] o.op = "MEM_READ"  -> dma_mem_read(o, p)

NextRound(o) == [o EXCEPT !.n = @ + o.chunk, !.addr = @ + o.chunk, !.tag = NoTag, !.m = 0,
                          !.st = IF o.n + o.chunk < o.len THEN "next" ELSE "done"]

(* A request joins its stream: reads one, writes of both kinds another. *)
IssueDma(p) ==
  LET o == dma[p]
      r == Round(o, p)
      tag == IF o.op = "MEM_WRITE" THEN 0 ELSE alloc_tag
      t == [r.tlp EXCEPT !.tag = tag]
      sent == [o EXCEPT !.chunk = r.chunk]
  IN
  /\ o.st = "next"
  /\ o.op # "MEM_WRITE" => FreeTags # {}
  /\ IF Reads(o.op) THEN tx_rd' = Append(tx_rd, t) /\ UNCHANGED tx_wr
     ELSE tx_wr' = Append(tx_wr, t) /\ UNCHANGED tx_rd
  /\ IF o.op = "MEM_WRITE"
     THEN /\ dma' = [dma EXCEPT ![p] = NextRound(sent)]
          /\ UNCHANGED <<tag_active, current_tag>>
     ELSE /\ dma' = [dma EXCEPT ![p] = [sent EXCEPT !.st = "wait", !.tag = tag]]
          /\ tag_active' = [tag_active EXCEPT ![tag] = TRUE]
          /\ current_tag' = tag
  /\ UNCHANGED <<rx_cpl_queues, tx_cpl, rx_req, rx_cpl, up, down, hostMem, devMem, host,
                 written, late, started, expired>>

IfMemReadCpl_NoOffset(o, c) ==
  LET d == get_data(c)
      got == [o EXCEPT !.data = @ \o SubSeq(d, 1, Least(c.byte_count, Len(d))), !.m = @ + Len(d)]
  IN  IF c.status # "SC" THEN [o EXCEPT !.st = "failed"]
      ELSE IF got.m < o.chunk THEN got ELSE NextRound(got)

(* dma_mem_read takes a completion: its byte count must be what is still   *)
(* missing; after the last one the tag is released.                        *)
IfMemReadCpl(o, c) ==
  LET d == get_data(c)
      offset == c.lower_address % 4
      left == IF o.chunk - o.m > 1 THEN o.chunk - o.m ELSE 1
      got == [o EXCEPT !.data = @ \o SubSeq(d, offset + 1, Least(offset + c.byte_count, Len(d))),
                       !.m = @ + Len(d) - offset]
  IN  IF c.status # "SC" THEN [o EXCEPT !.st = "failed"]
      ELSE IF c.byte_count + 3 + offset < c.length * 4 \/ c.byte_count # left
      THEN [o EXCEPT !.st = "assert"]
      ELSE IF got.m < o.chunk THEN got ELSE NextRound(got)

(* dma_io_read and dma_io_write: one completion ends the round. *)
IfIoReadCpl(o, c) ==
  LET d == get_data(c)
      bytes == o.data \o SubSeq(d, (o.addr % 4) + 1, Len(d))
  IN  IF c.status # "SC" THEN [o EXCEPT !.st = "failed"]
      ELSE NextRound([o EXCEPT !.data = SubSeq(bytes, 1, Least(o.len, Len(bytes)))])
IfIoWriteCpl(o, c) == IF c.status # "SC" THEN [o EXCEPT !.st = "failed"] ELSE NextRound(o)

After(o, c) == CASE o.op = "MEM_READ" -> IfMemReadCpl(o, c)
                 [] o.op = "IO_READ"  -> IfIoReadCpl(o, c)
                 [] o.op = "IO_WRITE" -> IfIoWriteCpl(o, c)

(* The tag is released when a round ends.  An IO operation releases it     *)
(* before it looks at the completion, a memory read only at the end, so an *)
(* exception keeps the tag of a memory read for good.                      *)
Releases(o, next) ==
  IF o.op = "MEM_READ" THEN next.st \in {"next", "done"} ELSE next.st # "wait"

(* The tag itself is active whenever its owner releases it (release_tag).  *)
(* mine: the wait ended with a completion of this very request.            *)
EndWait(p, next, mine) ==
  LET o == dma[p]
      lost == o.foreign \/ ~mine
  IN  /\ dma' = [dma EXCEPT ![p] =
           IF Releases(o, next) /\ ~tag_active[o.tag] THEN [next EXCEPT !.st = "assert"] ELSE next]
      /\ tag_active' = IF Releases(o, next) THEN [tag_active EXCEPT ![o.tag] = FALSE]
                       ELSE tag_active
      /\ late' = IF Releases(o, next) /\ lost THEN late \cup {Id(o, p)} ELSE late
      /\ UNCHANGED <<current_tag, streams, hostMem, devMem, host, written, started>>

(* recv_cpl returns the oldest completion of the tag. *)
RecvDma(p) ==
  /\ dma[p].st = "wait" /\ rx_cpl_queues[dma[p].tag] # <<>>
  /\ LET c == Head(rx_cpl_queues[dma[p].tag])
         mine == c.id = Id(dma[p], p)
     IN  EndWait(p, [After(dma[p], c) EXCEPT !.foreign = @ \/ ~mine], mine)
  /\ rx_cpl_queues' = [rx_cpl_queues EXCEPT ![dma[p].tag] = Tail(@)]
  /\ UNCHANGED expired

(* recv_cpl returns None, and the operation raises an exception. *)
TimeoutDma(p) ==
  /\ dma[p].st = "wait" /\ rx_cpl_queues[dma[p].tag] = <<>>
  /\ dma[p].op \in Timed /\ expired < MaxTimeouts
  /\ EndWait(p, [dma[p] EXCEPT !.st = "failed"], FALSE)
  /\ expired' = expired + 1
  /\ UNCHANGED rx_cpl_queues

(***************************************************************************)
(* PcieIfDevice: each stream from the test device drains into the link.    *)
(***************************************************************************)
Others == <<dma, tag_active, current_tag, hostMem, devMem, host, written, late, started,
            expired>>

_run_tx_cpl_logic ==
  /\ tx_cpl # <<>>
  /\ up' = Append(up, Head(tx_cpl)) /\ tx_cpl' = Tail(tx_cpl)
  /\ UNCHANGED <<Others, rx_cpl_queues, tx_rd, tx_wr, rx_req, rx_cpl, down>>

_run_tx_rd_req_logic ==
  /\ tx_rd # <<>>
  /\ up' = Append(up, Head(tx_rd)) /\ tx_rd' = Tail(tx_rd)
  /\ UNCHANGED <<Others, rx_cpl_queues, tx_cpl, tx_wr, rx_req, rx_cpl, down>>

_run_tx_wr_req_logic ==
  /\ tx_wr # <<>>
  /\ up' = Append(up, Head(tx_wr)) /\ tx_wr' = Tail(tx_wr)
  /\ UNCHANGED <<Others, rx_cpl_queues, tx_cpl, tx_rd, rx_req, rx_cpl, down>>

(* match_bar is in the cocotb extension. *)
match_bar(t) ==
  LET s == SpaceIn(t.type) IN t.address \in BarBase[s]..(BarBase[s] + BarSize[s] - 1)

upstream_recv_AnswersAll(t) ==
  CASE IsCpl(t)                  -> "rx_cpl"
    [] ~IsCpl(t) /\ match_bar(t) -> "rx_req"
    [] OTHER                     -> "ur"

(* What upstream_recv does with a packet from the link: it joins a stream, *)
(* is answered with an unsupported request, or is dropped.                 *)
upstream_recv(t) ==
  CASE IsCpl(t)                            -> "rx_cpl"
    [] ~IsCpl(t) /\ match_bar(t)           -> "rx_req"
    [] t.type = "MEM_WRITE" /\ ~match_bar(t) -> "drop"
    [] OTHER                               -> "ur"

UpstreamRecv ==
  /\ down # <<>>
  /\ LET t == Head(down)
         to == upstream_recv(t)
     IN  /\ rx_cpl' = IF to = "rx_cpl" THEN Append(rx_cpl, t) ELSE rx_cpl
         /\ rx_req' = IF to = "rx_req" THEN Append(rx_req, t) ELSE rx_req
         /\ up' = IF to = "ur" THEN Append(up, set_ur_completion(t)) ELSE up
  /\ down' = Tail(down)
  /\ UNCHANGED <<Others, rx_cpl_queues, tx_cpl, tx_rd, tx_wr>>

(***************************************************************************)
(* PcieIfTestDevice serves its BARs and sorts completions by tag.          *)
(***************************************************************************)
InRegion(t) == [t EXCEPT !.address = @ % BarSize[SpaceIn(t.type)]]

ServeMemRead(t) ==
  [bytes |-> devMem["MEM"],
   cpls |-> Completions(t, BytesAt(devMem["MEM"], InRegion(t).address, 4 * t.length), MaxPayload)]
ServeMemWrite(t) == [bytes |-> Store(devMem["MEM"], InRegion(t)), cpls |-> <<>>]
ServeIoRead(t) ==
  [bytes |-> devMem["IO"],
   cpls |-> <<[set_data(set_completion_data(t), IoDword(devMem["IO"], InRegion(t)))
               EXCEPT !.byte_count = 4]>>]
ServeIoWrite(t) == [bytes |-> Store(devMem["IO"], InRegion(t)),
                    cpls |-> <<set_completion(t, FALSE, "SC")>>]

_run_rx_req_tlp ==
  /\ rx_req # <<>>
  /\ LET t == Head(rx_req)
         r == CASE t.type = "MEM_READ"  -> ServeMemRead(t)
                [] t.type = "MEM_WRITE" -> ServeMemWrite(t)
                [] t.type = "IO_READ"   -> ServeIoRead(t)
                [] t.type = "IO_WRITE"  -> ServeIoWrite(t)
     IN  /\ devMem' = [devMem EXCEPT ![SpaceIn(t.type)] = r.bytes]
         /\ tx_cpl' = tx_cpl \o r.cpls
  /\ rx_req' = Tail(rx_req)
  /\ UNCHANGED <<dma, tag_active, current_tag, rx_cpl_queues, tx_rd, tx_wr, rx_cpl, up, down,
                 hostMem, host, written, late, started, expired>>

_run_rx_cpl_tlp ==
  /\ rx_cpl # <<>>
  /\ rx_cpl_queues' = [rx_cpl_queues EXCEPT ![Head(rx_cpl).tag] = Append(@, Head(rx_cpl))]
  /\ rx_cpl' = Tail(rx_cpl)
  /\ UNCHANGED <<Others, tx_cpl, tx_rd, tx_wr, rx_req, up, down>>

(***************************************************************************)
(* The host.                                                               *)
(***************************************************************************)
HostRequest(call) ==
  /\ started < MaxOps
  /\ LET t == [TLP EXCEPT !.type = call[1], !.tag = Len(host) + 1]
     IN  down' = Append(down, IF Reads(call[1]) THEN set_be(t, call[2], call[3])
                              ELSE set_be_data(t, call[2], Marks(call[2], call[3])))
  /\ host' = Append(host, [op |-> call[1], addr |-> call[2], len |-> call[3],
                           status |-> "none", answers |-> 0, data |-> <<>>])
  /\ started' = started + 1
  /\ UNCHANGED <<dma, tag_active, current_tag, rx_cpl_queues, tx_cpl, tx_rd, tx_wr, rx_req,
                 rx_cpl, up, hostMem, devMem, written, late, expired>>

(* A packet reaches the host: a completion of its own, or a request, which *)
(* it serves or, outside its memory, refuses.                              *)
HostReceive ==
  /\ up # <<>>
  /\ LET t == Head(up)
         s == SpaceIn(t.type)
         mine == t.address + 4 * t.length <= HostTop + 1
         d == get_data(t)
         offset == IF host = <<>> \/ host[t.tag].op = "MEM_READ" THEN t.lower_address % 4
                   ELSE host[t.tag].addr % 4
         cpls == CASE t.type = "MEM_WRITE" -> <<>>
                   [] t.type # "MEM_WRITE" /\ ~mine -> <<set_ur_completion(t)>>
                   [] t.type = "MEM_READ" /\ mine ->
                        Completions(t, BytesAt(hostMem["MEM"], t.address, 4 * t.length), MaxPayload)
                   [] t.type = "IO_READ" /\ mine -> <<IoReadCpl(hostMem["IO"], t)>>
                   [] t.type = "IO_WRITE" /\ mine -> <<set_completion(t, FALSE, "SC")>>
     IN  IF IsCpl(t)
         THEN /\ host' = [host EXCEPT ![t.tag].status = t.status, ![t.tag].answers = @ + 1,
                                      ![t.tag].data = @ \o SubSeq(d, offset + 1, Len(d))]
              /\ UNCHANGED <<hostMem, down>>
         ELSE /\ hostMem' = IF HasData(t) /\ mine THEN [hostMem EXCEPT ![s] = Store(@, t)]
                            ELSE hostMem
              /\ down' = down \o cpls
              /\ UNCHANGED host
  /\ up' = Tail(up)
  /\ UNCHANGED <<dma, tag_active, current_tag, rx_cpl_queues, tx_cpl, tx_rd, tx_wr, rx_req,
                 rx_cpl, devMem, written, late, started, expired>>

IfdNext ==
  \/ \E p \in DmaProcs : StartDma(p) \/ IssueDma(p) \/ RecvDma(p) \/ TimeoutDma(p)
  \/ _run_tx_cpl_logic \/ _run_tx_rd_req_logic \/ _run_tx_wr_req_logic
  \/ UpstreamRecv \/ _run_rx_req_tlp \/ _run_rx_cpl_tlp
  \/ (\E call \in HostOps : HostRequest(call)) \/ HostReceive

IfdSpec == IfdInit /\ [][IfdNext]_ifdVars

(***************************************************************************)
(* Properties.                                                             *)
(***************************************************************************)
Quiet == \A k \in DOMAIN streams : streams[k] = <<>>

(* Every DMA operation that returns has done what it was asked for: a read *)
(* returns the bytes of its range, however it was split at the limits and  *)
(* the boundary and whichever other operations ran, and no assertion of    *)
(* dma_mem_read fails; release_tag never meets a tag that is free.  A      *)
(* write, once the streams are empty, has changed exactly its bytes.  That *)
(* stays so after memory reads that timed out and whose completions arrive *)
(* late; only an operation that was given the tag of an IO operation that  *)
(* timed out, and took its late completion, may go wrong.                  *)
DmaIsExact ==
  /\ \A s \in Spaces, a \in 0..HostTop :
       /\ hostMem[s][a] \in {a, Mark(a)}
       /\ hostMem[s][a] = Mark(a) => <<s, a>> \in written
       /\ Quiet /\ <<s, a>> \in written /\ (\A p \in DmaProcs : dma[p].st \in {"idle", "done"}) =>
            hostMem[s][a] = Mark(a)
  /\ \A p \in DmaProcs : ~dma[p].foreign =>
       /\ dma[p].st # "assert"
       /\ dma[p].st = "done" /\ Reads(dma[p].op) =>
            /\ Len(dma[p].data) = dma[p].len
            /\ \A i \in 1..dma[p].len :
                 LET a == dma[p].addr - dma[p].n + i - 1 IN dma[p].data[i] \in {a, Mark(a)}

(* The bytes a read of the host gets: its dwords from its address on. *)
Answer(h) == 4 * (((h.addr % 4) + h.len + 3) \div 4) - (h.addr % 4)

(* Once the streams and links are empty, every operation of the host has   *)
(* had its effect: a write changed exactly its bytes of the BAR, a read    *)
(* has all its bytes once, and what matches no BAR was refused, or, if it  *)
(* was a memory write, dropped without an answer; no answer came twice.    *)
HostIsServed ==
  Quiet =>
  /\ \A s \in Spaces : \A a \in 0..(BarSize[s] - 1) :
       devMem[s][a] = IF \E i \in DOMAIN host :
                           /\ SpaceIn(host[i].op) = s /\ ~Reads(host[i].op)
                           /\ BarBase[s] + a \in host[i].addr..(host[i].addr + host[i].len - 1)
                      THEN Mark(BarBase[s] + a) ELSE a
  /\ \A i \in DOMAIN host :
    LET h == host[i]
        s == SpaceIn(h.op)
        hit == h.addr \in BarBase[s]..(BarBase[s] + BarSize[s] - 1)
        at(k) == (h.addr + k - 1) % BarSize[s]
    IN  CASE ~hit /\ h.op # "MEM_WRITE" -> h.status = "UR" /\ h.answers = 1 /\ h.data = <<>>
          [] h.op = "MEM_WRITE" -> h.answers = 0
          [] hit /\ h.op # "MEM_WRITE" ->
               /\ h.status = "SC"
               /\ h.op # "MEM_READ" => h.answers = 1
               /\ Reads(h.op) => \A k \in 1..h.len : h.data[k] \in {at(k), Mark(h.addr + k - 1)}
               /\ Len(h.data) = IF Reads(h.op) THEN Answer(h) ELSE 0

(* No two waiting operations share a tag, and the completions queued for a *)
(* waiting operation are those of its own request, or late ones of a       *)
(* request whose tag was released before they came.  Only IO operations    *)
(* that time out release a tag so: a memory read that failed keeps its     *)
(* tag, and its late completions meet nobody.                              *)
TagsAreOwned ==
  /\ \A p, q \in DmaProcs :
       dma[p].st = "wait" /\ dma[q].st = "wait" /\ p # q => dma[p].tag # dma[q].tag
  /\ \A p \in DmaProcs : dma[p].st = "wait" =>
       /\ tag_active[dma[p].tag]
       /\ \A c \in Range(rx_cpl_queues[dma[p].tag]) : c.id = Id(dma[p], p) \/ c.id \in late
=============================================================================
