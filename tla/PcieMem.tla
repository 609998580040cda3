------------------------------ MODULE PcieMem ------------------------------
(***************************************************************************)
(* The root complex and memory endpoints of pcie.py, a link to each: all   *)
(* issue requests (RootComplex and Function: mem_read, mem_write, io_read, *)
(* io_write, and the root complex config_read and config_write) and all    *)
(* serve them (MemoryEndpoint behind Device, and the regions of            *)
(* RootComplex).  Several test processes may use an agent at once; they    *)
(* share its tags and completion queues.                                   *)
(*                                                                         *)
(* A link is a FIFO each way (PciePort).  A process blocks in recv_cpl     *)
(* on the sync signal of its tag; the simulation kernel, which is not in   *)
(* this repository, runs every process an arrival wakes before the next    *)
(* arrival.  An exception or failed assertion ends the operation.          *)
(***************************************************************************)
EXTENDS Tlp, Functions

CONSTANTS
  Eps,                 \* the endpoints
  RcProc,              \* test processes calling into the root complex
  EpProc,              \* EpProc[e]: those calling into endpoint e
  RcTags, EpTags,      \* tag_count of each get_free_tag
  PayloadSize,         \* max_payload_size
  ReadSize,            \* max_read_request_size
  BusMaster,           \* bus_master_enable of the function
  RcRegion,            \* addresses of the root complex's regions, for memory and IO
  EpBar,               \* EpBar[e]: addresses of e's BARs, for memory and IO
  Window,              \* Window[e]: addresses the bridges route to e
  CfgBytes,            \* CfgBytes[e]: writable configuration bytes of e
  RcOps, EpOps,        \* <<operation, address, length>> the processes may start
  MaxOps,              \* bound: operations started in a behaviour
  MaxTimeouts          \* bound: waits that end in a timeout

Agent == {"rc"} \cup Eps
Proc == RcProc \cup UNION {EpProc[e] : e \in Eps}
AgentOf(p) == IF p \in RcProc THEN "rc" ELSE CHOOSE e \in Eps : p \in EpProc[e]
TagCount(x) == IF x = "rc" THEN RcTags ELSE EpTags

VARIABLES
  mem,          \* mem[x][space]: bytes agent x serves, by address
  down,         \* down[e]: packets on their way to endpoint e
  up,           \* up[e]: packets on their way from e to the root complex
  current_tag,  \* current_tag[x]
  rx_cpl_queues,\* rx_cpl_queues[x][tag]
  proc,         \* proc[p]: the operation process p is in
  shadow,       \* mem as it will be once every write issued so far has landed
  ops, timeouts \* operations started, timeouts taken

vars == <<mem, down, up, current_tag, rx_cpl_queues, proc, shadow, ops, timeouts>>

Space == {"MEM", "IO", "CFG"}
SpaceOf(op) == CASE op \in {"MEM_READ", "MEM_WRITE"} -> "MEM"
                 [] op \in {"IO_READ", "IO_WRITE"}   -> "IO"
                 [] OTHER                            -> "CFG"
IsRead(op) == op \in {"MEM_READ", "IO_READ", "CFG_READ"}

(* Addresses agent x serves in a space. *)
Served(x, s) == CASE x = "rc" -> IF s = "CFG" THEN {} ELSE RcRegion
                  [] x # "rc" -> IF s = "CFG" THEN CfgBytes[x] ELSE EpBar[x]

(* Where a request of agent x goes. *)
Target(x, s, a) ==
  IF x # "rc" THEN "rc"
  ELSE CHOOSE e \in Eps : a \in (IF s = "CFG" THEN CfgBytes[e] ELSE Window[e])

(* Every byte starts out as its address; a write of address a writes       *)
(* Written(a), so that a misplaced byte shows.                             *)
Written(a) == -1 - a
InitialMem == [x \in Agent |-> [s \in Space |-> [a \in Served(x, s) |-> a]]]

Idle == [st |-> "idle", op |-> "none", addr |-> 0, len |-> 0, n |-> 0, m |-> 0,
         chunk |-> 0, tag |-> NoTag, data |-> <<>>, id |-> 0, expect |-> <<>>]

Init ==
  /\ mem = InitialMem
  /\ down = [e \in Eps |-> <<>>]
  /\ up = [e \in Eps |-> <<>>]
  /\ current_tag = [x \in Agent |-> 0]
  /\ rx_cpl_queues = [x \in Agent |-> [t \in 0..(TagCount(x) - 1) |-> <<>>]]
  /\ proc = [p \in Proc |-> Idle]
  /\ shadow = InitialMem
  /\ ops = 0
  /\ timeouts = 0

(***************************************************************************)
(* Requests.  Definitions with a suffix after an underscore are faulty     *)
(* variants of the one they precede, which the properties must reject.     *)
(***************************************************************************)
RcGetFreeTag_Fixed == 0

(* get_free_tag: the next tag after current_tag, cyclically, with nothing  *)
(* in its completion queue; None when there is none.                       *)
RcGetFreeTag ==
  LET try(k) == (current_tag["rc"] + k) % RcTags
      free == {k \in 1..RcTags : rx_cpl_queues["rc"][try(k)] = <<>>}
  IN  IF free = {} THEN NoTag ELSE try(CHOOSE k \in free : \A j \in free : k <= j)

FnGetFreeTag(e) ==
  LET try(k) == (current_tag[e] + k) % EpTags
      free == {k \in 1..EpTags : rx_cpl_queues[e][try(k)] = <<>>}
  IN  IF free = {} THEN NoTag ELSE try(CHOOSE k \in free : \A j \in free : k <= j)

Request(op, o) == [TLP EXCEPT !.type = op, !.id = <<o.id, o.n>>]

(* Bytes of the write still to be sent that go into a packet of k bytes. *)
Payload(o, k) == [i \in 1..k |-> Written(o.addr + i - 1)]

MemChunk_NoPage(o, size) == Least(o.len - o.n, Limit(size) - (o.addr % 4))

(* The byte_length of a memory request: what is left, the size limit less *)
(* the padding, and the distance to the next boundary.                    *)
MemChunk(o, size) ==
  Least(Least(o.len - o.n, Limit(size) - (o.addr % 4)), Page - (o.addr % Page))

(* The byte_length of an IO or configuration request. *)
DwordChunk(o) == Least(o.len - o.n, 4 - (o.addr % 4))

RcMemRead(o)   == LET k == MemChunk(o, ReadSize)
                  IN  [chunk |-> k, tlp |-> set_be(Request("MEM_READ", o), o.addr, k)]
RcMemWrite(o)  == LET k == MemChunk(o, PayloadSize)
                  IN  [chunk |-> k,
                       tlp |-> set_be_data(Request("MEM_WRITE", o), o.addr, Payload(o, k))]
RcIoRead(o)    == [chunk |-> DwordChunk(o),
                   tlp |-> set_be(Request("IO_READ", o), o.addr, DwordChunk(o))]
RcIoWrite(o)   == [chunk |-> DwordChunk(o),
                   tlp |-> set_be_data(Request("IO_WRITE", o), o.addr, Payload(o, DwordChunk(o)))]
(* register_number is addr >> 2, set_be's dword address. *)
ConfigRead(o)  == [chunk |-> DwordChunk(o),
                   tlp |-> set_be(Request("CFG_READ", o), o.addr, DwordChunk(o))]
ConfigWrite(o) == [chunk |-> DwordChunk(o),
                   tlp |-> set_be_data(Request("CFG_WRITE", o), o.addr, Payload(o, DwordChunk(o)))]

(* Function.mem_read computes byte_length but passes the whole length of *)
(* the operation to set_be.                                              *)
FnMemRead(o)   == [chunk |-> MemChunk(o, ReadSize),
                   tlp |-> set_be(Request("MEM_READ", o), o.addr, o.len)]
FnMemWrite(o)  == LET k == MemChunk(o, PayloadSize)
                  IN  [chunk |-> k,
                       tlp |-> set_be_data(Request("MEM_WRITE", o), o.addr, Payload(o, k))]
FnIoRead(o)    == [chunk |-> DwordChunk(o),
                   tlp |-> set_be(Request("IO_READ", o), o.addr, DwordChunk(o))]
FnIoWrite(o)   == [chunk |-> DwordChunk(o),
                   tlp |-> set_be_data(Request("IO_WRITE", o), o.addr, Payload(o, DwordChunk(o)))]

NextRequest(x, o) ==
  CASE x = "rc" /\ o.op = "MEM_READ"  -> RcMemRead(o)
    [] x = "rc" /\ o.op = "MEM_WRITE" -> RcMemWrite(o)
    [] x = "rc" /\ o.op = "IO_READ"   -> RcIoRead(o)
    [] x = "rc" /\ o.op = "IO_WRITE"  -> RcIoWrite(o)
    [] x = "rc" /\ o.op = "CFG_READ"  -> ConfigRead(o)
    [] x = "rc" /\ o.op = "CFG_WRITE" -> ConfigWrite(o)
    [] x # "rc" /\ o.op = "MEM_READ"  -> FnMemRead(o)
    [] x # "rc" /\ o.op = "MEM_WRITE" -> FnMemWrite(o)
    [] x # "rc" /\ o.op = "IO_READ"   -> FnIoRead(o)
    [] x # "rc" /\ o.op = "IO_WRITE"  -> FnIoWrite(o)

(* The operation after the bytes of one request are done with. *)
Advance(o) == [o EXCEPT !.n = @ + o.chunk, !.addr = @ + o.chunk, !.tag = NoTag,
                        !.st = IF o.n + o.chunk < o.len THEN "ready" ELSE "done"]

Landed(bytes, o, k) ==
  [a \in DOMAIN bytes |-> IF a \in o.addr..(o.addr + k - 1) THEN Written(a) ELSE bytes[a]]

(* A process calls an operation.  The root complex serves addresses of its *)
(* own regions at once; without bus mastering a function does nothing.     *)
Start(p) ==
  LET x == AgentOf(p)
  IN
  /\ ops < MaxOps
  /\ proc[p].st \in {"idle", "done", "failed"}
  /\ \E call \in (IF x = "rc" THEN RcOps ELSE EpOps) :
       LET s  == SpaceOf(call[1])
           o  == [Idle EXCEPT !.op = call[1], !.addr = call[2], !.len = call[3],
                              !.id = ops + 1]
           local == x = "rc" /\ s # "CFG" /\ call[2] \in RcRegion
           y == IF local THEN x ELSE Target(x, s, call[2])
           held == IF local THEN mem[x][s] ELSE shadow[y][s]
           now == [i \in 1..call[3] |->
                     IF call[2] + i - 1 \in Served(y, s) THEN held[call[2] + i - 1] ELSE 0]
       IN  IF x # "rc" /\ ~BusMaster
           THEN /\ proc' = [proc EXCEPT ![p] = [o EXCEPT !.st = "failed"]]
                /\ UNCHANGED <<mem, shadow>>
           ELSE IF local
           THEN /\ proc' = [proc EXCEPT ![p] =
                     [o EXCEPT !.st = "done",
                               !.data = IF IsRead(o.op) THEN now ELSE <<>>,
                               !.expect = now]]
                /\ mem' = IF IsRead(o.op) THEN mem
                          ELSE [mem EXCEPT !["rc"][s] = Landed(@, o, o.len)]
                /\ shadow' = IF IsRead(o.op) THEN shadow
                             ELSE [shadow EXCEPT !["rc"][s] = Landed(@, o, o.len)]
           ELSE /\ proc' = [proc EXCEPT ![p] = [o EXCEPT !.st = "ready", !.expect = now]]
                /\ UNCHANGED <<mem, shadow>>
  /\ ops' = ops + 1
  /\ UNCHANGED <<down, up, current_tag, rx_cpl_queues, timeouts>>

(* Packets join the link from agent x to agent y. *)
Send(x, y, ts) ==
  IF x = "rc" THEN down' = [down EXCEPT ![y] = @ \o ts] /\ UNCHANGED up
  ELSE up' = [up EXCEPT ![x] = @ \o ts] /\ UNCHANGED down

(* The next packet of an operation.  A memory write is posted: it needs no *)
(* tag and no completion, and the next packet may follow at once.          *)
Issue(p) ==
  LET x == AgentOf(p)
      o == proc[p]
      y == Target(x, SpaceOf(o.op), o.addr)
      r == NextRequest(x, o)
      posted == o.op = "MEM_WRITE"
      tag == IF posted THEN 0 ELSE IF x = "rc" THEN RcGetFreeTag ELSE FnGetFreeTag(x)
      t == [r.tlp EXCEPT !.tag = tag]
      sent == [o EXCEPT !.chunk = r.chunk]
  IN
  /\ o.st = "ready"
  /\ current_tag' = IF posted \/ tag = NoTag THEN current_tag
                    ELSE [current_tag EXCEPT ![x] = tag]
  /\ IF tag = NoTag \/ ~check(t)
     THEN /\ proc' = [proc EXCEPT ![p] = [o EXCEPT !.st = "assert"]]
          /\ UNCHANGED <<down, up, shadow>>
     ELSE /\ Send(x, y, <<t>>)
          /\ proc' = [proc EXCEPT ![p] =
               IF posted THEN Advance(sent)
               ELSE [sent EXCEPT !.st = "wait", !.tag = tag, !.m = 0]]
          /\ shadow' = IF IsRead(o.op) THEN shadow
                       ELSE [shadow EXCEPT ![y][SpaceOf(o.op)] =
                               Landed(@, o, r.chunk)]
  /\ UNCHANGED <<mem, rx_cpl_queues, ops, timeouts>>

(***************************************************************************)
(* Serving requests.                                                       *)
(***************************************************************************)
Crosses(t, offset) == t.length * 4 > Page - (offset % Page)

(* What serving t leaves in memory, and the completions it sends. *)
Served1(bytes, cpls) == [bytes |-> bytes, cpls |-> cpls]

EpHandleMemRead(e, b, t) ==
  Served1(b, IF t.address \notin EpBar[e] THEN <<set_ur_completion(t)>>
             ELSE IF Crosses(t, t.address) THEN <<>>
             ELSE Completions(t, BytesAt(b, t.address, 4 * t.length), PayloadSize))
EpHandleMemWrite(e, b, t) ==
  Served1(IF t.address \notin EpBar[e] \/ Crosses(t, t.address) THEN b ELSE Store(b, t), <<>>)
EpHandleIoRead(e, b, t) ==
  Served1(b, IF t.address \notin EpBar[e] THEN <<set_ur_completion(t)>> ELSE <<IoReadCpl(b, t)>>)
EpHandleIoWrite(e, b, t) ==
  IF t.address \notin EpBar[e] THEN Served1(b, <<set_ur_completion(t)>>)
  ELSE Served1(Store(b, t), <<[set_completion(t, FALSE, "SC") EXCEPT !.byte_count = 4]>>)

(* handle_config_0_tlp: a read returns the whole register, a write obeys   *)
(* the byte enables; a register that does not exist reads as zero.         *)
HandleConfig(e, b, t) ==
  IF t.type = "CFG_READ"
  THEN Served1(b, <<[set_data(set_completion_data(t),
                       [k \in 1..4 |-> IF t.address + k - 1 \in CfgBytes[e]
                                       THEN b[t.address + k - 1] ELSE 0])
                       EXCEPT !.byte_count = 4]>>)
  ELSE Served1(Store(b, t), <<set_completion(t, FALSE, "SC")>>)

RcHandleMemRead(b, t) ==
  Served1(b, IF t.address \notin RcRegion THEN <<set_ur_completion(t)>>
             ELSE IF Crosses(t, t.address) THEN <<>>
             ELSE Completions(t, BytesAt(b, t.address, 4 * t.length), PayloadSize))
RcHandleMemWrite(b, t) ==
  Served1(IF t.address \notin RcRegion \/ Crosses(t, t.address) THEN b ELSE Store(b, t), <<>>)
RcHandleIoRead(b, t) ==
  Served1(b, IF t.address \notin RcRegion THEN <<set_ur_completion(t)>> ELSE <<IoReadCpl(b, t)>>)
RcHandleIoWrite(b, t) ==
  IF t.address \notin RcRegion THEN Served1(b, <<set_ur_completion(t)>>)
  ELSE Served1(Store(b, t), <<[set_completion(t, FALSE, "SC") EXCEPT !.byte_count = 4]>>)

Handle(x, b, t) ==
  CASE x # "rc" /\ t.type = "MEM_READ"  -> EpHandleMemRead(x, b, t)
    [] x # "rc" /\ t.type = "MEM_WRITE" -> EpHandleMemWrite(x, b, t)
    [] x # "rc" /\ t.type = "IO_READ"   -> EpHandleIoRead(x, b, t)
    [] x # "rc" /\ t.type = "IO_WRITE"  -> EpHandleIoWrite(x, b, t)
    [] x # "rc" /\ SpaceOf(t.type) = "CFG" -> HandleConfig(x, b, t)
    [] x = "rc" /\ t.type = "MEM_READ"  -> RcHandleMemRead(b, t)
    [] x = "rc" /\ t.type = "MEM_WRITE" -> RcHandleMemWrite(b, t)
    [] x = "rc" /\ t.type = "IO_READ"   -> RcHandleIoRead(b, t)
    [] x = "rc" /\ t.type = "IO_WRITE"  -> RcHandleIoWrite(b, t)

Woken(x) == {p \in Proc : AgentOf(p) = x /\ proc[p].st = "woken"}

(* The head of a link reaches its receiver once everyone the last arrival *)
(* woke has run.                                                          *)
Arriving(e, x) ==
  LET q == IF x = "rc" THEN up[e] ELSE down[e]
  IN  IF q = <<>> \/ Woken(x) # {} THEN <<>> ELSE <<Head(q)>>

(* A request on the link of endpoint e arrives at agent x, and is served. *)
ServeRequest(e, x) ==
  /\ Arriving(e, x) # <<>> /\ ~IsCpl(Arriving(e, x)[1])
  /\ LET t == Arriving(e, x)[1]
         s == SpaceOf(t.type)
         r == Handle(x, mem[x][s], t)
     IN  /\ mem' = [mem EXCEPT ![x][s] = r.bytes]
         /\ IF x = "rc" THEN /\ up' = [up EXCEPT ![e] = Tail(@)]
                             /\ down' = [down EXCEPT ![e] = @ \o r.cpls]
            ELSE /\ down' = [down EXCEPT ![e] = Tail(@)]
                 /\ up' = [up EXCEPT ![e] = @ \o r.cpls]
  /\ UNCHANGED <<current_tag, rx_cpl_queues, proc, shadow, ops, timeouts>>

ReceiveCpl_NoSync(e, x) ==
  /\ Arriving(e, x) # <<>> /\ IsCpl(Arriving(e, x)[1])
  /\ LET t == Arriving(e, x)[1]
     IN  /\ rx_cpl_queues' = [rx_cpl_queues EXCEPT ![x][t.tag] = Append(@, t)]
         /\ UNCHANGED proc
  /\ IF x = "rc" THEN up' = [up EXCEPT ![e] = Tail(@)] /\ UNCHANGED down
     ELSE down' = [down EXCEPT ![e] = Tail(@)] /\ UNCHANGED up
  /\ UNCHANGED <<mem, current_tag, shadow, ops, timeouts>>

(* handle_tlp with a completion: it is queued by its tag, and the sync     *)
(* signal wakes whoever waits on that tag.                                 *)
ReceiveCpl(e, x) ==
  /\ Arriving(e, x) # <<>> /\ IsCpl(Arriving(e, x)[1])
  /\ LET t == Arriving(e, x)[1]
     IN  /\ rx_cpl_queues' = [rx_cpl_queues EXCEPT ![x][t.tag] = Append(@, t)]
         /\ proc' = [p \in Proc |->
              IF AgentOf(p) = x /\ proc[p].st = "wait" /\ proc[p].tag = t.tag
              THEN [proc[p] EXCEPT !.st = "woken"] ELSE proc[p]]
  /\ IF x = "rc" THEN up' = [up EXCEPT ![e] = Tail(@)] /\ UNCHANGED down
     ELSE down' = [down EXCEPT ![e] = Tail(@)] /\ UNCHANGED up
  /\ UNCHANGED <<mem, current_tag, shadow, ops, timeouts>>

(***************************************************************************)
(* The requester takes a completion.                                       *)
(***************************************************************************)
Fail(o, why) == [o EXCEPT !.st = why]

MemReadCpl_NoOffset(o, c) ==
  LET d == get_data(c)
      offset == c.lower_address % 4
      got == [o EXCEPT !.data = @ \o SubSeq(d, 1, Least(c.byte_count, Len(d))),
                       !.m = @ + Len(d) - offset]
  IN  IF c.status # "SC" THEN Fail(o, "failed")
      ELSE IF c.byte_count + 3 + offset < c.length * 4 \/ c.byte_count # o.chunk - o.m
      THEN Fail(o, "assert")
      ELSE IF got.m < o.chunk THEN [got EXCEPT !.st = "wait"] ELSE Advance(got)

(* mem_read: a read of many completions checks each one's byte count. *)
MemReadCpl(o, c) ==
  LET d == get_data(c)
      offset == c.lower_address % 4
      got == [o EXCEPT !.data = @ \o SubSeq(d, offset + 1, Least(offset + c.byte_count, Len(d))),
                       !.m = @ + Len(d) - offset]
  IN  IF c.status # "SC" THEN Fail(o, "failed")
      ELSE IF c.byte_count + 3 + offset < c.length * 4 \/ c.byte_count # o.chunk - o.m
      THEN Fail(o, "assert")
      ELSE IF got.m < o.chunk THEN [got EXCEPT !.st = "wait"] ELSE Advance(got)

(* The bytes a dword read adds, from the padding on; the result is cut to *)
(* the length asked for.                                                  *)
AddDword(o, d) ==
  LET bytes == o.data \o SubSeq(d, (o.addr % 4) + 1, 4)
  IN  Advance([o EXCEPT !.data = SubSeq(bytes, 1, Least(o.len, Len(bytes)))])

IoReadDone(o, c) ==
  IF c.status # "SC" THEN Fail(o, "failed")
  ELSE IF c.length # 1 THEN Fail(o, "assert") ELSE AddDword(o, get_data(c))

IoWriteDone(o, c) == IF c.status # "SC" THEN Fail(o, "failed") ELSE Advance(o)

AllOnes == <<255, 255, 255, 255>>

ConfigReadDone(o, c) ==
  IF c.status # "SC" THEN AddDword(o, AllOnes)
  ELSE IF c.length # 1 THEN Fail(o, "assert") ELSE AddDword(o, get_data(c))

Take(o, c) == CASE o.op = "MEM_READ"  -> MemReadCpl(o, c)
                [] o.op = "IO_READ"   -> IoReadDone(o, c)
                [] o.op = "IO_WRITE"  -> IoWriteDone(o, c)
                [] o.op = "CFG_READ"  -> ConfigReadDone(o, c)
                [] o.op = "CFG_WRITE" -> Advance(o)

(* recv_cpl returned None. *)
TakeNone(o) == CASE o.op = "CFG_READ"  -> AddDword(o, AllOnes)
                 [] o.op = "CFG_WRITE" -> Advance(o)
                 [] OTHER              -> Fail(o, "failed")

(* recv_cpl returns: the oldest completion of the tag, if there is one. *)
Resume(p) ==
  LET x == AgentOf(p)
      o == proc[p]
      q == rx_cpl_queues[x][o.tag]
  IN  /\ IF q = <<>>
         THEN /\ proc' = [proc EXCEPT ![p] = TakeNone(o)]
              /\ UNCHANGED rx_cpl_queues
         ELSE /\ proc' = [proc EXCEPT ![p] = Take(o, Head(q))]
              /\ rx_cpl_queues' = [rx_cpl_queues EXCEPT ![x][o.tag] = Tail(@)]
      /\ UNCHANGED <<mem, down, up, current_tag, shadow, ops>>

RecvCpl(p) == proc[p].st = "woken" /\ Resume(p) /\ UNCHANGED timeouts

TimeOut(p) ==
  /\ proc[p].st = "wait" /\ timeouts < MaxTimeouts /\ Woken(AgentOf(p)) = {}
  /\ Resume(p)
  /\ timeouts' = timeouts + 1

Next ==
  \/ \E p \in Proc : Start(p) \/ Issue(p) \/ RecvCpl(p) \/ TimeOut(p)
  \/ \E e \in Eps : \E x \in {"rc", e} : ServeRequest(e, x) \/ ReceiveCpl(e, x)

(* The simulation runs on as long as a process or a packet can move. *)
Fairness ==
  /\ \A p \in Proc : WF_vars(Issue(p)) /\ WF_vars(RecvCpl(p))
  /\ \A e \in Eps : \A x \in {"rc", e} :
       WF_vars(ServeRequest(e, x)) /\ WF_vars(ReceiveCpl(e, x))

Spec == Init /\ [][Next]_vars /\ Fairness

(***************************************************************************)
(* Properties.                                                             *)
(***************************************************************************)
Waiting(p) == proc[p].st \in {"wait", "woken"}

(* Packets on the links and in the completion queues. *)
OnLinks == UNION {Range(down[e]) \cup Range(up[e]) : e \in Eps}

(* No assertion of the requesters fails: every packet passes TLP.check     *)
(* when sent, every completion of a memory read carries the byte count     *)
(* still missing, a dword completion one dword, and a tag is always found. *)
AssertionsHold == \A p \in Proc : proc[p].st # "assert"

(* A finished read returns, byte for byte, what its address range held     *)
(* when it was called, or a value written there since: padding, splitting  *)
(* at the size limit and the boundary, and reassembly lose no byte.        *)
ReadsAreExact ==
  \A p \in Proc :
    LET o == proc[p]
        s == SpaceOf(o.op)
        a0 == o.addr - o.n
        y == IF AgentOf(p) = "rc" /\ s # "CFG" /\ a0 \in RcRegion THEN "rc"
             ELSE Target(AgentOf(p), s, a0)
    IN  o.st = "done" /\ IsRead(o.op) /\ timeouts = 0 =>
          /\ Len(o.data) = o.len
          /\ \A i \in 1..o.len : o.data[i] \in {o.expect[i], shadow[y][s][a0 + i - 1]}

(* Once the links are empty, the memories hold exactly the bytes of every  *)
(* write issued: the byte enables write each byte at its own address and   *)
(* touch no neighbour.                                                     *)
WritesLand ==
  (\A e \in Eps : down[e] = <<>> /\ up[e] = <<>>) => mem = shadow

(* A completion that a waiting process may take answers its own request.   *)
(* get_free_tag only looks for an empty completion queue, so this holds as *)
(* long as it gives no tag away while a request with it is under way.      *)
CompletionIsMine ==
  \A p \in Proc : Waiting(p) =>
    LET x == AgentOf(p)
    IN  \A c \in Range(rx_cpl_queues[x][proc[p].tag]) : c.id = <<proc[p].id, proc[p].n>>

(* Under the same condition tags are lost to late completions only: a      *)
(* queue that holds a completion nobody waits for belongs to a request     *)
(* that timed out.                                                         *)
LeaksAreTimeouts ==
  \A x \in Agent :
    Cardinality({t \in DOMAIN rx_cpl_queues[x] :
                   /\ rx_cpl_queues[x][t] # <<>>
                   /\ \A p \in Proc : AgentOf(p) = x /\ Waiting(p) => proc[p].tag # t})
      <= timeouts

(* A completion carries at most the maximum payload, and unless it is the  *)
(* last of its read it ends at a read completion boundary.                 *)
CompletionsAreAligned ==
  \A c \in OnLinks : c.type = "CPL_DATA" /\ c.lower_address + c.byte_count > 0 =>
    LET lead == c.lower_address % 4
        last == c.byte_count <= 4 * c.length - lead
    IN  /\ 4 * c.length <= Limit(PayloadSize)
        /\ last \/ (c.lower_address - lead + 4 * c.length) % Rcb = 0

(* Every operation ends, in success or in an exception. *)
OperationsEnd ==
  \A p \in Proc : proc[p].st = "ready" ~> proc[p].st \in {"done", "failed", "assert"}
=============================================================================
