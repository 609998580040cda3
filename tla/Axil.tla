--------------------------------- MODULE Axil ----------------------------------
(* AXILiteMaster and AXILiteRam of lib/axi/tb/axil.py on one bus.  Every word is
   an access of its own; AXILiteRam serves one write and one read at a time, each
   in a process that takes the address, waits, and exchanges data and response. *)
EXTENDS AxiBus

CONSTANTS
    AxilCommands,     \* what init_write and init_read are called with, a byte at least
    MaxAxilCommands,  \* bound on the commands of a behaviour
    Latency           \* latency of create_port

VARIABLES
    alm,    \* AXILiteMaster: queues and operations in flight
    alr,    \* AXILiteRam: its write process and its read process
    alw,    \* the channels AXILiteMaster drives
    almem,  \* AXILiteRam.mem: the content of the mapped file
    alpos,  \* and its position, which both processes seek
    allog,  \* what was written and read, see AxiBus
    astray  \* history: a read moved the position between a write's seek and its data

axilVars == <<alm, alr, alw, almem, alpos, allog, astray>>

LiteCycles(c) == (c.len + Bw - 1 + (c.addr % Bw)) \div Bw

\* start..stop - 1 of cycle k, on both paths.
LiteLanes(c, k) ==
    (IF k = 0 THEN c.addr % Bw ELSE 0)
    ..(IF k = LiteCycles(c) - 1 THEN (c.addr + c.len - 1) % Bw ELSE Bw - 1)
LiteOffset(c, k) == IF k = 0 THEN 0 ELSE WordAddr(c.addr) + k * Bw - c.addr
LiteStart(c, k) == IF k = 0 THEN c.addr % Bw ELSE 0

LiteAddrs(c) == [i \in 1..LiteCycles(c) |-> WordAddr(c.addr) + LiteStart(c, i - 1) + (i - 1) * Bw]
LiteBeats(c, n) ==
    [i \in 1..LiteCycles(c) |->
        [j \in LiteLanes(c, i - 1) |-> Byte(n, LiteOffset(c, i - 1) + j - LiteStart(c, i - 1))]]

LiteWhere(c) == [i \in 1..c.len |-> (c.addr + i - 1) % RamSize]

\* A process of AXILiteRam that waits for an address.
LiteIdle == [pc |-> "addr", addr |-> 0, wait |-> 0, valid |-> FALSE, data |-> <<>>]

AxilInit ==
    /\ alm = [waddr |-> <<>>, wdata |-> <<>>, wcmd |-> <<>>, wresp |-> 0, raddr |-> <<>>,
              rcmd |-> <<>>, rresp |-> <<>>, in_flight |-> 0]
    /\ alr = [write |-> LiteIdle, read |-> LiteIdle]
    /\ alw = [c \in {"aw", "w", "ar"} |-> Free]
    /\ almem = [a \in 0..RamSize - 1 |-> 0]
    /\ alpos = 0
    /\ allog = NoHistory
    /\ astray = FALSE

\* No process has raised an exception.
Running == alr.write.pc # "raised"

--------------------------------------------------------------------------------
(* init_write, with write_logic; write_resp_logic then waits for the response of
   every word. *)
AxilInitWrite(c) ==
    /\ Running
    /\ c.op = "write"
    /\ allog.issued < MaxAxilCommands
    /\ alm' = [alm EXCEPT !.waddr = @ \o LiteAddrs(c), !.wdata = @ \o LiteBeats(c, Len(allog.marks)),
                          !.wcmd = Append(@, LiteCycles(c)), !.in_flight = @ + 1]
    /\ allog' = LogWrite(allog, LiteWhere(c))
    /\ UNCHANGED <<alr, alw, almem, alpos, astray>>

(* init_read, with read_logic: the first address is queued whatever the number
   of cycles. *)
AxilInitRead(c) ==
    /\ Running
    /\ c.op = "read"
    /\ allog.issued < MaxAxilCommands
    /\ alm' = [alm EXCEPT !.raddr = @ \o <<c.addr>> \o SubSeq(LiteAddrs(c), 2, LiteCycles(c)), !.in_flight = @ + 1,
                          !.rcmd = Append(@, [c |-> c, k |-> 0, data |-> <<>>, where |-> LiteWhere(c),
                                              from |-> allog.done + 1])]
    /\ allog' = [allog EXCEPT !.issued = @ + 1]
    /\ UNCHANGED <<alr, alw, almem, alpos, astray>>

\* write_resp_logic: one response per word against the oldest write.
RECURSIVE lite_write_resp_logic(_, _)
lite_write_resp_logic(m, log) ==
    IF m.wcmd = <<>> \/ m.wresp = 0 THEN [m |-> m, log |-> log]
    ELSE IF Head(m.wcmd) = 1
    THEN lite_write_resp_logic([m EXCEPT !.wcmd = Tail(@), !.wresp = @ - 1, !.in_flight = @ - 1],
                               [log EXCEPT !.done = @ + 1])
    ELSE lite_write_resp_logic([m EXCEPT !.wcmd[1] = @ - 1, !.wresp = @ - 1], log)

\* read_resp_logic: the lanes of each word, against the oldest read.
RECURSIVE lite_read_resp_logic(_, _)
lite_read_resp_logic(m, log) ==
    IF m.rcmd = <<>> \/ m.rresp = <<>> THEN [m |-> m, log |-> log]
    ELSE LET r     == Head(m.rcmd)
             lanes == LiteLanes(r.c, r.k)
             start == CHOOSE j \in lanes : \A l \in lanes : j <= l
             stop  == CHOOSE j \in lanes : \A l \in lanes : j >= l
             data  == r.data \o [i \in 1..stop - start + 1 |-> Head(m.rresp)[start + i - 1]]
         IN  IF r.k = LiteCycles(r.c) - 1
             THEN lite_read_resp_logic([m EXCEPT !.rcmd = Tail(@), !.rresp = Tail(@), !.in_flight = @ - 1],
                                       LogRead(log, [r EXCEPT !.data = data]))
             ELSE lite_read_resp_logic([m EXCEPT !.rcmd[1] = [r EXCEPT !.k = @ + 1, !.data = data],
                                                 !.rresp = Tail(@)], log)

--------------------------------------------------------------------------------
(* The processes of AXILiteMaster that drive a channel, against the ready of
   AXILiteRam, whose two processes offer one channel at a time. *)
lite_write_addr_interface_logic(p) ==
    Drive(alw.aw, alm.waddr, alr.write.pc = "addr" /\ "aw" \notin p.receiver, "aw" \in p.driver)
lite_write_data_interface_logic(p) ==
    Drive(alw.w, alm.wdata, alr.write.pc = "data" /\ "w" \notin p.receiver, "w" \in p.driver)
lite_read_addr_interface_logic(p) ==
    Drive(alw.ar, alm.raddr, alr.read.pc = "addr" /\ "ar" \notin p.receiver, "ar" \in p.driver)
lite_write_resp_interface_logic(m, p) ==
    [m EXCEPT !.wresp = @ + (IF alr.write.valid /\ "b" \notin p.receiver THEN 1 ELSE 0)]
lite_read_resp_interface_logic(m, p) ==
    [m EXCEPT !.rresp = @ \o (IF alr.read.valid /\ "r" \notin p.receiver THEN <<alr.read.data>> ELSE <<>>)]

\* The response of a process of AXILiteRam, held until it is taken.
Respond(x, c, p) ==
    IF x.valid /\ c \notin p.receiver THEN LiteIdle
    ELSE [x EXCEPT !.valid = @ \/ c \notin p.driver]


(* The file of AXILiteRam: Seek moves its position, ReadFile leaves it behind the
   word, WriteFile writes the lanes of a word from wherever it is.  Past the end
   write and seek of mmap raise, which ends the simulation (Raised). *)
Seek(f, a) == [f EXCEPT !.pos = WordAddr(a) % RamSize]
ReadFile(f, a) == [f EXCEPT !.pos = Seek(f, a).pos + Bw]
WriteFile(f, val) == [mem |-> WriteWord(f.mem, f.pos, val), pos |-> f.pos + Bw]

(* What happens to the file at an edge: write_logic seeks when its delay is over
   and writes when the data is taken; read_logic seeks and reads in one go. *)
WriteSeeks(p) ==
    \/ alr.write.pc = "wait" /\ alr.write.wait = 1
    \/ alr.write.pc = "addr" /\ Taken(alw.aw, "aw" \notin p.receiver) # <<>> /\ Latency = 0
WriteStores(p) == alr.write.pc = "data" /\ Taken(alw.w, "w" \notin p.receiver) # <<>>
ReadServes(p) ==
    \/ alr.read.pc = "wait" /\ alr.read.wait = 1
    \/ alr.read.pc = "addr" /\ Taken(alw.ar, "ar" \notin p.receiver) # <<>> /\ Latency = 0

\* The address a process works on at an edge.
WorkAddr(x, ch) == IF x.pc = "addr" THEN ch.item[1] ELSE x.addr

Raised(f, p) == WriteStores(p) /\ f.pos >= RamSize

AfterWrite(f, p) ==
    IF WriteSeeks(p) THEN Seek(f, WorkAddr(alr.write, alw.aw))
    ELSE IF WriteStores(p) /\ ~Raised(f, p) THEN WriteFile(f, alw.w.item[1])
    ELSE f
AfterRead(f, p) == IF ReadServes(p) THEN ReadFile(f, WorkAddr(alr.read, alw.ar)) ELSE f

(* AXILiteRam.write_logic: address, delay, seek, data, response. *)
lite_ram_write_logic(p, f) ==
    LET x  == alr.write
        aw == Taken(alw.aw, "aw" \notin p.receiver)
    IN  CASE x.pc = "addr" /\ aw = <<>> -> x
          [] x.pc = "addr" /\ aw # <<>> ->
                 [x EXCEPT !.pc = IF Latency = 0 THEN "data" ELSE "wait", !.addr = aw[1], !.wait = Latency]
          [] x.pc = "wait" -> [x EXCEPT !.wait = @ - 1, !.pc = IF x.wait = 1 THEN "data" ELSE "wait"]
          [] x.pc = "data" /\ ~WriteStores(p) -> x
          [] x.pc = "data" /\ WriteStores(p) ->
                 IF Raised(f, p) THEN [x EXCEPT !.pc = "raised"]
                 ELSE [x EXCEPT !.pc = "resp", !.valid = "b" \notin p.driver]
          [] x.pc = "resp" -> Respond(x, "b", p)

(* AXILiteRam.read_logic: address, delay, the word read, response. *)
lite_ram_read_logic(p, f) ==
    LET x  == alr.read
        ar == Taken(alw.ar, "ar" \notin p.receiver)
        a  == WorkAddr(x, alw.ar)
    IN  CASE x.pc = "resp" -> Respond(x, "r", p)
          [] ReadServes(p) -> [pc |-> "resp", addr |-> a, wait |-> 0, data |-> WordOf(f.mem, a),
                               valid |-> "r" \notin p.driver]
          [] x.pc = "wait" /\ ~ReadServes(p) -> [x EXCEPT !.wait = @ - 1]
          [] x.pc = "addr" /\ ~ReadServes(p) ->
                 IF ar = <<>> THEN x ELSE [x EXCEPT !.pc = "wait", !.addr = a, !.wait = Latency]

(* One edge.  The response processes poll before or after this edge's response
   is queued (early); the two processes of AXILiteRam, which work on one file,
   run in either order (readFirst). *)
AxilClock(p, early, readFirst) ==
    LET aw   == lite_write_addr_interface_logic(p)
        w    == lite_write_data_interface_logic(p)
        ar   == lite_read_addr_interface_logic(p)
        m1   == [alm EXCEPT !.waddr = aw.queue, !.wdata = w.queue, !.raddr = ar.queue]
        In(m)       == lite_read_resp_interface_logic(lite_write_resp_interface_logic(m, p), p)
        Out(m, log) == LET x == lite_write_resp_logic(m, log) IN lite_read_resp_logic(x.m, x.log)
        done == IF early THEN LET x == Out(m1, allog) IN [x EXCEPT !.m = In(x.m)]
                ELSE Out(In(m1), allog)
        file == [mem |-> almem, pos |-> alpos]
        seen == [write |-> IF readFirst THEN AfterRead(file, p) ELSE file,
                 read  |-> IF readFirst THEN file ELSE AfterWrite(file, p)]
        last == IF readFirst THEN AfterWrite(seen.write, p) ELSE AfterRead(seen.read, p)
    IN  /\ Running
        /\ early => In(m1) # m1
        /\ readFirst => ReadServes(p) /\ (WriteSeeks(p) \/ WriteStores(p))
        /\ alw' = [aw |-> aw.ch, w |-> w.ch, ar |-> ar.ch]
        /\ alm' = done.m
        /\ allog' = done.log
        /\ alr' = [write |-> lite_ram_write_logic(p, seen.write), read |-> lite_ram_read_logic(p, seen.read)]
        /\ almem' = last.mem
        /\ alpos' = last.pos
        /\ astray' = \/ astray
                      \/ /\ ReadServes(p)
                         /\ IF readFirst THEN WriteStores(p)
                            ELSE WriteSeeks(p) \/ (alr.write.pc = "data" /\ ~WriteStores(p))

AxilNext ==
    \/ \E c \in AxilCommands : AxilInitWrite(c)
    \/ \E c \in AxilCommands : AxilInitRead(c)
    \/ \E p \in Pauses, early, readFirst \in BOOLEAN : AxilClock(p, early, readFirst)

AxilSpec == AxilInit /\ [][AxilNext]_axilVars

--------------------------------------------------------------------------------
(* What read_resp_logic hands over was in AXILiteRam at that address between
   init_read and the answer, whatever the alignment, the pauses and the writes
   in flight, as long as no write has gone astray. *)
AxilReadsAreFresh == ~astray => Fresh(allog)

(* When idle() holds every command is answered and no response is left over that
   the next command would take for its own; every write is in memory, unless a
   read was served between the seek and the data of one; and
   AXILiteRam only raises after that. *)
AxilIdleMeansDone ==
    /\ ~Running => astray
    /\ alm.in_flight = 0 =>
          /\ ~astray => AllLanded(allog, almem)
          /\ allog.done + Len(allog.reads) = allog.issued
          /\ alm.wresp = 0 /\ alm.rresp = <<>> /\ alm.waddr = <<>> /\ alm.raddr = <<>>
          /\ ~alr.write.valid /\ ~alr.read.valid

(* When idle() holds the memory is what was written ("assert
   axil_ram_inst.read_mem(addr, length) == test_data", test_axil.py:242, after
   axil_master_inst.wait()).  AXILiteRam breaks it: between the seek of a write
   and its data, read_logic moves the position of the same file. *)
AxilWritesLand == alm.in_flight = 0 => AllLanded(allog, almem)
================================================================================
