---------------------------------- MODULE Axi ----------------------------------
(* AXIMaster and AXIRam of lib/axi/tb/axi.py on one bus.  A command is split
   into bursts that keep to the burst length limit and to 4 KiB pages; addresses,
   data and responses travel on five independent channels, so data may arrive
   before its address and a read may pass a write. *)
EXTENDS AxiBus

CONSTANTS
    AxiCommands,     \* what init_write and init_read are called with
    MaxAxiCommands,  \* bound on the commands of a behaviour
    MaxBurstLen,     \* max_burst_len, below the 256 of the code
    AxiPage,         \* 4096 in the code
    AxiIds           \* 2**len(m_axi_awid)

VARIABLES
    axm,    \* AXIMaster: queues, identifiers, operations in flight
    axr,    \* AXIRam: queues and the burst being written
    axw,    \* the five channels
    axmem,  \* AXIRam.mem
    axlog   \* what was written and read, see AxiBus

axiVars == <<axm, axr, axw, axmem, axlog>>

Lesser(a, b) == IF a < b THEN a ELSE b

\* locals of write_logic and read_logic; c.nb is num_bytes, 2**size
Aligned(c) == c.addr - (c.addr % c.nb)
Cycles(c) == (c.len + c.nb - 1 + (c.addr % c.nb)) \div c.nb

BurstLimit == Lesser(IF MaxBurstLen < 1 THEN 1 ELSE MaxBurstLen, 256)
BurstLength(c, k, a) ==
    LET most == Lesser(Cycles(c) - k, BurstLimit)
    IN  (Lesser(most * c.nb, AxiPage - (a % AxiPage)) + c.nb - 1) \div c.nb

\* The bursts of a command, from cycle k at address a on.
RECURSIVE Bursts(_, _, _)
Bursts(c, k, a) ==
    IF k >= Cycles(c) THEN <<>>
    ELSE LET l == BurstLength(c, k, a)
         IN  <<[first |-> k, addr |-> a, length |-> l - 1, nb |-> c.nb, burst |-> c.burst]>>
             \o Bursts(c, k + l, a + l * c.nb)

WithIds(bs, id) == [i \in 1..Len(bs) |-> [b |-> bs[i], id |-> (id + i - 1) % AxiIds]]

\* start and stop of cycle k: the lanes that carry data.
CycleOffset(c, k) == (Aligned(c) - WordAddr(c.addr) + k * c.nb) % Bw
Lanes_NoEnd(c, k) ==
    (IF k = 0 THEN c.addr % Bw ELSE CycleOffset(c, k))..(CycleOffset(c, k) + c.nb - 1)
Lanes(c, k) ==
    LET start == IF k = 0 THEN c.addr % Bw ELSE CycleOffset(c, k)
        stop  == IF k = Cycles(c) - 1 THEN ((c.addr + c.len - 1) % Bw) + 1
                 ELSE CycleOffset(c, k) + c.nb
    IN  start..stop - 1

\* offset, the bytes the cycles before k carried.
DataOffset(c, k) == IF k = 0 THEN 0 ELSE Aligned(c) + k * c.nb - c.addr

WriteBeats(c, bs, n) ==
    [i \in 1..Cycles(c) |->
        LET lanes == Lanes(c, i - 1)
            start == CHOOSE j \in lanes : \A l \in lanes : j <= l
        IN  [val  |-> [j \in lanes |-> Byte(n, DataOffset(c, i - 1) + j - start)],
             last |-> \E b \in 1..Len(bs) : bs[b].first + bs[b].length = i - 1]]

--------------------------------------------------------------------------------
(* The addresses a command means, byte by byte: what the AXI burst types say,
   for the reader of a property; the processes below do not use it. *)
Where(c) ==
    LET transfer == c.nb * Cycles(c)
        lower    == c.addr - (c.addr % transfer)
    IN  [i \in 1..c.len |->
            (CASE c.burst = "INCR"  -> c.addr + i - 1
               [] c.burst = "FIXED" -> c.addr + ((i - 1) % Bw)
               [] c.burst = "WRAP"  -> lower + ((c.addr - lower + i - 1) % transfer)) % RamSize]

AxiInit ==
    /\ axm = [waddr |-> <<>>, wdata |-> <<>>, wcmd |-> <<>>, wresp |-> <<>>, raddr |-> <<>>,
              rcmd |-> <<>>, rlist |-> [id \in 0..AxiIds - 1 |-> <<>>],
              cur_write_id |-> 0, cur_read_id |-> 0, in_flight |-> 0]
    /\ axr = [waddr |-> <<>>, wdata |-> <<>>, cur |-> <<>>, wresp |-> <<>>, rresp |-> <<>>, ok |-> TRUE]
    /\ axw = [c \in {"aw", "w", "b", "ar", "r"} |-> Free]
    /\ axmem = [a \in 0..RamSize - 1 |-> 0]
    /\ axlog = NoHistory

--------------------------------------------------------------------------------
(* write_resp_logic: responses are counted off against the oldest write; a write
   is over, and reported, with the response of its last burst. *)
RECURSIVE write_resp_logic(_, _)
write_resp_logic(m, log) ==
    IF m.wcmd = <<>> THEN [m |-> m, log |-> log]
    ELSE IF Head(m.wcmd) = 0
    THEN write_resp_logic([m EXCEPT !.wcmd = Tail(@), !.in_flight = @ - 1],
                          [log EXCEPT !.done = @ + 1])
    ELSE IF m.wresp = <<>> THEN [m |-> m, log |-> log]
    ELSE write_resp_logic([m EXCEPT !.wcmd[1] = @ - 1, !.wresp = Tail(@)], log)

\* The bytes read_resp_logic takes from the beat of cycle k, before data[:length].
ReadLanes_NoOffset(c, k) == CycleOffset(c, k)..(CycleOffset(c, k) + c.nb - 1)
ReadLanes(c, k) ==
    (IF k = 0 THEN c.addr % Bw ELSE CycleOffset(c, k))..(CycleOffset(c, k) + c.nb - 1)
ReadBytes(c, k, beat) ==
    LET lanes == ReadLanes(c, k)
        start == CHOOSE j \in lanes : \A l \in lanes : j <= l
    IN  [i \in 1..c.nb - (start - CycleOffset(c, k)) |-> beat.val[start + i - 1]]

(* read_resp_logic: the beats of each burst come from the queue of its
   identifier, in the order of the bursts; it is an assertion that the last beat
   of a burst, and no other, is marked. *)
RECURSIVE read_resp_logic(_, _)
read_resp_logic(m, log) ==
    IF m.rcmd = <<>> THEN [m |-> m, log |-> log, ok |-> TRUE]
    ELSE LET r == Head(m.rcmd)
         IN  IF r.bursts = <<>>
             THEN read_resp_logic([m EXCEPT !.rcmd = Tail(@), !.in_flight = @ - 1],
                                  LogRead(log, [r EXCEPT !.data = SubSeq(@, 1, Lesser(r.c.len, Len(@)))]))
             ELSE LET b == Head(r.bursts)
                  IN  IF m.rlist[b.id] = <<>> THEN [m |-> m, log |-> log, ok |-> TRUE]
                      ELSE LET beat == Head(m.rlist[b.id])
                               over == r.n = b.b.length
                               next == [r EXCEPT !.data = @ \o ReadBytes(r.c, b.b.first + r.n, beat),
                                                 !.n = IF over THEN 0 ELSE @ + 1,
                                                 !.bursts = IF over THEN Tail(@) ELSE @]
                               rest == read_resp_logic([m EXCEPT !.rlist[b.id] = Tail(@), !.rcmd[1] = next], log)
                           IN  [rest EXCEPT !.ok = @ /\ beat.last = over]

--------------------------------------------------------------------------------
(* AXIRam.write_logic: cur is the burst being written, its beats still to come
   and the address of the next one.  It runs until it has to wait for an address
   or for data.  A burst of addresses that increase may not leave its page. *)
StartBurst(a) == [b |-> a.b, id |-> a.id, n |-> 0, addr |-> a.b.addr - (a.b.addr % a.b.nb)]
InPage(x) ==
    x.b.burst = "INCR" => AxiPage - (x.addr % AxiPage) >= x.b.nb * (x.b.length + 1)
NextAddr(x) ==
    LET transfer == x.b.nb * (x.b.length + 1)
        lower    == x.b.addr - (x.b.addr % transfer)
        up       == x.addr + x.b.nb
    IN  CASE x.b.burst = "FIXED" -> x.addr
          [] x.b.burst = "INCR"  -> up
          [] x.b.burst = "WRAP"  -> IF up = lower + transfer THEN lower ELSE up

RECURSIVE ram_write_logic(_, _)
ram_write_logic(r, mem) ==
    IF r.cur = <<>>
    THEN IF r.waddr = <<>> THEN [r |-> r, mem |-> mem]
         ELSE LET x == StartBurst(Head(r.waddr))
              IN  ram_write_logic([r EXCEPT !.waddr = Tail(@), !.cur = <<x>>, !.ok = @ /\ InPage(x)], mem)
    ELSE IF r.wdata = <<>> THEN [r |-> r, mem |-> mem]
    ELSE LET x    == r.cur[1]
             beat == Head(r.wdata)
             over == x.n = x.b.length
         IN  ram_write_logic(
                 [r EXCEPT !.wdata = Tail(@), !.ok = @ /\ beat.last = over,
                           !.cur   = IF over THEN <<>> ELSE <<[x EXCEPT !.n = @ + 1, !.addr = NextAddr(x)]>>,
                           !.wresp = IF over THEN Append(@, x.id) ELSE @],
                 WriteWord(mem, x.addr, beat.val))

\* AXIRam.read_logic: all the beats of a burst, read at once.
RECURSIVE RamBeats(_, _)
RamBeats(x, mem) ==
    <<[id |-> x.id, val |-> WordOf(mem, x.addr), last |-> x.n = x.b.length]>>
    \o (IF x.n = x.b.length THEN <<>>
        ELSE RamBeats([x EXCEPT !.n = @ + 1, !.addr = NextAddr(x)], mem))

--------------------------------------------------------------------------------
(* init_write, with write_logic, which it wakes and which runs to its end before
   the next edge: addresses and data are queued, and the number of responses to
   wait for. *)
AxiInitWrite(c) ==
    LET bs == Bursts(c, 0, Aligned(c))
        m  == [axm EXCEPT !.waddr = @ \o WithIds(bs, axm.cur_write_id),
                          !.cur_write_id = (@ + Len(bs)) % AxiIds,
                          !.wdata = @ \o WriteBeats(c, bs, Len(axlog.marks)),
                          !.wcmd = Append(@, Len(bs)), !.in_flight = @ + 1]
        log == LogWrite(axlog, Where(c))
        woken == IF axm.wcmd = <<>> THEN write_resp_logic(m, log) ELSE [m |-> m, log |-> log]
    IN  /\ c.op = "write"
        /\ axlog.issued < MaxAxiCommands
        /\ axm' = woken.m
        /\ axlog' = woken.log
        /\ UNCHANGED <<axr, axw, axmem>>

\* init_read, with read_logic.
AxiInitRead(c) ==
    LET bs == WithIds(Bursts(c, 0, Aligned(c)), axm.cur_read_id)
        m  == [axm EXCEPT !.raddr = @ \o bs, !.cur_read_id = (@ + Len(bs)) % AxiIds,
                          !.rcmd = Append(@, [c |-> c, bursts |-> bs, n |-> 0, data |-> <<>>,
                                              where |-> Where(c), from |-> axlog.done + 1]),
                          !.in_flight = @ + 1]
        woken == read_resp_logic(m, [axlog EXCEPT !.issued = @ + 1])
    IN  /\ c.op = "read"
        /\ axlog.issued < MaxAxiCommands
        /\ axm' = woken.m
        /\ axlog' = woken.log
        /\ UNCHANGED <<axr, axw, axmem>>

(* The interface processes: AXIMaster drives aw, w and ar and receives b and r,
   AXIRam the other way round.  Both ends are always ready but for a pause. *)
write_addr_interface_logic(dp, rp) == Drive(axw.aw, axm.waddr, "aw" \notin rp, "aw" \in dp)
write_data_interface_logic(dp, rp) == Drive(axw.w, axm.wdata, "w" \notin rp, "w" \in dp)
read_addr_interface_logic(dp, rp) == Drive(axw.ar, axm.raddr, "ar" \notin rp, "ar" \in dp)
ram_write_resp_interface_logic(dp, rp) == Drive(axw.b, axr.wresp, "b" \notin rp, "b" \in dp)
ram_read_resp_interface_logic(dp, rp) == Drive(axw.r, axr.rresp, "r" \notin rp, "r" \in dp)

write_resp_interface_logic(m, rp) == [m EXCEPT !.wresp = @ \o Taken(axw.b, "b" \notin rp)]
read_resp_interface_logic(m, rp) ==
    LET got == Taken(axw.r, "r" \notin rp)
    IN  IF got = <<>> THEN m ELSE [m EXCEPT !.rlist[got[1].id] = Append(@, got[1])]
ram_write_addr_interface_logic(r, rp) == [r EXCEPT !.waddr = @ \o Taken(axw.aw, "aw" \notin rp)]
ram_write_data_interface_logic(r, rp) == [r EXCEPT !.wdata = @ \o Taken(axw.w, "w" \notin rp)]
ram_read_addr_interface_logic(r, mem, rp) ==
    LET got == Taken(axw.ar, "ar" \notin rp)
    IN  IF got = <<>> THEN r
        ELSE [r EXCEPT !.rresp = @ \o RamBeats(StartBurst(got[1]), mem),
                       !.ok    = @ /\ InPage(StartBurst(got[1]))]

(* One edge for the interface processes, and after it the processes they wake.
   write_resp_logic polls at the edge, before or after the response of this edge
   is queued (early); AXIRam's two processes are woken together, in either order
   (readFirst); where nothing arrives the order makes no difference. *)
AxiClock(dp, rp, early, readFirst) ==
    LET aw  == write_addr_interface_logic(dp, rp)
        w   == write_data_interface_logic(dp, rp)
        ar  == read_addr_interface_logic(dp, rp)
        b   == ram_write_resp_interface_logic(dp, rp)
        r   == ram_read_resp_interface_logic(dp, rp)
        m1  == [axm EXCEPT !.waddr = aw.queue, !.wdata = w.queue, !.raddr = ar.queue]
        wr  == IF early
               THEN LET x == write_resp_logic(m1, axlog)
                    IN  [x EXCEPT !.m = write_resp_interface_logic(x.m, rp)]
               ELSE write_resp_logic(write_resp_interface_logic(m1, rp), axlog)
        rd  == read_resp_logic(read_resp_interface_logic(wr.m, rp), wr.log)
        r1  == ram_write_data_interface_logic(ram_write_addr_interface_logic(
                   [axr EXCEPT !.wresp = b.queue, !.rresp = r.queue], rp), rp)
        ram == ram_write_logic(r1, axmem)
        r2  == ram_read_addr_interface_logic(ram.r, IF readFirst THEN axmem ELSE ram.mem, rp)
    IN  /\ early => Taken(axw.b, "b" \notin rp) # <<>>
        /\ readFirst => Taken(axw.ar, "ar" \notin rp) # <<>>
        /\ axw' = [aw |-> aw.ch, w |-> w.ch, b |-> b.ch, ar |-> ar.ch, r |-> r.ch]
        /\ axm' = rd.m
        /\ axlog' = rd.log
        /\ axr' = [r2 EXCEPT !.ok = @ /\ rd.ok]
        /\ axmem' = ram.mem

AxiNext ==
    \/ \E c \in AxiCommands : AxiInitWrite(c)
    \/ \E c \in AxiCommands : AxiInitRead(c)
    \/ \E p \in Pauses, early, readFirst \in BOOLEAN : AxiClock(p.driver, p.receiver, early, readFirst)

AxiSpec == AxiInit /\ [][AxiNext]_axiVars

--------------------------------------------------------------------------------
(* No read returns a stale byte, a byte of a write that had not been issued, or
   the byte of another address: what read_resp_logic hands over was in AXIRam at
   that address between init_read and the answer, for every alignment, burst
   type, transfer size, split and pause. *)
AxiReadsAreFresh == Fresh(axlog)

(* When idle() holds, and wait() returns, every write is in memory with the
   later over the earlier, every command has been answered, and nothing is left
   in a queue or on a channel. *)
AxiIdleMeansDone ==
    axm.in_flight = 0 =>
        /\ AllLanded(axlog, axmem)
        /\ axlog.done + Len(axlog.reads) = axlog.issued
        /\ \A c \in DOMAIN axw : ~axw[c].valid
        /\ axm.wcmd = <<>> /\ axm.wresp = <<>> /\ axr.cur = <<>> /\ axr.wdata = <<>>
        /\ \A id \in DOMAIN axm.rlist : axm.rlist[id] = <<>>

(* The assertions of AXIRam and of read_resp_logic hold: no burst of increasing
   addresses crosses a page, and `last` marks the last beat of a burst and no
   other, also when data arrives before its address. *)
AxiAssertionsHold == axr.ok
================================================================================
