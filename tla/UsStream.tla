------------------------------ MODULE UsStream ------------------------------
(***************************************************************************)
(* The AXI stream sources and sinks of the UltraScale PCIe core model      *)
(* (lib/pcie/tb/pcie_us.py, CQSource ... RCSink): one source and one sink  *)
(* of the same stream on the same clock and reset.  A source turns frames  *)
(* into beats of "lanes" dwords with a tuser word; a sink turns beats back *)
(* into frames.  The eight classes share the handshake (SourceClock,       *)
(* SinkClock) and differ in the layout of tuser: CQSource(...) is the      *)
(* tuser word a source drives, CQSink(...) the frame after a beat.         *)
(*                                                                         *)
(* One step is one posedge of the clock.  Either side may be paused on any *)
(* clock, frames are sent at any time, and the reset may strike at any     *)
(* time; the streams of a device share nothing, so one of them is enough.  *)
(***************************************************************************)
EXTENDS UsTlp

CONSTANTS
    Ports,        \* the streams: [chan, lanes, tuser] with the tuser width in bits
    Traffic(_),   \* the TLPs sent over a port
    MaxFrames     \* bound on the frames sent

VARIABLES
    port,         \* the stream under study
    src,          \* the source: queue, frame being sent, dwords sent, active, first
    wire,         \* the registered outputs of the source
    snk,          \* the sink: tready_int, the frame being received, first
    sent,         \* the TLPs sent, without those a reset destroyed
    got,          \* the TLPs unpacked from received frames
    failed        \* an assertion of the sink failed

usVars == <<port, src, wire, snk, sent, got, failed>>

NoPort == [chan |-> "none", lanes |-> 0, tuser |-> 0]
Wide == port.lanes = 16

Pack(t) == CASE port.chan = "cq" -> pack_us_cq(t) [] port.chan = "cc" -> pack_us_cc(t)
             [] port.chan = "rq" -> pack_us_rq(t) [] port.chan = "rc" -> pack_us_rc(t)
Unpack(f) == CASE port.chan = "cq" -> unpack_us_cq(f) [] port.chan = "cc" -> unpack_us_cc(f)
               [] port.chan = "rq" -> unpack_us_rq(f) [] port.chan = "rc" -> unpack_us_rc(f)

----------------------------------------------------------------------------
(* tuser: b describes a beat [pos: dwords sent before it, n: its dwords,   *)
(* first, last].                                                           *)

PerLane(s, b, k) == UNION {Shift(s[b.pos + i + 1], k + 4 * i) : i \in 0..(b.n - 1)}
ParityLanes(f, b, k) ==
    PerLane(f.parity, b, k) \cup UNION {Shift(Nibble, k + 4 * i) : i \in b.n..(port.lanes - 1)}
If(c, S) == IF c THEN S ELSE {}

CQSource(f, b) ==
    IF Wide
    THEN If(b.first, f.first_be \cup Shift(f.last_be, 8) \cup {80})
         \cup Flag(f.discontinue, 96) \cup PerLane(f.byte_en, b, 16) \cup ParityLanes(f, b, 119)
         \cup If(b.last, {86} \cup Shift(Bits(b.n - 1, 4), 88))
    ELSE If(b.first, f.first_be \cup Shift(f.last_be, 4) \cup {40})
         \cup Flag(f.discontinue, 41) \cup PerLane(f.byte_en, b, 8) \cup ParityLanes(f, b, 53)

CCSource(f, b) ==
    IF Wide
    THEN Flag(b.first, 0) \cup Flag(f.discontinue, 16) \cup ParityLanes(f, b, 17)
         \cup If(b.last, {6} \cup Shift(Bits(b.n - 1, 4), 8))
    ELSE Flag(f.discontinue, 0) \cup ParityLanes(f, b, 1)

RQSource(f, b) ==
    IF Wide
    THEN If(b.first, f.first_be \cup Shift(f.last_be, 8) \cup {20})
         \cup Flag(f.discontinue, 36) \cup Shift(Mask(f.seq_num, 6), 61)
         \cup ParityLanes(f, b, 73) \cup If(b.last, {26} \cup Shift(Bits(b.n - 1, 4), 28))
    ELSE If(b.first, f.first_be \cup Shift(f.last_be, 4))
         \cup Flag(f.discontinue, 11) \cup Shift(Mask(f.seq_num, 4), 24)
         \cup If(port.tuser = 62, Shift(Field(f.seq_num, 4, 2), 60))
         \cup ParityLanes(f, b, 28)

RCSource(f, b) ==
    IF Wide
    THEN Flag(b.first, 64) \cup Flag(f.discontinue, 96) \cup PerLane(f.byte_en, b, 0)
         \cup ParityLanes(f, b, 97) \cup If(b.last, {76} \cup Shift(Bits(b.n - 1, 4), 80))
    ELSE Flag(b.first, 32) \cup Flag(f.discontinue, 42) \cup PerLane(f.byte_en, b, 0)
         \cup ParityLanes(f, b, 43) \cup If(b.last, {34} \cup Shift(Bits(b.n - 1, 3), 35))

\* The kept lanes in order (tkeep is contiguous), and the nibbles of tuser that belong to them.
Kept == [j \in 1..Cardinality(wire.tkeep) |-> Min(wire.tkeep) + j - 1]
Nibbles(k) == [j \in DOMAIN Kept |-> Field(wire.tuser, k + 4 * Kept[j], 4)]
Dwords(f) == f.data \o [j \in DOMAIN Kept |-> wire.tdata[Kept[j] + 1]]

CQSink(f, first) ==
    LET k == IF Wide THEN [last |-> 8, dis |-> 96, be |-> 16, par |-> 119]
                     ELSE [last |-> 4, dis |-> 41, be |-> 8, par |-> 53]
    IN  [f EXCEPT !.data = Dwords(f),
            !.first_be = IF first THEN Field(wire.tuser, 0, 4) ELSE @,
            !.last_be = IF first THEN Field(wire.tuser, k.last, 4) ELSE @,
            !.discontinue = @ \/ k.dis \in wire.tuser,
            !.byte_en = @ \o Nibbles(k.be), !.parity = @ \o Nibbles(k.par)]

CCSink(f, first) ==
    LET k == IF Wide THEN [dis |-> 16, par |-> 17] ELSE [dis |-> 0, par |-> 1]
    IN  [f EXCEPT !.data = Dwords(f), !.discontinue = @ \/ k.dis \in wire.tuser,
            !.parity = @ \o Nibbles(k.par)]

RQSink(f, first) ==
    LET k == IF Wide THEN [last |-> 8, dis |-> 36, par |-> 73]
                     ELSE [last |-> 4, dis |-> 11, par |-> 28]
    IN  [f EXCEPT !.data = Dwords(f),
            !.first_be = IF first THEN Field(wire.tuser, 0, 4) ELSE @,
            !.last_be = IF first THEN Field(wire.tuser, k.last, 4) ELSE @,
            !.discontinue = @ \/ k.dis \in wire.tuser,
            !.seq_num = IF Wide THEN Field(wire.tuser, 61, 6)
                        ELSE Field(wire.tuser, 24, 4)
                             \cup If(port.tuser = 62, Shift(Field(wire.tuser, 60, 2), 4)),
            !.parity = @ \o Nibbles(k.par)]

\* A plausible slip: the narrow parity read one bit low.
RCSink_Off(f, first) ==
    LET k == IF Wide THEN [dis |-> 96, par |-> 97] ELSE [dis |-> 42, par |-> 42]
    IN  [f EXCEPT !.data = Dwords(f), !.discontinue = @ \/ k.dis \in wire.tuser,
            !.byte_en = @ \o Nibbles(0), !.parity = @ \o Nibbles(k.par)]

RCSink(f, first) ==
    LET k == IF Wide THEN [dis |-> 96, par |-> 97] ELSE [dis |-> 42, par |-> 43]
    IN  [f EXCEPT !.data = Dwords(f), !.discontinue = @ \/ k.dis \in wire.tuser,
            !.byte_en = @ \o Nibbles(0), !.parity = @ \o Nibbles(k.par)]

TUser(f, b) == CASE port.chan = "cq" -> CQSource(f, b) [] port.chan = "cc" -> CCSource(f, b)
                 [] port.chan = "rq" -> RQSource(f, b) [] port.chan = "rc" -> RCSource(f, b)
Taken(f, first) ==
    CASE port.chan = "cq" -> CQSink(f, first) [] port.chan = "cc" -> CCSink(f, first)
      [] port.chan = "rq" -> RQSink(f, first) [] port.chan = "rc" -> RCSink(f, first)

----------------------------------------------------------------------------
IdleSource == [queue |-> <<>>, frame |-> USPcieFrame, pos |-> 0, active |-> FALSE, first |-> TRUE]
IdleWire == [tvalid |-> FALSE, tdata |-> <<>>, tkeep |-> {}, tuser |-> {}, tlast |-> FALSE]
IdleSink == [tready_int |-> FALSE, frame |-> USPcieFrame, first |-> TRUE]

UsInit ==
    /\ port = NoPort
    /\ src = IdleSource /\ wire = IdleWire /\ snk = IdleSink
    /\ sent = <<>> /\ got = <<>> /\ failed = FALSE

\* create_logic: the port's signals are given to a source and a sink.
UsConnect ==
    /\ port = NoPort
    /\ port' \in Ports
    /\ UNCHANGED <<src, wire, snk, sent, got, failed>>

\* send: the frame is queued.
UsSend ==
    /\ port # NoPort /\ Len(sent) < MaxFrames
    /\ \E t \in Traffic(port) :
         /\ src' = [src EXCEPT !.queue = Append(@, Pack(t))]
         /\ sent' = Append(sent, t)
    /\ UNCHANGED <<port, wire, snk, got, failed>>

\* The source on a clock: an accepted beat is done with; the next frame is fetched when
\* the current one has no dword left, even while its last beat still waits; a free
\* register is loaded with the next beat.
SourceClock(pause, tready) ==
    LET accepted == tready /\ wire.tvalid
        active   == src.active /\ ~accepted
        pop      == src.pos = Len(src.frame.data) /\ src.queue # <<>>
        s        == IF pop THEN [queue |-> Tail(src.queue), frame |-> Head(src.queue), pos |-> 0,
                                 active |-> active, first |-> TRUE]
                    ELSE [src EXCEPT !.active = active]
        left     == Len(s.frame.data) - s.pos
        n        == IF left < port.lanes THEN left ELSE port.lanes
        b        == [pos |-> s.pos, n |-> n, first |-> s.first, last |-> n = left]
    IN  IF left > 0 /\ ~active
        THEN /\ src' = [s EXCEPT !.pos = @ + n, !.active = TRUE, !.first = FALSE]
             /\ wire' = [tvalid |-> ~pause, tdata |-> SubSeq(s.frame.data, s.pos + 1, s.pos + n),
                         tkeep |-> 0..(n - 1), tuser |-> TUser(s.frame, b), tlast |-> n = left]
        ELSE /\ src' = s
             /\ wire' = [wire EXCEPT !.tvalid = src.active /\ (@ \/ ~pause) /\ ~accepted]

\* The assertions on tkeep: nonempty, contiguous, no gap to the beats around it.
TkeepOK ==
    /\ wire.tkeep # {}
    /\ \A i, j \in wire.tkeep : i..j \subseteq wire.tkeep
    /\ ~snk.first => 0 \in wire.tkeep
    /\ ~wire.tlast => (port.lanes - 1) \in wire.tkeep

\* The sink on a clock.  It takes the beat when tvalid and not paused, whatever tready_int.
SinkClock(pause) ==
    IF wire.tvalid /\ ~pause
    THEN LET f == Taken(snk.frame, snk.first)
         IN  /\ failed' = (failed \/ ~TkeepOK)
             /\ snk' = [tready_int |-> TRUE, frame |-> IF wire.tlast THEN USPcieFrame ELSE f,
                        first |-> wire.tlast]
             /\ got' = IF wire.tlast THEN Append(got, Unpack(f)) ELSE got
    ELSE /\ snk' = [snk EXCEPT !.tready_int = TRUE]
         /\ UNCHANGED <<got, failed>>

UsClock(sourcePause, sinkPause) ==
    /\ port # NoPort
    /\ SourceClock(sourcePause, snk.tready_int /\ ~sinkPause)
    /\ SinkClock(sinkPause)
    /\ UNCHANGED <<port, sent>>

\* The reset: both sides drop what they hold; the frames still queued stay.
UsReset ==
    /\ port # NoPort
    /\ src' = [IdleSource EXCEPT !.queue = src.queue]
    /\ wire' = IdleWire /\ snk' = IdleSink
    /\ sent' = SubSeq(sent, 1, Len(got))
               \o SubSeq(sent, Len(sent) - Len(src.queue) + 1, Len(sent))
    /\ UNCHANGED <<port, got, failed>>

UsNext ==
    \/ UsConnect
    \/ UsSend
    \/ \E p, q \in BOOLEAN : UsClock(p, q)
    \/ UsReset

UsSpec == UsInit /\ [][UsNext]_usVars

----------------------------------------------------------------------------
\* What a stream carries of a TLP: all of it, but a CQ descriptor has only the function
\* of the completer, and a narrow RQ stream with the short tuser 4 bits of the sequence number.
Carried(t) ==
    CASE port.chan = "cq" -> [t EXCEPT !.completer_id = Field(@, 0, 3)]
      [] port.chan = "rq" /\ port.tuser = 60 -> [t EXCEPT !.seq_num = Mask(@, 4)]
      [] OTHER -> t

\* TLPs cross a stream intact and in order: whatever the pauses and resets, the k-th TLP
\* unpacked by the receiver equals the k-th one sent (of those no reset destroyed), every
\* header field, byte enable, parity and payload dword included, and no assertion of a sink
\* or of an unpack method fails (pcie_us.py, pack_us_*/unpack_us_*, *Source.logic, *Sink.logic).
FramesArriveIntact ==
    /\ ~failed
    /\ Len(got) <= Len(sent)
    /\ \A k \in DOMAIN got : got[k] = Carried(sent[k])

\* Nothing stays behind: a source with an empty queue, no dword left and no beat waiting
\* has delivered everything that was sent (pcie_us.py, *Source.logic: a beat is given up
\* only when tready and tvalid, although the sink never looks at its own tready_int).
NothingIsLost ==
    (src.queue = <<>> /\ src.pos = Len(src.frame.data) /\ ~src.active) => Len(got) = Len(sent)

\* The byte enables packed for a requester completion mark exactly the bytes it carries:
\* from the lower address on, as many as the byte count says or as fit in its dwords
\* (pcie_us.py, pack_us_rc).
CompletionBytesEnabled ==
    port.chan = "rc" =>
      \A k \in DOMAIN sent :
        LET t     == sent[k]
            lo    == t.lower_address % 4
            count == IF t.byte_count < 4 * Len(t.data) - lo THEN t.byte_count
                     ELSE 4 * Len(t.data) - lo
            be    == pack_us_rc(t).byte_en
        IN  \A i \in 0..(4 * Len(t.data) - 1) :
              ((i % 4) \in be[4 + (i \div 4)]) <=> (i \in lo..(lo + count - 1))
=============================================================================
