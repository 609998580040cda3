-------------------------------- MODULE AxisEp ---------------------------------
(* AXIStreamSource and AXIStreamSink of lib/axi/tb/axis_ep.py on one stream, with
   the frames they carry.  One step is one edge of clk, or the edge of a reset
   that both ends share. *)
EXTENDS Integers, Sequences

CONSTANTS
    LanesM,        \* M: bytes in a beat
    AxisFrames,    \* the frames a test sends
    MaxAxisFrames  \* bound on the frames of a behaviour

VARIABLES
    axs,     \* AXIStreamSource: queue, active and the beats still to drive
    axbus,   \* tvalid and the beat on tdata, tkeep, tid, tdest, tuser, tlast
    axk,     \* AXIStreamSink: tready_int, the beats of the frame begun, queue
    axislog   \* the frames handed to send, those lost to a reset, and the assertions

axisVars == <<axs, axbus, axk, axislog>>

Unset == -1   \* None in a frame's id, dest, user or last_cycle_user

(* A side channel of a frame is unset, one number for every beat, or a list with
   a number for each beat: here <<>>, <<n>> with all = TRUE, or a sequence. *)
SideAt(s, i) == IF s.all THEN s.of[1] ELSE IF s.of = <<>> THEN 0 ELSE s.of[i]

(* AXIStreamFrame.build: LanesM bytes to a beat, the last one possibly partial;
   last_cycle_user, unless it is None or zero, replaces the last tuser. *)
Beats(n) == (n + LanesM - 1) \div LanesM
LastUser(f, i, n) == IF i = n /\ f.last_cycle_user > 0 THEN f.last_cycle_user ELSE SideAt(f.user, i)
build(f) ==
    LET n == Beats(Len(f.data))
        Upper(i) == IF i * LanesM < Len(f.data) THEN i * LanesM ELSE Len(f.data)
    IN  [i \in 1..n |->
            [bytes |-> SubSeq(f.data, (i - 1) * LanesM + 1, Upper(i)),
             tid   |-> SideAt(f.id, i),
             tdest |-> SideAt(f.dest, i),
             tuser |-> LastUser(f, i, n),
             tlast |-> i = n]]

\* AXIStreamFrame.parse: the kept bytes of the beats, and the side channels as lists.
RECURSIVE BytesOf(_)
BytesOf(bs) == IF bs = <<>> THEN <<>> ELSE Head(bs).bytes \o BytesOf(Tail(bs))
List(of) == [all |-> FALSE, of |-> of]
parse(bs) ==
    [data |-> BytesOf(bs),
     id   |-> List([i \in 1..Len(bs) |-> bs[i].tid]),
     dest |-> List([i \in 1..Len(bs) |-> bs[i].tdest]),
     user |-> List([i \in 1..Len(bs) |-> bs[i].tuser]),
     last_cycle_user |-> bs[Len(bs)].tuser]

(* AXIStreamFrame.__eq__, the comparison every test makes of a frame received
   with the frame sent: what one of the two leaves unset is not compared, a number
   equals a list of that number, and the last tuser is compared on its own where
   both frames name it. *)
SideEq(a, b, n) ==
    (a.of # <<>> /\ b.of # <<>>) =>
        IF a.all \/ b.all THEN \A i \in 1..n : SideAt(a, i) = SideAt(b, i)
        ELSE a.of = b.of
__eq__(a, b) ==
    LET n == Beats(Len(a.data))
    IN  /\ a.data = b.data
        /\ SideEq(a.id, b.id, n)
        /\ SideEq(a.dest, b.dest, n)
        /\ IF a.last_cycle_user # Unset /\ b.last_cycle_user # Unset
           THEN a.last_cycle_user = b.last_cycle_user /\ SideEq(a.user, b.user, n - 1)
           ELSE SideEq(a.user, b.user, n)

--------------------------------------------------------------------------------
NoBeat == [bytes |-> <<>>, tid |-> 0, tdest |-> 0, tuser |-> 0, tlast |-> FALSE]

AxisInit ==
    /\ axs = [queue |-> <<>>, active |-> FALSE, beats |-> <<>>]
    /\ axbus = [tvalid |-> FALSE, beat |-> NoBeat]
    /\ axk = [tready |-> FALSE, beats |-> <<>>, queue |-> <<>>]
    /\ axislog = [sent |-> <<>>, lost |-> {}, ok |-> TRUE]

AxisSend(f) ==
    /\ Len(axislog.sent) < MaxAxisFrames
    /\ axs' = [axs EXCEPT !.queue = Append(@, f)]
    /\ axislog' = [axislog EXCEPT !.sent = Append(@, f)]
    /\ UNCHANGED <<axbus, axk>>

\* A pause delays tvalid; once set it stays until the beat is taken.
Offered_Withdrawn(active, pause) == active /\ ~pause
Offered(active, pause) == active /\ (axbus.tvalid \/ ~pause)

(* AXIStreamSource.logic at an edge of clk: a beat taken is followed by the next
   of its frame; without one the source turns to the next frame of its queue. *)
SourceStep(tready, pause) ==
    LET moved  == tready /\ axbus.tvalid
        active == axs.active /\ ~(moved /\ axs.beats = <<>>)
    IN  IF ~active /\ axs.queue # <<>>
        THEN LET b == build(Head(axs.queue))
             IN  [src |-> [queue |-> Tail(axs.queue), active |-> TRUE, beats |-> Tail(b)],
                  bus |-> [tvalid |-> ~pause, beat |-> Head(b)]]
        ELSE IF moved /\ axs.beats # <<>>
        THEN [src |-> [axs EXCEPT !.beats = Tail(@)], bus |-> [tvalid |-> ~pause, beat |-> Head(axs.beats)]]
        ELSE [src |-> [axs EXCEPT !.active = active],
              bus |-> [axbus EXCEPT !.tvalid = Offered(active, pause),
                                    !.beat.tlast = @ /\ ~moved]]

(* AXIStreamSink.logic at an edge of clk: it takes the beat whenever tvalid_int
   is set, without a look at its own tready; tkeep is asserted to be full on
   every beat but the last of a frame and never empty. *)
SinkStep(pause) ==
    LET take  == axbus.tvalid /\ ~pause
        beats == Append(axk.beats, axbus.beat)
    IN  IF ~take THEN [axk EXCEPT !.tready = TRUE]
        ELSE IF axbus.beat.tlast
        THEN [tready |-> TRUE, beats |-> <<>>, queue |-> Append(axk.queue, parse(beats))]
        ELSE [axk EXCEPT !.tready = TRUE, !.beats = beats]

TkeepAsserted ==
    /\ axbus.beat.bytes # <<>>
    /\ ~axbus.beat.tlast => Len(axbus.beat.bytes) = LanesM

AxisClock(sourcePause, sinkPause) ==
    LET s == SourceStep(axk.tready /\ ~sinkPause, sourcePause)
    IN  /\ axs' = s.src
        /\ axbus' = s.bus
        /\ axk' = SinkStep(sinkPause)
        /\ axislog' = [axislog EXCEPT !.ok = @ /\ ((axbus.tvalid /\ ~sinkPause) => TkeepAsserted)]

(* rst.posedge: the frame the source was sending is gone, and so are the beats of
   it the sink had; both queues stay. *)
AxisReset ==
    LET begun == Len(axislog.sent) - Len(axs.queue)
    IN  /\ axs' = [axs EXCEPT !.active = FALSE, !.beats = <<>>]
        /\ axbus' = [tvalid |-> FALSE, beat |-> NoBeat]
        /\ axk' = [axk EXCEPT !.tready = FALSE, !.beats = <<>>]
        /\ axislog' = [axislog EXCEPT !.lost = IF axs.active THEN @ \cup {begun} ELSE @]

AxisNext ==
    \/ \E f \in AxisFrames : AxisSend(f)
    \/ \E sourcePause, sinkPause \in BOOLEAN : AxisClock(sourcePause, sinkPause)
    \/ AxisReset

AxisSpec == AxisInit /\ [][AxisNext]_axisVars

--------------------------------------------------------------------------------
\* The frames that a reset did not cut short, as far as the sink has them.
KeptFrames == SelectSeq([i \in 1..Len(axislog.sent) |-> i], LAMBDA i : i \notin axislog.lost)

(* Every frame a reset did not cut short reaches the sink once and in order, and
   is equal, as the tests compare frames, to the frame sent; when the source is
   idle() all of them are there. *)
AxisFramesIntact ==
    /\ axislog.ok
    /\ Len(axk.queue) <= Len(KeptFrames)
    /\ \A i \in 1..Len(axk.queue) : __eq__(axk.queue[i], axislog.sent[KeptFrames[i]])
    /\ (~axs.active /\ axs.queue = <<>>) => Len(axk.queue) = Len(KeptFrames)

(* The source keeps AXI-Stream's rule: a beat offered stays on the bus unchanged
   until it is taken, whatever pause does, unless a reset withdraws it. *)
BeatIsHeld ==
    [][(axbus.tvalid /\ axk'.tready /\ axk'.beats = axk.beats /\ axk'.queue = axk.queue)
          => axbus'.tvalid /\ axbus'.beat = axbus.beat]_axisVars
================================================================================
