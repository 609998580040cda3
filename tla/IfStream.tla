------------------------------ MODULE IfStream ------------------------------
(***************************************************************************)
(* The segmented TLP streams of the generic PCIe interface model           *)
(* (lib/pcie/tb/pcie_if.py, PcieIfSource and PcieIfSink): a beat has       *)
(* several segments, a frame may start in any of them, and one beat may    *)
(* carry the end of one frame and all of the next.                         *)
(*                                                                         *)
(* Each side is two coroutines.  The source's _run cuts frames into beats  *)
(* and hands them over one at a time through drive_obj to _run_source,     *)
(* which drives the bus on the clock; the sink's _run_sink samples the bus *)
(* into sample_obj for _run, which puts frames together.  The scheduler,   *)
(* which is not in this repository, runs every coroutine that can run      *)
(* before the next clock edge.                                             *)
(***************************************************************************)
EXTENDS Integers, Sequences, FiniteSets, SequencesExt

CONSTANTS
    SegCounts,    \* numbers of segments of a beat
    SegDwords,    \* dwords of a segment
    Lengths,      \* payload lengths of the frames, in dwords; 0: no payload
    Limit,        \* queue_occupancy_limit_frames of both sides (2 in the code; 0 means none)
    MaxFrames     \* bound on the frames sent

VARIABLES
    segs,         \* seg_count
    src,          \* queue, the frame being cut and its offset
    pending,      \* the beat that _run waits to hand over in _drive
    drive_obj,    \* the beat handed over
    bus,          \* the beat on the bus
    ready,        \* the sink's ready output
    snk,          \* the frame being put together, dwords missing, queue
    frames,       \* the frames sent, in order
    received,     \* the frames taken from the sink's queue
    failed        \* a framing assertion failed

ifVars == <<segs, src, pending, drive_obj, bus, ready, snk, frames, received, failed>>

None == <<>>
NoFrame == [id |-> 0, len |-> 0]

IfInit ==
    /\ segs = 0
    /\ src = [queue |-> <<>>, frame |-> NoFrame, offset |-> 0]
    /\ pending = None /\ drive_obj = None /\ bus = None /\ ready = FALSE
    /\ snk = [frame |-> NoFrame, dword_count |-> 0, data |-> <<>>, queue |-> <<>>]
    /\ frames = <<>> /\ received = <<>> /\ failed = FALSE

IfConnect ==
    /\ segs = 0
    /\ segs' \in SegCounts
    /\ UNCHANGED <<src, pending, drive_obj, bus, ready, snk, frames, received, failed>>

\* full: the occupancy exceeds the limit.
SourceFull == Len(src.queue) > Limit
SinkFull == Len(snk.queue) > Limit

\* send: wait until the queue is not full, then queue a copy of the frame.
IfSend ==
    /\ segs > 0 /\ Len(frames) < MaxFrames
    /\ ~SourceFull
    /\ \E n \in Lengths :
         LET f == [id |-> Len(frames) + 1, len |-> n]
         IN  /\ src' = [src EXCEPT !.queue = Append(@, f)]
             /\ frames' = Append(frames, f)
    /\ UNCHANGED <<segs, pending, drive_obj, bus, ready, snk, received, failed>>

----------------------------------------------------------------------------
Empty == [valid |-> FALSE, sop |-> FALSE, eop |-> FALSE, hdr |-> NoFrame, data |-> <<>>]

\* One segment of a beat: the rest of the frame in hand, or the next frame of the queue.
CutSegment(st, seg) ==
    IF st.frame = NoFrame /\ st.queue = <<>>
    THEN [st EXCEPT !.beat = Append(@, Empty)]
    ELSE LET fetch == st.frame = NoFrame
             f     == IF fetch THEN Head(st.queue) ELSE st.frame
             off   == IF fetch THEN 0 ELSE st.offset
             n     == IF f.len - off < SegDwords THEN f.len - off ELSE SegDwords
             last  == off + n >= f.len
         IN  [queue |-> IF fetch THEN Tail(st.queue) ELSE st.queue,
              frame |-> IF last THEN NoFrame ELSE f,
              offset |-> off + n,
              beat |-> Append(st.beat,
                [valid |-> TRUE, sop |-> fetch, eop |-> last,
                 hdr |-> IF fetch THEN f ELSE NoFrame,
                 data |-> [k \in 1..n |-> <<f.id, off + k>>]])]

CanCut == pending = None /\ (src.frame # NoFrame \/ src.queue # <<>>)

\* _run: cut one beat, then wait in _drive until it is handed over.
SourceRun ==
    /\ segs > 0 /\ CanCut
    /\ LET st == FoldLeft(CutSegment,
                    [queue |-> src.queue, frame |-> src.frame, offset |-> src.offset,
                     beat |-> <<>>],
                    [k \in 1..segs |-> k])
       IN  /\ src' = [queue |-> st.queue, frame |-> st.frame, offset |-> st.offset]
           /\ pending' = st.beat
    /\ UNCHANGED <<segs, drive_obj, bus, ready, snk, frames, received, failed>>

CanDrive == pending # None /\ drive_obj = None

_drive ==
    /\ CanDrive
    /\ drive_obj' = pending /\ pending' = None
    /\ UNCHANGED <<segs, src, bus, ready, snk, frames, received, failed>>

----------------------------------------------------------------------------
\* A plausible slip: the bus is driven again whether or not the beat was taken.
RunSource_Overwrite(pause) ==
    IF drive_obj # None /\ ~pause
    THEN bus' = drive_obj /\ drive_obj' = None
    ELSE bus' = None /\ UNCHANGED drive_obj

\* _run_source on a clock: when the beat on the bus is taken, or there is none, drive the
\* next one, or nothing.
RunSource(pause) ==
    IF ready \/ bus = None
    THEN IF drive_obj # None /\ ~pause
         THEN bus' = drive_obj /\ drive_obj' = None
         ELSE bus' = None /\ UNCHANGED drive_obj
    ELSE UNCHANGED <<bus, drive_obj>>

\* _run of the sink: one segment of a sampled beat.  The payload length comes from the
\* header, the assertions from the framing.
TakeSegment(st, s) ==
    IF ~s.valid THEN st
    ELSE LET frame == IF s.sop THEN s.hdr ELSE st.frame
             count == IF s.sop THEN s.hdr.len ELSE st.dword_count
             n     == IF count < SegDwords THEN count ELSE SegDwords
             data  == (IF s.sop THEN <<>> ELSE st.data)
                      \o [k \in 1..n |-> IF k \in DOMAIN s.data THEN s.data[k] ELSE <<0, 0>>]
             bad   == \/ s.sop /\ st.frame # NoFrame
                      \/ frame = NoFrame
                      \/ s.eop /\ count # n
         IN  [frame |-> IF s.eop THEN NoFrame ELSE frame, dword_count |-> count - n,
              data |-> IF s.eop THEN <<>> ELSE data,
              queue |-> IF s.eop THEN Append(st.queue, [frame |-> frame, data |-> data])
                        ELSE st.queue,
              failed |-> st.failed \/ bad]

\* _run_sink on a clock, and the _run it wakes: ready is decided before the sampled beat
\* is put together.
RunSink(pause) ==
    /\ ready' = (~SinkFull /\ ~pause)
    /\ IF ready /\ bus # None
       THEN LET st == FoldLeft(TakeSegment,
                        [frame |-> snk.frame, dword_count |-> snk.dword_count,
                         data |-> snk.data, queue |-> snk.queue, failed |-> failed],
                        bus)
            IN  /\ snk' = [frame |-> st.frame, dword_count |-> st.dword_count,
                           data |-> st.data, queue |-> st.queue]
                /\ failed' = st.failed
       ELSE UNCHANGED <<snk, failed>>

IfClock(sourcePause, sinkPause) ==
    /\ segs > 0 /\ ~CanCut /\ ~CanDrive
    /\ RunSource(sourcePause)
    /\ RunSink(sinkPause)
    /\ UNCHANGED <<segs, src, pending, frames, received>>

\* A clock with the reset asserted.  Neither _run knows of the reset: a beat on the bus would
\* be lost and its frame cut short, so the reset is asserted with the bus idle, as the test
\* benches do.
IfReset ==
    /\ segs > 0 /\ bus = None
    /\ ready' = FALSE
    /\ UNCHANGED <<segs, src, pending, drive_obj, bus, snk, frames, received, failed>>

\* recv: the oldest frame of the sink's queue.
IfRecv ==
    /\ snk.queue # <<>>
    /\ received' = Append(received, Head(snk.queue))
    /\ snk' = [snk EXCEPT !.queue = Tail(@)]
    /\ UNCHANGED <<segs, src, pending, drive_obj, bus, ready, frames, failed>>

IfNext ==
    \/ IfConnect
    \/ IfSend
    \/ SourceRun
    \/ _drive
    \/ \E p, q \in BOOLEAN : IfClock(p, q)
    \/ IfReset
    \/ IfRecv

\* The coroutines run, the consumer keeps receiving, and neither side is paused for ever:
\* two clocks in a row without a pause come again and again.
IfFairness ==
    /\ WF_ifVars(SourceRun) /\ WF_ifVars(_drive) /\ WF_ifVars(IfRecv)
    /\ SF_ifVars(ready /\ IfClock(FALSE, FALSE)) /\ WF_ifVars(~ready /\ IfClock(FALSE, FALSE))

IfSpec == IfInit /\ [][IfNext]_ifVars
IfFairSpec == IfSpec /\ IfFairness

----------------------------------------------------------------------------
Delivered == received \o snk.queue

\* Frames arrive whole and in order, however they straddle segments and beats, and no framing
\* assertion fails ("framing error: ..."; pcie_if.py, PcieIfSource._run, PcieIfSink._run).
IfFramesIntact ==
    /\ ~failed
    /\ Len(Delivered) <= Len(frames)
    /\ \A k \in DOMAIN Delivered :
         /\ Delivered[k].frame = frames[k]
         /\ Delivered[k].data = [j \in 1..frames[k].len |-> <<k, j>>]

\* The sink's queue overshoots its limit by at most the frames of two beats: one that was
\* sampled when ready was last decided, and one that ready then still let through
\* (pcie_if.py, PcieIfSink.full, _run_sink).
SinkOccupancy == Len(snk.queue) <= Limit + 2 * segs

\* Every frame sent is received: again and again the receiver has all of them
\* (pcie_if.py, PcieIfSource.send to PcieIfSink.recv).
IfDelivery == []<>(Len(received) = Len(frames))
=============================================================================
