------------------------------- MODULE EthEp --------------------------------
(***************************************************************************)
(* The Ethernet endpoints of lib/eth/tb: source and sink of XGMII with 32  *)
(* or 64 bits (xgmii_ep.py), of 10GBASE-R behind its block code            *)
(* (baser_serdes_ep.py, without scrambler and bit reversal, which its      *)
(* parameters switch off), and of GMII, MII and RGMII (gmii_ep.py,         *)
(* mii_ep.py, rgmii_ep.py).  Both ends of a link run on one clock; a step  *)
(* is an edge at which they are enabled, the sink reading what the source  *)
(* wrote at the edge before.  The queue of a source is what its user sends *)
(* by the time the source looks: any frame, or none.                       *)
(***************************************************************************)
EXTENDS Integers, SequencesExt

CONSTANTS
  Links,       \* the kinds of link: [kind, bw, dic, mii]
  XgFrames,    \* the frames sent over XGMII and 10GBASE-R: [data, error]
  MiiFrames,   \* the frames sent over the other links
  ifg          \* the idle bytes a source keeps between two frames

VARIABLES
  link,        \* kind of the link, its bytes per word, enable_dic and mii_select
  src,         \* the source: what is left of its frame, ifg_cnt, deficit_idle_cnt
  line,        \* the signals between the ends: a word, a block or [d, en, er]
  ddr,         \* RGMII: the registers between the two GMII interfaces
  snk,         \* the sink: whether a frame is open, and what it has of it
  due,         \* the frames started and not yet received
  got,         \* what the last edge received, and the frame it should be
  owed         \* the idle bytes that are missing since the ends of frames

ethVars == <<link, src, line, ddr, snk, due, got, owed>>

ETH_PRE == 85
Rep(x, n) == [i \in 1..n |-> x]

\* Control characters of XGMII; data bytes are not negative.
XGMII_IDLE   == -1
XGMII_START  == -2
XGMII_TERM   == -3
XGMII_ERROR  == -4
XGMII_SEQ_OS == -5
XGMII_SIG_OS == -6

NoGot   == <<>>
Closed  == [open |-> FALSE, d |-> <<>>]
Drained == [dl |-> <<>>, ifg_cnt |-> 0, deficit_idle_cnt |-> 0]
IdleMii == [d |-> 0, en |-> 0, er |-> 0]
Idle(l) == CASE l.kind = "xgmii" -> Rep(XGMII_IDLE, l.bw)
             [] l.kind = "baser" -> [bt |-> "CTRL", f |-> Rep(XGMII_IDLE, 8)]
             [] OTHER            -> IdleMii
Unconnected == [kind |-> "none", bw |-> 0, dic |-> FALSE, mii |-> FALSE]

-----------------------------------------------------------------------------
(***************************************************************************)
(* The block code of 10GBASE-R.  A block has a type, which says what each  *)
(* of its eight lanes is: data "d", a control code "c", an ordered set     *)
(* "o", or the start "S" or the end "T" that the type stands for.          *)
(***************************************************************************)
TermTypes == <<"TERM_0", "TERM_1", "TERM_2", "TERM_3", "TERM_4", "TERM_5", "TERM_6", "TERM_7">>

Layout(bt) ==
  CASE bt = "DATA"     -> Rep("d", 8)
    [] bt = "CTRL"     -> Rep("c", 8)
    [] bt = "START_0"  -> <<"S">> \o Rep("d", 7)
    [] bt = "START_4"  -> Rep("c", 4) \o <<"S">> \o Rep("d", 3)
    [] bt = "OS_START" -> <<"o">> \o Rep("d", 3) \o <<"S">> \o Rep("d", 3)
    [] bt = "OS_0"     -> <<"o">> \o Rep("d", 3) \o Rep("c", 4)
    [] bt = "OS_4"     -> Rep("c", 4) \o <<"o">> \o Rep("d", 3)
    [] bt = "OS_04"    -> <<"o">> \o Rep("d", 3) \o <<"o">> \o Rep("d", 3)
    [] OTHER           -> LET k == CHOOSE k \in 1..8 : TermTypes[k] = bt
                          IN  Rep("d", k - 1) \o <<"T">> \o Rep("c", 8 - k)

block_type_term_lane(bt) == {k - 1 : k \in {j \in 1..8 : TermTypes[j] = bt}}

Control(w, a, b) == \E i \in a..b : w[i] < 0
OrderedAt(w, i)  == w[i] \in {XGMII_SEQ_OS, XGMII_SIG_OS} /\ ~Control(w, i + 1, i + 3)
TermAt(w)        == {i \in 1..8 : w[i] = XGMII_TERM /\ ~Control(w, 1, i - 1)}

BlockType(w) ==
  IF ~Control(w, 1, 8) THEN "DATA"
  ELSE IF w[1] = XGMII_START /\ ~Control(w, 2, 8) THEN "START_0"
  ELSE IF w[5] = XGMII_START /\ ~Control(w, 6, 8)
    THEN IF OrderedAt(w, 1) THEN "OS_START" ELSE "START_4"
  ELSE IF OrderedAt(w, 1) THEN IF OrderedAt(w, 5) THEN "OS_04" ELSE "OS_0"
  ELSE IF OrderedAt(w, 5) THEN "OS_4"
  ELSE IF TermAt(w) # {} THEN TermTypes[CHOOSE i \in TermAt(w) : TRUE]
  ELSE "CTRL"

\* A control lane has codes for idle and error; all else becomes an error.
Code(ch) == IF ch = XGMII_IDLE THEN XGMII_IDLE ELSE XGMII_ERROR

\* A block of type OS_0 gets the codes of lanes 0 to 3 in place of those of
\* lanes 4 to 7.  They are four errors, four bits beyond the place where the
\* decoder looks for codes, and every field it finds there is an error again.
Encode(w) ==
  LET bt == BlockType(w)
      at == Layout(bt)
  IN  [bt |-> bt,
       f  |-> [i \in 1..8 |-> CASE at[i] = "c" -> IF bt = "OS_0" THEN XGMII_ERROR ELSE Code(w[i])
                                [] at[i] \in {"d", "o"} -> w[i]
                                [] OTHER -> 0]]

\* An ordered set before control codes is read as a sequence, whichever it was.
Decode(b) ==
  LET at == Layout(b.bt)
  IN  [i \in 1..8 |-> CASE at[i] = "S" -> XGMII_START
                        [] at[i] = "T" -> XGMII_TERM
                        [] at[i] = "o" /\ b.bt = "OS_0" -> XGMII_SEQ_OS
                        [] OTHER -> b.f[i]]

-----------------------------------------------------------------------------
(***************************************************************************)
(* XGMII and 10GBASE-R: the source.                                        *)
(***************************************************************************)
\* XGMIIFrame.build: an error replaces the last byte.
BuildChars(f) ==
  [i \in DOMAIN f.data |-> IF f.error /\ i = Len(f.data) THEN XGMII_ERROR ELSE f.data[i]]

FrameChars(f, offset) ==
  (IF offset THEN Rep(XGMII_IDLE, 4) ELSE <<>>)
  \o <<XGMII_START>> \o Tail(BuildChars(f)) \o <<XGMII_TERM>>

\* The blocks of a frame, filled up with idles.
FrameBlocks(chars) ==
  LET n == (Len(chars) + 7) \div 8
      all == chars \o Rep(XGMII_IDLE, 8 * n - Len(chars))
  IN  [k \in 1..n |-> Encode(SubSeq(all, 8 * k - 7, 8 * k))]

\* The idles after a frame whose end was in the given lane, with those the
\* frames before it were short of.
GapAfter_Forgetful(lane, deficit) == ifg - (link.bw - lane)
GapAfter(lane, deficit) == ifg - (link.bw - lane) + deficit

\* One word of what is left of the frame.
XgPut(dl, deficit) ==
  LET bw == link.bw
  IN  /\ line' = [i \in 1..bw |-> IF i <= Len(dl) THEN dl[i] ELSE XGMII_IDLE]
      /\ src' = [dl |-> SubSeq(dl, bw + 1, Len(dl)), deficit_idle_cnt |-> deficit,
                 ifg_cnt |-> IF Len(dl) <= bw THEN GapAfter(Len(dl) - 1, deficit) ELSE 0]

\* One block of what is left of the frame.
BlockPut(ccl, deficit) ==
  LET lane == block_type_term_lane(Head(ccl).bt)
  IN  /\ line' = Head(ccl)
      /\ src' = [dl |-> Tail(ccl), deficit_idle_cnt |-> deficit,
                 ifg_cnt |-> IF Len(ccl) > 1 THEN 0
                             ELSE IF lane # {} THEN GapAfter(Max(lane), deficit)
                             ELSE ifg + deficit]

Put(dl, deficit) == IF link.kind = "baser" THEN BlockPut(dl, deficit) ELSE XgPut(dl, deficit)

XgWaits == src.ifg_cnt > link.bw - 1 \/ (~link.dic /\ src.ifg_cnt > 0)

XgGap ==
  /\ XgWaits
  /\ line' = Idle(link)
  /\ src' = [src EXCEPT !.ifg_cnt = Max({@ - link.bw, 0})]

XgGoOn == ~XgWaits /\ src.dl # <<>> /\ Put(src.dl, src.deficit_idle_cnt)

\* A frame starts in lane 4 when four idles are missing, or when the user
\* forces it to; what is still missing is added to the next gap.
XgStart(f, force_offset_start) ==
  LET offset == (link.bw = 8 /\ src.ifg_cnt >= 4) \/ force_offset_start
      missing == IF offset THEN Max({src.ifg_cnt - 4, 0}) ELSE src.ifg_cnt
      chars == FrameChars(f, offset)
  IN  /\ ~XgWaits /\ src.dl = <<>>
      /\ Put(IF link.kind = "baser" THEN FrameBlocks(chars) ELSE chars, missing)

XgIdle == ~XgWaits /\ src.dl = <<>> /\ line' = Idle(link) /\ src' = Drained

-----------------------------------------------------------------------------
(***************************************************************************)
(* XGMII and 10GBASE-R: the sink.                                          *)
(***************************************************************************)
Word == IF link.kind = "baser" THEN Decode(line) ELSE line

\* What a sink makes of an edge: its next state, and what it received.
Goes(s) == [snk |-> s, frame |-> <<>>]
Ends(d) == [snk |-> Closed, frame |-> d]

\* The first word is taken whole; later the first control character ends the
\* frame, and is kept unless it is the end.
XgSink(w) ==
  LET bw == link.bw
      ctl == {i \in 1..bw : w[i] < 0}
      end == Min(ctl)
      from(i) == [open |-> TRUE, d |-> <<ETH_PRE>> \o SubSeq(w, i + 1, bw)]
  IN  IF ~snk.open
      THEN IF w[1] = XGMII_START THEN Goes(from(1))
           ELSE IF bw = 8 /\ w[5] = XGMII_START THEN Goes(from(5))
           ELSE Goes(snk)
      ELSE IF ctl = {} THEN Goes([snk EXCEPT !.d = @ \o w])
      ELSE Ends(snk.d \o SubSeq(w, 1, IF w[end] = XGMII_TERM THEN end - 1 ELSE end))

-----------------------------------------------------------------------------
(***************************************************************************)
(* GMII, MII and RGMII.  With mii_select, and over MII, a byte is two      *)
(* nibbles, the low one first.                                             *)
(***************************************************************************)
Unit(d, e) == [d |-> d, en |-> 1, er |-> e]

GmiiBuild(f) ==
  [i \in DOMAIN f.data |-> Unit(f.data[i], IF f.error /\ i = Len(f.data) THEN 1 ELSE 0)]

\* mii_select of GMIISource: both nibbles have the error of their byte.
Nibbles(units) ==
  [i \in 1..(2 * Len(units)) |->
     LET u == units[(i + 1) \div 2]
     IN  [u EXCEPT !.d = IF i % 2 = 1 THEN @ % 16 ELSE @ \div 16]]

\* MIIFrame.build: only the last nibble has the error.
MiiBuild(f) ==
  LET n == Nibbles(GmiiBuild(f))
  IN  [i \in DOMAIN n |-> IF i < Len(n) THEN [n[i] EXCEPT !.er = 0] ELSE n[i]]

Units(f) == IF link.kind = "mii" THEN MiiBuild(f)
            ELSE IF link.mii THEN Nibbles(GmiiBuild(f)) ELSE GmiiBuild(f)

MiiGap == /\ src.ifg_cnt > 0
          /\ src' = [src EXCEPT !.ifg_cnt = @ - 1]
          /\ line' = IdleMii

MiiPut(dl, gap) ==
  /\ line' = Head(dl)
  /\ src' = [src EXCEPT !.dl = Tail(dl), !.ifg_cnt = IF Len(dl) = 1 THEN gap ELSE 0]

MiiGoOn == /\ src.ifg_cnt = 0 /\ src.dl # <<>>
           /\ MiiPut(src.dl, IF link.kind = "mii" \/ link.mii THEN 24 ELSE 12)

MiiStart(f) == src.ifg_cnt = 0 /\ src.dl = <<>> /\ MiiPut(Units(f), 0)

MiiIdle == src.ifg_cnt = 0 /\ src.dl = <<>> /\ line' = IdleMii /\ UNCHANGED src

\* Nibbles to bytes: the first 5 followed by D aligns the bytes.
Repack(units) ==
  LET step(a, u) ==
        LET b    == 16 * (u.d % 16) + a.b \div 16
            be   == IF u.er = 1 THEN 1 ELSE a.be
            sync == ~a.sync /\ b = 213
        IN  IF sync \/ ~a.odd
            THEN [odd |-> TRUE, sync |-> a.sync \/ sync, b |-> b, be |-> 0,
                  out |-> Append(a.out, Unit(b, be))]
            ELSE [a EXCEPT !.odd = FALSE, !.b = b, !.be = be]
  IN  FoldLeft(step, [odd |-> TRUE, sync |-> FALSE, b |-> 0, be |-> 0, out |-> <<>>], units).out

MiiSink(in) ==
  IF in.en = 1 THEN Goes([open |-> TRUE, d |-> Append(snk.d, in)])
  ELSE IF snk.open THEN Ends(IF link.kind = "mii" \/ link.mii THEN Repack(snk.d) ELSE snk.d)
  ELSE Goes(snk)

\* RGMII sends a byte in two halves, the low one from the falling edge on, and
\* the exclusive or of enable and error with the high one.
Xor(a, b) == (a + b) % 2
DdrReset == [falling |-> TRUE, reg |-> IdleMii, txd |-> 0, ctl |-> 0,
             dat |-> 0, ctl1 |-> 0, ctl2 |-> 0, rx |-> IdleMii]

DdrRise ==
  ddr' = [ddr EXCEPT !.falling = TRUE,
                     !.txd = IF link.mii THEN @ ELSE ddr.reg.d \div 16,
                     !.ctl = Xor(ddr.reg.en, ddr.reg.er),
                     !.reg = line,
                     !.rx = [d |-> ddr.dat, en |-> ddr.ctl1, er |-> Xor(ddr.ctl1, ddr.ctl2)],
                     !.dat = ddr.txd,
                     !.ctl1 = ddr.ctl]

DdrFall ==
  /\ link.kind = "rgmii" /\ ddr.falling
  /\ ddr' = [ddr EXCEPT !.falling = FALSE,
                        !.txd = ddr.reg.d % 16,
                        !.ctl = ddr.reg.en,
                        !.dat = @ + 16 * ddr.txd,
                        !.ctl2 = ddr.ctl]
  /\ UNCHANGED <<link, src, line, snk, due, got, owed>>

-----------------------------------------------------------------------------
(***************************************************************************)
(* An edge of the clock.                                                   *)
(***************************************************************************)
\* The sink's part of an edge at which the source starts the given frames.
Receive(in, started) ==
  /\ snk' = in.snk
  /\ got' = IF in.frame = <<>> THEN NoGot ELSE <<in.frame, SubSeq(due, 1, 1)>>
  /\ due' = (IF in.frame = <<>> \/ due = <<>> THEN due ELSE Tail(due)) \o started

\* Idle bytes are owed from the end of a frame on, and paid by every byte
\* between frames, the end included.
Pay(o, ch) == CASE ch = XGMII_TERM -> o + ifg - 1
                [] ch = XGMII_IDLE -> Max({o - 1, 0})
                [] OTHER -> o

XgEdge(started) ==
  /\ link.kind \in {"xgmii", "baser"}
  /\ Receive(XgSink(Word), started)
  /\ owed' = FoldLeft(Pay, owed, Word)
  /\ UNCHANGED <<link, ddr>>

MiiEdge(started) ==
  /\ link.kind \in {"gmii", "mii", "rgmii"}
  /\ Receive(MiiSink(IF link.kind = "rgmii" THEN ddr.rx ELSE line), started)
  /\ IF link.kind = "rgmii" THEN ~ddr.falling /\ DdrRise ELSE UNCHANGED ddr
  /\ UNCHANGED <<link, owed>>

\* rst reaches both ends; the frames under way are lost.  10GBASE-R has none,
\* and the registers of RGMII, which it does not clear, run empty under it.
Reset ==
  /\ link.kind \in {"xgmii", "gmii", "mii"}
  /\ src' = Drained
  /\ line' = Idle(link)
  /\ snk' = Closed
  /\ due' = <<>> /\ got' = NoGot /\ owed' = 0
  /\ UNCHANGED <<link, ddr>>

\* create_logic of both ends.
Connect(l) ==
  /\ link = Unconnected
  /\ link' = l /\ line' = Idle(l)
  /\ UNCHANGED <<src, ddr, snk, due, got, owed>>

EthInit ==
  /\ link = Unconnected
  /\ src = Drained
  /\ line = IdleMii
  /\ ddr = DdrReset
  /\ snk = Closed
  /\ due = <<>> /\ got = NoGot /\ owed = 0

EthNext ==
  \/ \E l \in Links : Connect(l)
  \/ XgEdge(<<>>) /\ (XgGap \/ XgGoOn \/ XgIdle)
  \/ \E f \in XgFrames, force \in BOOLEAN : XgEdge(<<f>>) /\ XgStart(f, force)
  \/ MiiEdge(<<>>) /\ (MiiGap \/ MiiGoOn \/ MiiIdle)
  \/ \E f \in MiiFrames : MiiEdge(<<f>>) /\ MiiStart(f)
  \/ DdrFall
  \/ Reset

-----------------------------------------------------------------------------
(***************************************************************************)
(* Properties.                                                             *)
(***************************************************************************)
\* What a sink may make of a frame.  The block code turns a block with an
\* error into errors, so that the frame ends there.
Agrees(r, f) ==
  CASE link.kind = "xgmii" -> r = BuildChars(f)
    [] link.kind = "baser" -> IF f.error
                              THEN \E n \in 1..(Len(f.data) - 1) :
                                     r = Append(SubSeq(f.data, 1, n), XGMII_ERROR)
                              ELSE r = f.data
    [] OTHER -> r = GmiiBuild(f)

\* Every frame is received, once and in order, with its bytes and marked as bad
\* if and only if it was sent so, in whichever lane it starts and ends, with
\* or without nibbles (logic of the sources and sinks of the five files).
EthFramesIntact ==
  /\ got # NoGot => got[2] # <<>> /\ Agrees(got[1], got[2][1])
  /\ src.dl = <<>> /\ ~snk.open /\ got = NoGot
     /\ (IF link.kind \in {"xgmii", "baser"} THEN line = Idle(link)
         ELSE \A u \in {line, ddr.reg, ddr.rx} : u.en = 0)
     /\ ddr.ctl = 0 /\ ddr.ctl1 = 0
     => due = <<>>

\* The gaps between frames may be short, but what they are short of does not
\* add up: whenever a frame starts at most three idle bytes are missing over
\* all the gaps before it, and none without enable_dic (ifg_cnt and
\* deficit_idle_cnt of XGMIISource and BaseRSerdesSource).
GapIsKept ==
  link.kind \in {"xgmii", "baser"} =>
    \A i \in {j \in 1..link.bw : Word[j] = XGMII_START} :
       FoldLeft(Pay, owed, SubSeq(Word, 1, i)) <= IF link.dic THEN 3 ELSE 0

\* The words a 10GBASE-R block can hold.
Words(d, x) ==
  {Rep(XGMII_IDLE, 8), d, [d EXCEPT ![1] = XGMII_START]}
  \cup {Rep(XGMII_IDLE, 4) \o [x EXCEPT ![1] = o] : o \in {XGMII_START, XGMII_SEQ_OS, XGMII_SIG_OS}}
  \cup {[x EXCEPT ![1] = o] \o h :
          o \in {XGMII_SEQ_OS, XGMII_SIG_OS},
          h \in {Rep(XGMII_IDLE, 4)} \cup
                {[x EXCEPT ![1] = p] : p \in {XGMII_START, XGMII_SEQ_OS, XGMII_SIG_OS}}}
  \cup {SubSeq(d, 1, k) \o <<XGMII_TERM>> \o Rep(XGMII_IDLE, 7 - k) : k \in 0..7}

\* Decoding undoes encoding for every word a block can hold, except for an
\* ordered set in lane 0 before idles: it comes out as a sequence ordered set,
\* whichever it was, before four errors (10GBASE-R encoding and decoding of
\* baser_serdes_ep.py).
CodecIsExact ==
  \A w \in Words([i \in 1..8 |-> i], [i \in 1..4 |-> i]) :
     Decode(Encode(w)) = IF BlockType(w) = "OS_0"
                         THEN <<XGMII_SEQ_OS>> \o SubSeq(w, 2, 4) \o Rep(XGMII_ERROR, 4)
                         ELSE w
=============================================================================
