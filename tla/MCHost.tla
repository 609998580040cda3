------------------------------- MODULE MCHost -------------------------------
(***************************************************************************)
(* Small instances of the host side and of the bus models: the driver of   *)
(* mqnic.py (Mqnic), and master and memory of AXI (Axi), of AXI-Lite       *)
(* (Axil), source and sink of AXI-Stream (AxisEp), and the Ethernet        *)
(* endpoints (EthEp).  The parts share no state; the first step of a       *)
(* behaviour chooses one.                                                  *)
(***************************************************************************)
EXTENDS Mqnic, Axi, Axil, AxisEp

VARIABLES
  unit,                                                      \* the part chosen
  link, src, line, ddr, snk, due, got, owed

(***************************************************************************)
(* Mqnic: rings of two entries whose pointers wrap at four.  The packets   *)
(* received and sent in a behaviour: enough of each to fill its ring and   *)
(* wrap its pointers, and both at once.                                    *)
(***************************************************************************)
OneQueue == {0}
Workloads == {<<3, 0>>, <<2, 1>>, <<1, 2>>, <<0, 5>>}
WithinWorkload == \E w \in Workloads : Len(arrived[0]) <= w[1] /\ Len(submitted[0]) <= w[2]

(***************************************************************************)
(* Axi: bursts of the three types, aligned or not, narrow or full, empty,  *)
(* and across the page boundary at 8, on a bus of two bytes.               *)
(***************************************************************************)
W(a, l, n, b) == [op |-> "write", addr |-> a, len |-> l, nb |-> n, burst |-> b]
R(a, l, n, b) == [op |-> "read", addr |-> a, len |-> l, nb |-> n, burst |-> b]
MCAxiCommands ==
  {W(7, 4, 2, "INCR"), W(6, 3, 1, "INCR"), W(10, 4, 2, "WRAP"), W(9, 0, 2, "INCR"),
   W(8, 4, 2, "FIXED"), R(5, 5, 2, "INCR"), R(7, 2, 1, "INCR"), R(10, 4, 2, "WRAP"),
   R(8, 0, 2, "INCR"), R(8, 4, 2, "FIXED")}

\* Axil: two words and a byte from odd addresses, and the last word of the memory.
MCAxilCommands == {[op |-> o, addr |-> a[1], len |-> a[2]] :
                     o \in {"write", "read"}, a \in {<<1, 4>>, <<3, 1>>, <<10, 2>>}}

\* The channels that are paused on a clock, by their driver and their receiver.
Paused(d, r) == [driver |-> d, receiver |-> r]
MCPauses == {Paused({}, {}), Paused({"aw"}, {"b"}), Paused({"w", "r"}, {}),
             Paused({}, {"aw", "ar"}), Paused({"b"}, {"w", "r"})}

\* AxisEp: side channels unset, one number for the frame, or one for each beat.
All(n) == [all |-> TRUE, of |-> <<n>>]
Unused == List(<<>>)
AxisFrame(d, i, e, u, l) ==
  [data |-> d, id |-> i, dest |-> e, user |-> u, last_cycle_user |-> l]
MCAxisFrames ==
  {AxisFrame(<<1, 2, 3>>, All(1), Unused, All(0), 1),
   AxisFrame(<<4>>, Unused, All(1), Unused, Unset),
   AxisFrame(<<5, 6, 7, 8>>, List(<<0, 1>>), Unused, List(<<1, 0>>), Unset)}

(***************************************************************************)
(* EthEp: all links, frames that end in every lane, with and without an    *)
(* error, and frames whose payload repeats the start delimiter.            *)
(***************************************************************************)
Link(k, b, dic, mii) == [kind |-> k, bw |-> b, dic |-> dic, mii |-> mii]
MCLinks ==
  {Link(k[1], k[2], d, FALSE) : k \in {<<"xgmii", 4>>, <<"xgmii", 8>>, <<"baser", 8>>}, d \in BOOLEAN}
  \cup {Link(k, 1, FALSE, m) : k \in {"gmii", "rgmii"}, m \in BOOLEAN}
  \cup {Link("mii", 1, FALSE, FALSE)}
MCXgFrames == {[data |-> [i \in 1..n |-> IF i = 1 THEN 85 ELSE i], error |-> e] :
                 n \in 9..16, e \in BOOLEAN}
MCMiiFrames == {[data |-> <<85, 85, 213, 18>>, error |-> FALSE],
                [data |-> <<85, 213, 213, 93, 52>>, error |-> TRUE]}

Eth == INSTANCE EthEp WITH
  Links <- MCLinks, XgFrames <- MCXgFrames, MiiFrames <- MCMiiFrames, ifg <- 12

(***************************************************************************)
(* One part at a time.                                                     *)
(***************************************************************************)
ethVars == <<link, src, line, ddr, snk, due, got, owed>>

Choose(u) == unit \in {"none", u} /\ unit' = u

HostInit == unit = "none" /\ MqInit /\ AxiInit /\ AxilInit /\ AxisInit
            /\ Eth!EthInit

MqStep   == Choose("mqnic") /\ MqNext /\ WithinWorkload'
            /\ UNCHANGED <<axiVars, axilVars, axisVars, ethVars>>
AxiStep  == Choose("axi") /\ AxiNext /\ UNCHANGED <<mqVars, axilVars, axisVars, ethVars>>
AxilStep == Choose("axil") /\ AxilNext /\ UNCHANGED <<mqVars, axiVars, axisVars, ethVars>>
AxisStep == Choose("axis") /\ AxisNext /\ UNCHANGED <<mqVars, axiVars, axilVars, ethVars>>
EthStep  == Choose("eth") /\ Eth!EthNext /\ UNCHANGED <<mqVars, axiVars, axilVars, axisVars>>

HostNext == MqStep \/ AxiStep \/ AxilStep \/ AxisStep \/ EthStep
hostVars == <<unit, mqVars, axiVars, axilVars, axisVars, ethVars>>
HostSpec == HostInit /\ [][HostNext]_hostVars

\* The driver alone, and the AXI-Lite bus alone.
DriverSpec == HostInit /\ [][MqStep]_hostVars
LiteSpec == HostInit /\ [][AxilStep]_hostVars

(***************************************************************************)
(* Properties that join those of several modules; the driver's are in      *)
(* Mqnic.                                                                  *)
(***************************************************************************)
(* No read over AXI or AXI-Lite returns a stale byte or a byte of another  *)
(* address: it was in the memory there between init_read and the answer,   *)
(* for every alignment, burst type, size, split and pause; over AXI-Lite   *)
(* as long as no read moved the memory's position under a write (axi.py,   *)
(* axil.py).                                                               *)
ReadsAreFresh == AxiReadsAreFresh /\ AxilReadsAreFresh

(* When idle() of an AXI or AXI-Lite master holds every write is in        *)
(* memory, over AXI-Lite unless a read moved the position under one, every *)
(* command is answered and nothing is left on a channel; and the           *)
(* assertions of AXIRam hold, that no burst crosses a page and that "last" *)
(* marks the last beat of a burst (axi.py, axil.py).                       *)
IdleMeansDone == AxiIdleMeansDone /\ AxilIdleMeansDone /\ AxiAssertionsHold

(* Frames reach the AXI-Stream sink once, in order and equal to those      *)
(* sent, and a beat offered stays on the bus until it is taken             *)
(* (axis_ep.py, AXIStreamSource, AXIStreamSink).                           *)
StreamIsKept == []AxisFramesIntact /\ BeatIsHeld

(* Frames cross every Ethernet link once, in order, with their bytes and   *)
(* marked as bad only if sent so; the idles that gaps between frames are   *)
(* short of never add up to more than three; and the block code of         *)
(* 10GBASE-R is undone by its decoder, but for ordered sets in lane 0,     *)
(* which lose their kind and the characters behind them (xgmii_ep.py,      *)
(* baser_serdes_ep.py, gmii_ep.py, mii_ep.py, rgmii_ep.py).                *)
EthernetIsKept ==
  CASE unit = "eth"  -> Eth!EthFramesIntact /\ Eth!GapIsKept
    [] unit = "none" -> Eth!CodecIsExact
    [] OTHER         -> TRUE
=============================================================================
