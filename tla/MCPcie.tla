------------------------------- MODULE MCPcie -------------------------------
(***************************************************************************)
(* Small instances of three parts of the PCIe model that pcie.py provides: *)
(* memory and IO operations between a root complex and an endpoint         *)
(* (PcieMem), enumeration and routing in a hierarchy (PcieTopo), and the   *)
(* configuration space of a function (PcieConfig).  The parts share no     *)
(* state; the first step of a behaviour chooses the one it is about.       *)
(***************************************************************************)
EXTENDS Integers, Sequences

CONSTANTS
  e1, p1, p3, NoTag,
  RcOps, EpOps     \* operations of PcieMem, chosen from the sets below

VARIABLES
  unit,                                                      \* the part chosen
  mem, down, up, current_tag, rx_cpl_queues, proc, shadow, ops, timeouts,
  topo, reg, fns, devbus, stack, lim, tree, msi_msg_limit, phase, flight, trip,
  family, caps, cap_ptr, todo, field, last, writes

(***************************************************************************)
(* PcieMem: a boundary of 32 bytes and a read completion boundary of 8 put *)
(* every split within a few dozen bytes.                                   *)
(***************************************************************************)
OneEp      == {e1}
MCRcProc   == {p1}
MCEpProc   == [e \in OneEp |-> {p3}]
MCEpBar    == [e \in OneEp |-> 64..127]
MCWindow   == [e \in OneEp |-> 64..127 \cup 160..163]
MCCfgBytes == [e \in OneEp |-> 0..7]
MCRcRegion == 0..63

(* Reads and writes around the boundary at 96, of the region itself, and  *)
(* of an address no BAR matches.                                          *)
MemRcOps ==
  {<<"MEM_READ", a, n>> : a \in {66, 85, 91}, n \in {1, 3, 10, 23}}
    \cup {<<"MEM_WRITE", a, n>> : a \in {87, 92}, n \in {2, 9, 14}}
    \cup {<<"MEM_READ", 5, 3>>, <<"MEM_WRITE", 5, 3>>, <<"MEM_READ", 160, 4>>,
          <<"MEM_WRITE", 160, 4>>, <<"IO_READ", 70, 3>>, <<"IO_WRITE", 67, 2>>}

(* A function's reads fit in one request. *)
MemEpOps ==
  {<<"MEM_READ", a, n>> : a \in {1, 18}, n \in {4, 13}}
    \cup {<<"MEM_WRITE", a, n>> : a \in {4, 27}, n \in {3, 12}}
    \cup {<<"IO_READ", 6, 3>>, <<"IO_WRITE", 6, 3>>, <<"MEM_READ", 200, 4>>,
          <<"IO_READ", 200, 1>>, <<"IO_WRITE", 200, 1>>, <<"MEM_WRITE", 200, 1>>}

(* Reads longer than a request, which a function does not split. *)
LongEpReads == {<<"MEM_READ", 0, n>> : n \in {8, 16, 24}}

NoOps == {}

Mem == INSTANCE PcieMem WITH
  Page <- 32, Rcb <- 8, Eps <- OneEp, RcProc <- MCRcProc, EpProc <- MCEpProc,
  RcTags <- 2, EpTags <- 2, PayloadSize <- 0, ReadSize <- 1, BusMaster <- TRUE,
  RcRegion <- MCRcRegion, EpBar <- MCEpBar, Window <- MCWindow,
  CfgBytes <- MCCfgBytes, MaxOps <- 2, MaxTimeouts <- 0

(***************************************************************************)
(* PcieTopo: five hierarchies of up to four levels.                        *)
(***************************************************************************)
Port(d) == [kind |-> "port", below |-> <<d>>]
Fn(bars, msi) == [bars |-> bars, mps |-> 2, msi |-> msi]
Dev(fs) == [kind |-> "device", fns |-> fs, below |-> <<>>]
Bar(k, s) == [kind |-> k, size |-> s]

\* a switch with two devices, one of them with two functions, beside a device
Deep(a, b, c) ==
    [rc |-> [kind |-> "root", below |-> <<"p1", "p2">>],
     p1 |-> Port("s"), p2 |-> Port("d3"),
     s  |-> [kind |-> "switch", below |-> <<"q1", "q2">>],
     q1 |-> Port("d1"), q2 |-> Port("d2"),
     d1 |-> Dev(<<Fn(<<Bar("mem32", a), Bar("io", 1)>>, 1), Fn(<<Bar("mem64", b)>>, -1)>>),
     d2 |-> Dev(<<Fn(<<Bar("pref64", 8), Bar("mem32", c)>>, 0)>>),
     d3 |-> Dev(<<Fn(<<Bar("pref32", 1), Bar("pref64", 2), Bar("io", 2)>>, 2)>>)]

\* two switches in a row, and BARs that leave gaps
Chain ==
    [rc |-> [kind |-> "root", below |-> <<"p1">>],
     p1 |-> Port("s"), s |-> [kind |-> "switch", below |-> <<"q1", "q2">>],
     q1 |-> Port("t"), t |-> [kind |-> "switch", below |-> <<"u1">>], u1 |-> Port("d1"),
     q2 |-> Port("d2"),
     d1 |-> Dev(<<Fn(<<Bar("io", 3), Bar("mem32", 1), Bar("mem64", 8)>>, 1)>>),
     d2 |-> Dev(<<Fn(<<Bar("io", 1)>>, -1), Fn(<<Bar("pref64", 3), Bar("io", 4)>>, 2)>>)]

MCTopologies == UNION {{Deep(1, 8, c), Deep(3, 2, c)} : c \in {1, 5}} \cup {Chain}
MCDevNums == 0..2
MCFnNums == 0..2
MCTopoRegion == 0..2
MCRcIoRegion == {0}

Topo == INSTANCE PcieTopo WITH
  Topologies <- MCTopologies, DevNums <- MCDevNums, FnNums <- MCFnNums,
  IoAlign <- 4, MemAlign <- 4, IoBase <- 8, MemBase <- 8, PrefBase <- 64,
  MinIo <- 1, MinMem <- 2, RcRegion <- MCTopoRegion, RcIoRegion <- MCRcIoRegion,
  MsiAddr <- 2, MsiBlock <- 4, MaxBus <- 15, RcPayload <- 1

(***************************************************************************)
(* PcieConfig: endpoints with the capability offsets of the two FPGA       *)
(* families, moved in three orders, and a bridge.                          *)
(***************************************************************************)
Base == <<<<"MSIX", -1>>, <<"MSI", -1>>, <<"PCIE", -1>>, <<"PM", -1>>>>
Orders == {<<"PM", "MSI", "MSIX", "PCIE">>, <<"PCIE", "MSIX", "MSI", "PM">>,
           <<"MSI", "PM", "PCIE", "MSIX">>}
Moves(offs) == {[k \in 1..4 |-> <<p[k], offs[p[k]]>>] : p \in Orders}
US  == [PM |-> 32, MSI |-> 36, MSIX |-> 44, PCIE |-> 48]
USP == [PM |-> 16, MSI |-> 18, MSIX |-> 24, PCIE |-> 28]

MCMixins ==
    {[header |-> "bridge", order |-> <<<<"PCIE", -1>>, <<"PM", -1>>>>]}
    \cup {[header |-> "endpoint", order |-> Base]}
    \cup {[header |-> "endpoint", order |-> Base \o m] : m \in Moves(US) \cup Moves(USP)}

\* First all bits are set or cleared; then byte enables and data that tell any two bytes
\* and any two bits apart.
MCWrites ==
    <<{<<0..3, {}>>, <<0..3, 0..31>>},
      {{0, 1}, {1, 2}, {2, 3}} \X {{b \in 0..31 : (b \div 2^k) % 2 = 0} : k \in 0..4}>>

Config == INSTANCE PcieConfig WITH Mixins <- MCMixins, Writes <- MCWrites

(***************************************************************************)
(* One part at a time.                                                     *)
(***************************************************************************)
memVars == <<mem, down, up, current_tag, rx_cpl_queues, proc, shadow, ops, timeouts>>
topoVars == <<topo, reg, fns, devbus, stack, lim, tree, msi_msg_limit, phase, flight, trip>>
configVars == <<family, caps, cap_ptr, todo, field, last, writes>>

Choose(u) == unit \in {"none", u} /\ unit' = u

PcieInit == unit = "none" /\ Mem!Init /\ Topo!TopoInit /\ Config!ConfigInit

MemStep    == Choose("mem") /\ Mem!Next /\ UNCHANGED <<topoVars, configVars>>
TopoStep   == Choose("topo") /\ Topo!TopoNext /\ UNCHANGED <<memVars, configVars>>
ConfigStep == Choose("config") /\ Config!ConfigNext /\ UNCHANGED <<memVars, topoVars>>

PcieNext == MemStep \/ TopoStep \/ ConfigStep
PcieSpec == PcieInit /\ [][PcieNext]_<<unit, memVars, topoVars, configVars>>

\* PcieMem alone.
MemSpec == PcieInit /\ [][MemStep]_<<unit, memVars, topoVars, configVars>>

(***************************************************************************)
(* Properties, defined and explained in the modules of the parts.  A part  *)
(* that was not chosen stays in its initial state, so that its properties  *)
(* are evaluated only where it was.                                        *)
(***************************************************************************)
(* No assertion of the requesters in mem_read, mem_write, io_read and      *)
(* io_write of pcie.py fails: every packet passes TLP.check when sent,     *)
(* every completion carries the byte count still missing, and a tag is     *)
(* always found.                                                           *)
AssertionsHold == unit = "mem" => Mem!AssertionsHold

(* Reads and writes through packets behave as on one byte array: a read    *)
(* returns, byte for byte, what its range held when it was called or a     *)
(* value written there since, and once the links are empty the memories    *)
(* hold the bytes of every write issued and no other (mem_read, mem_write, *)
(* set_be_data, handle_mem_read_tlp, handle_mem_write_tlp).                *)
MemoryIsExact == unit = "mem" => Mem!ReadsAreExact /\ Mem!WritesLand

(* A completion carries at most the maximum payload, and unless it is the  *)
(* last of its read it ends at a read completion boundary                  *)
(* (handle_mem_read_tlp).                                                  *)
CompletionsAreAligned == unit = "mem" => Mem!CompletionsAreAligned

(* enumerate finds every bridge and function once, under an id at which a  *)
(* configuration access still reaches it when all bridges are final; the   *)
(* BARs it allocates are aligned, share no address, and lie in the windows *)
(* of the bridges above them and of no other bridge.                       *)
EnumerationIsSound == unit = "topo" => Topo!EnumerationFindsAll /\ Topo!BarsInTheirWindows

(* A request reaches the owner of its address and nobody else, once, and   *)
(* its answer reaches the requester and nobody else; an interrupt arrives  *)
(* with a message number of the function that raised it (Bridge, Switch,   *)
(* Device and RootComplex: upstream_recv, downstream_recv, configure_msi). *)
PacketsReachOwner == unit = "topo" => Topo!DeliveredToOwner /\ Topo!MsiReachesOwner

(* Once a function is built, in whatever order its capabilities were moved *)
(* and displaced one another, they share no register and the walk from     *)
(* cap_ptr finds each of them once (PcieCapList.register).                 *)
CapabilitiesFound == unit = "config" => Config!CapabilitiesFound

(* A configuration write changes the register it names and no other, there *)
(* only bits under the byte enables it carries, and a writable bit reads   *)
(* back as written; the read completion boundary alone is written at       *)
(* another bit than it is read at (read_config_register and                *)
(* write_config_register of the function and its capabilities).            *)
WriteReadsBack == unit = "config" => Config!WriteReadsBack
=============================================================================
