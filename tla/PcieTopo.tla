------------------------------ MODULE PcieTopo ------------------------------
(***************************************************************************)
(* The PCIe hierarchy of the test bench (pcie.py): a root complex with its  *)
(* host bridge, root ports, switches and multi-function devices, enumerated *)
(* by RootComplex.enumerate and then used to carry requests, completions    *)
(* and MSI writes.  A configuration access is one step (enumeration is one  *)
(* sequential process and nothing else runs beside it); afterwards a TLP    *)
(* moves one hop per step.  A TLP carries its type, what it is routed by,   *)
(* its requester and its completion status.  Locked completions behave as   *)
(* completions; message TLPs have no sender in the repository and are not   *)
(* modelled.  Addresses are small numbers: IoAlign, MemAlign stand for the  *)
(* 4 KB and 1 MB granules of the bridge windows.                            *)
(***************************************************************************)
EXTENDS Integers, Sequences, FiniteSets, SequencesExt, FiniteSetsExt

CONSTANTS
    Topologies,     \* the hierarchies the run enumerates: see TopologyOK
    DevNums,        \* device numbers probed on every bus (32 in the code)
    FnNums,         \* function numbers probed (8 in the code)
    IoAlign, MemAlign,              \* window granules
    IoBase, MemBase, PrefBase,      \* where the allocations start
    MinIo, MinMem,  \* smallest BAR: 4 bytes of IO, 16 bytes of memory
    RcRegion,       \* memory addresses of the root complex's regions
    RcIoRegion,     \* IO addresses of the root complex's IO regions
    MsiAddr,        \* address of the MSI region (configure_msi allocates it)
    MsiBlock,       \* message numbers given to each function (32 in the code)
    MaxBus,         \* bus number written while a bus is enumerated (255)
    RcPayload       \* max_payload_size of the root complex

VARIABLES
    topo,           \* the hierarchy, a function of node names
    reg,            \* bus numbers and windows of every bridge
    fns,            \* what enumeration writes in every function
    devbus,         \* bus number every device has captured
    stack,          \* frames of enumerate_segment, the deepest one last
    lim,            \* io_limit, mem_limit, prefetchable_mem_limit of the root
    tree,           \* TreeItems found: id and function
    msi_msg_limit,  \* next free MSI message number
    phase,          \* "idle", "enumerate", "route"
    flight,         \* the TLP on its way: [at, dir, pkt], or <<>>
    trip            \* the request on its way and who has seen what of it

enumVars == <<topo, reg, fns, devbus, stack, lim, tree, msi_msg_limit>>
topoVars == <<enumVars, phase, flight, trip>>

-----------------------------------------------------------------------------
(* A hierarchy: node "rc" is the host bridge; a "port" is a root port or a  *)
(* switch downstream port and has one link partner; a "switch" is a switch  *)
(* upstream port and has ports; a "device" has functions.                   *)
Bridges == {n \in DOMAIN topo : topo[n].kind # "device"}
Devices == {n \in DOMAIN topo : topo[n].kind = "device"}
HasBus(n) == topo[n].kind \in {"root", "switch"}

Parent(n) == CHOOSE m \in DOMAIN topo : n \in Range(topo[m].below)

(* Switch.next_free_device_number: the first gap, from min_dev = 1 on. *)
next_free_device_number(used) == Min({d \in 1..32 : d \notin used})

(* make_port numbers the ports of a bus in the order they are made. *)
PortNumbers(ports) ==
    FoldLeft(LAMBDA nums, p : Append(nums, next_free_device_number(Range(nums))), <<>>, ports)

DeviceNum(n) ==
    IF n = "rc" \/ ~HasBus(Parent(n)) THEN 0
    ELSE LET below == topo[Parent(n)].below
         IN  PortNumbers(below)[CHOOSE i \in DOMAIN below : below[i] = n]

(* Device.next_free_function_number and append_function: functions are      *)
(* numbered from 0 in the order they are added.                             *)
Functions(n) == {<<n, i - 1>> : i \in DOMAIN topo[n].fns}
AllFunctions == UNION {Functions(n) : n \in Devices}
Bars(fn) == topo[fn[1]].fns[fn[2] + 1].bars

Id(bus, d, f) == <<bus, d, f>>
get_id(fn) == IF fn[1] \in Devices THEN Id(devbus[fn[1]], 0, fn[2])
                                   ELSE Id(reg[fn[1]].bus, DeviceNum(fn[1]), 0)

-----------------------------------------------------------------------------
(* Windows and BARs *)

In(a, w) == w.lo <= a /\ a <= w.hi
Align(a, size) == ((a + size - 1) \div size) * size
Down(a, size) == a - (a % size)

(* Bridge.write_config_register, registers 7 to 12: base and limit keep     *)
(* whole granules, and the low bits of a limit read as ones.                *)
WindowReg(lo, hi, g) == [lo |-> Down(lo, g), hi |-> Down(hi, g) + g - 1]

(* configure_bar: the size becomes a power of two, at least MinIo or MinMem. *)
BarSize(b) == LET least == IF b.kind = "io" THEN MinIo ELSE MinMem
              IN  Min({s \in {2^k : k \in 0..12} : s >= b.size /\ s >= least})

(* The space a BAR is allocated from: a 32-bit prefetchable BAR and a       *)
(* 64-bit one that is not prefetchable both come from mem.                  *)
Space(b) == CASE b.kind = "io" -> "io" [] b.kind = "pref64" -> "pref" [] OTHER -> "mem"

BarWindow(fn, i) ==
    [lo |-> fns[fn].bar[i], hi |-> fns[fn].bar[i] + BarSize(Bars(fn)[i]) - 1]

(* Function.match_bar *)
match_bar(fn, a, io) ==
    \E i \in DOMAIN Bars(fn) : (Bars(fn)[i].kind = "io") = io /\ In(a, BarWindow(fn, i))

(* The enumeration's BAR loop: sizes, aligns, allocates and writes one BAR. *)
AllocBar(acc, b) ==
    LET s    == Space(b)
        base == Align(acc.lim[s], BarSize(b))
    IN  [lim |-> [acc.lim EXCEPT ![s] = base + BarSize(b)], bar |-> Append(acc.bar, base)]

AllocBars(l, bars) == FoldLeft(AllocBar, [lim |-> l, bar |-> <<>>], bars)

AlignLimits(l) == [io |-> Align(l.io, IoAlign), mem |-> Align(l.mem, MemAlign),
                   pref |-> Align(l.pref, MemAlign)]

-----------------------------------------------------------------------------
(* One hop of a TLP.  dir "down": received on the upstream port; "up":      *)
(* received on the downstream port; "for": handled by the function at.      *)

Hop(n, dir, p) == <<[at |-> n, dir |-> dir, pkt |-> p]>>
Dropped == <<>>
ForMe(fn, p) == Hop(fn, "for", p)

UrCompletion(p) == [type |-> "cpl", req |-> p.req, status |-> "UR"]
ScCompletion(p) == [type |-> "cpl", req |-> p.req, status |-> "SC"]

upstream_send(n, p) == IF n = "rc" THEN ForMe(<<"rc", 0>>, p) ELSE Hop(Parent(n), "up", p)

InWindow(n, p) ==
    IF p.type = "io" THEN In(p.addr, reg[n].io)
                     ELSE In(p.addr, reg[n].mem) \/ In(p.addr, reg[n].pref)
Below(n, bus) == reg[n].sec <= bus /\ bus <= reg[n].sub

(* The port of a bus that SwitchUpstreamPort.route_downstream_tlp picks for *)
(* a TLP.  Ports have no BARs.                                              *)
PortTakes(n, p) ==
    CASE p.type = "cfg0" -> p.dest[2] = DeviceNum(n) /\ p.dest[3] = 0
      [] p.type = "cfg1" -> Below(n, p.dest[1])
      [] p.type = "cpl"  -> p.req = get_id(<<n, 0>>) \/ Below(n, p.req[1])
      [] OTHER           -> InWindow(n, p)

PortFor(n, p) == {i \in DOMAIN topo[n].below : PortTakes(topo[n].below[i], p)}

(* route_downstream_tlp, of a bus (first match, else an unsupported-request *)
(* completion, for a posted write too) and of a port (its link).            *)
RouteOnBus(n, p) ==
    IF PortFor(n, p) # {} THEN Hop(topo[n].below[Min(PortFor(n, p))], "down", p)
                          ELSE upstream_send(n, UrCompletion(p))

route_downstream_tlp(n, p, from_downstream) ==
    CASE ~HasBus(n) -> Hop(topo[n].below[1], "down", p)
      [] HasBus(n) /\ from_downstream /\ PortFor(n, p) = {} -> RouteOnBus(n, UrCompletion(p))
      [] OTHER -> RouteOnBus(n, p)

(* Bridge.upstream_recv *)
BridgeRecvDown(n, p) ==
    CASE p.type = "cfg0" ->
            IF p.dest[2] = DeviceNum(n) /\ p.dest[3] = 0 THEN ForMe(<<n, 0>>, p) ELSE Dropped
      [] p.type = "cfg1" ->
            IF Below(n, p.dest[1])
            THEN route_downstream_tlp(n, IF p.dest[1] = reg[n].sec
                                         THEN [p EXCEPT !.type = "cfg0"] ELSE p, FALSE)
            ELSE Dropped
      [] p.type = "cpl" ->
            IF n # "rc" /\ p.req = get_id(<<n, 0>>) THEN ForMe(<<n, 0>>, p)
            ELSE IF Below(n, p.req[1]) THEN route_downstream_tlp(n, p, FALSE) ELSE Dropped
      [] OTHER ->
            IF InWindow(n, p) THEN route_downstream_tlp(n, p, FALSE) ELSE Dropped

BridgeRecvUp_Above(n, p) ==
    CASE p.type \in {"cfg0", "cfg1"} -> Dropped
      [] p.type = "cpl" ->
            IF n # "rc" /\ p.req = get_id(<<n, 0>>) THEN ForMe(<<n, 0>>, p) ELSE upstream_send(n, p)
      [] OTHER ->
            IF InWindow(n, p) THEN route_downstream_tlp(n, p, TRUE) ELSE upstream_send(n, p)

(* Bridge.downstream_recv *)
BridgeRecvUp(n, p) ==
    CASE p.type \in {"cfg0", "cfg1"} -> Dropped
      [] p.type = "cpl" ->
            IF n # "rc" /\ p.req = get_id(<<n, 0>>) THEN ForMe(<<n, 0>>, p)
            ELSE IF ~Below(n, p.req[1]) THEN upstream_send(n, p)
            ELSE IF n = "rc" /\ p.req[1] = reg[n].pri /\ p.req[2] = 0 THEN upstream_send(n, p)
            ELSE route_downstream_tlp(n, p, TRUE)
      [] OTHER ->
            IF InWindow(n, p) THEN route_downstream_tlp(n, p, TRUE) ELSE upstream_send(n, p)

(* Device.upstream_recv: the function the TLP is for, else an unsupported   *)
(* request; completions and memory writes for nobody are dropped.           *)
DeviceRecv(n, p) ==
    LET hit == CASE p.type = "cfg0" -> {f \in Functions(n) : p.dest[2] = 0 /\ f[2] = p.dest[3]}
                 [] p.type = "cpl"  -> {f \in Functions(n) : p.req = get_id(f)}
                 [] OTHER           -> {f \in Functions(n) : match_bar(f, p.addr, p.type = "io")}
    IN  CASE hit # {} -> ForMe(CHOOSE f \in hit : \A g \in hit : f[2] <= g[2], p)
          [] hit = {} /\ p.type \in {"cpl", "memw"} -> Dropped
          [] OTHER -> upstream_send(n, UrCompletion(p))

(* RootComplex handlers: requests that reach the root complex itself. *)
RcHandles(p) == IF p.type = "io" THEN p.addr \in RcIoRegion ELSE p.addr \in RcRegion

(* What the receiver of a TLP sends next. *)
Answer(p) ==
    CASE p.type = "cpl" -> Dropped
      [] p.type = "memw" -> Dropped
      [] OTHER -> <<ScCompletion(p)>>

(* The hop after one. *)
NextHop(h) ==
    LET p == h.pkt
    IN  CASE h.dir = "for" ->
                LET a == IF h.at[1] = "rc" /\ p.type # "cpl" /\ ~RcHandles(p) /\ p.type # "memw"
                         THEN <<UrCompletion(p)>> ELSE Answer(p)
                IN  IF a = Dropped THEN Dropped
                    ELSE IF h.at[1] = "rc" THEN Hop("rc", "down", a[1])
                    ELSE upstream_send(h.at[1], a[1])
          [] h.dir = "down" /\ h.at \in Devices -> DeviceRecv(h.at, p)
          [] h.dir = "down" /\ h.at \notin Devices -> BridgeRecvDown(h.at, p)
          [] OTHER -> BridgeRecvUp(h.at, p)

(* Follow a TLP to its end: the functions that handle it and its answer. *)
RECURSIVE Follow(_)
Follow(h) ==
    IF h = Dropped THEN <<>>
    ELSE (IF h[1].dir = "for" THEN h ELSE <<>>) \o Follow(NextHop(h[1]))

-----------------------------------------------------------------------------
(* Enumeration *)

RcId == Id(0, 0, 0)

(* config_read and config_write: the function reached, none when the answer *)
(* is an unsupported request or does not come back.                         *)
ConfigAccess(id) ==
    {path[1].at : path \in
       {p \in {Follow(Hop("rc", "down", [type |-> "cfg1", dest |-> id, req |-> RcId]))} :
          Len(p) = 2 /\ p[2].at = <<"rc", 0>>}}

(* A type 0 access leaves its bus number in the device it reaches. *)
CaptureBus(fn, bus) ==
    devbus' = IF fn[1] \in Devices THEN [devbus EXCEPT ![fn[1]] = bus] ELSE devbus

BridgeReset(n) ==
    [pri |-> 0, sec |-> 0, sub |-> IF n = "rc" THEN MaxBus ELSE 0, bus |-> 0,
     io |-> WindowReg(0, 0, IoAlign), mem |-> WindowReg(0, 0, MemAlign),
     pref |-> WindowReg(0, 0, MemAlign)]
FnReset(bars) ==
    [bar |-> [i \in DOMAIN bars |-> 0], mps |-> 0, bus_master |-> FALSE, msi |-> -1]

NoTrip == [pkt |-> <<>>, by |-> <<>>, answers |-> <<>>]

TopoInit ==
    /\ topo = <<>> /\ reg = <<>> /\ fns = <<>> /\ devbus = <<>>
    /\ stack = <<>> /\ tree = {} /\ msi_msg_limit = 0
    /\ lim = [io |-> IoBase, mem |-> MemBase, pref |-> PrefBase]
    /\ phase = "idle" /\ flight = <<>> /\ trip = NoTrip

(* enumerate_segment up to its device loop: align, note where the windows start. *)
Frame(node, bus, l) ==
    [node |-> node, bus |-> bus, d |-> 0, f |-> 0, fc |-> 0, sec_bus |-> bus + 1, sub_bus |-> bus,
     base |-> AlignLimits(l)]

(* enumerate *)
EnumStart ==
    /\ phase = "idle"
    /\ \E t \in Topologies :
          LET devs == {n \in DOMAIN t : t[n].kind = "device"}
              fs   == UNION {{<<n, i - 1>> : i \in DOMAIN t[n].fns} : n \in devs}
          IN  /\ topo' = t
              /\ reg' = [n \in DOMAIN t \ devs |-> BridgeReset(n)]
              /\ devbus' = [n \in devs |-> 0]
              /\ fns' = [f \in fs |-> FnReset(t[f[1]].fns[f[2] + 1].bars)]
    /\ phase' = "enumerate"
    /\ lim' = AlignLimits(lim)
    /\ stack' = <<Frame("rc", 0, lim)>>
    /\ UNCHANGED <<tree, msi_msg_limit, flight, trip>>

top == Last(stack)
SetTop(fr) == stack' = Append(Front(stack), fr)
Slot(f) == Id(top.bus, top.d, f)
Scanning == phase = "enumerate" /\ stack # <<>>

(* The device loop: read the vendor ID of function 0, and the header type   *)
(* to learn how many functions to look at.                                  *)
EnumDevice ==
    /\ Scanning /\ top.d \in DevNums /\ top.fc = 0
    /\ \E reached \in {ConfigAccess(Slot(0))} :
         \/ /\ (top.bus = 0 /\ top.d = 0) \/ reached = {}
            /\ SetTop([top EXCEPT !.d = @ + 1]) /\ UNCHANGED devbus
         \/ /\ ~(top.bus = 0 /\ top.d = 0)
            /\ \E fn \in reached :
                 /\ SetTop([top EXCEPT !.f = 0,
                            !.fc = IF fn[1] \in Devices /\ Len(topo[fn[1]].fns) > 1
                                   THEN Cardinality(FnNums) ELSE 1])
                 /\ CaptureBus(fn, top.bus)
    /\ UNCHANGED <<topo, reg, fns, lim, tree, msi_msg_limit, phase, flight, trip>>

(* The function loop, for a function of a device: BARs, the capability walk, *)
(* the payload size, bus mastering, MSI.                                    *)
EnumFunction ==
    /\ Scanning /\ top.fc > 0 /\ top.f < top.fc
    /\ \E reached \in {ConfigAccess(Slot(top.f))} :
         \/ /\ reached = {}
            /\ UNCHANGED <<fns, lim, tree, msi_msg_limit, devbus>>
         \/ \E fn \in reached :
            /\ fn[1] \in Devices
            /\ LET decl == topo[fn[1]].fns[fn[2] + 1]
                   got  == AllocBars(lim, decl.bars)
               IN  /\ fns' = [fns EXCEPT ![fn] =
                                 [bar |-> got.bar, mps |-> Min({5, RcPayload, decl.mps}),
                                  bus_master |-> TRUE,
                                  msi |-> IF decl.msi >= 0 THEN msi_msg_limit ELSE -1]]
                   /\ lim' = got.lim
                   /\ msi_msg_limit' = msi_msg_limit + (IF decl.msi >= 0 THEN MsiBlock ELSE 0)
                   /\ tree' = tree \cup {[id |-> Slot(top.f), fn |-> fn]}
            /\ CaptureBus(fn, top.bus)
    /\ SetTop([top EXCEPT !.f = @ + 1])
    /\ UNCHANGED <<topo, reg, phase, flight, trip>>

(* The function loop, for a bridge: give it bus numbers that let everything *)
(* through, then enumerate its secondary bus.                               *)
EnumBridge ==
    /\ Scanning /\ top.fc > 0 /\ top.f < top.fc
    /\ \E fn \in ConfigAccess(Slot(top.f)) :
         /\ fn[1] \notin Devices
         /\ reg' = [reg EXCEPT ![fn[1]].bus = top.bus, ![fn[1]].pri = top.bus,
                               ![fn[1]].sec = top.sec_bus, ![fn[1]].sub = MaxBus]
         /\ tree' = tree \cup {[id |-> Slot(top.f), fn |-> fn]}
         /\ stack' = Append(stack, Frame(fn[1], top.sec_bus, lim))
         /\ lim' = AlignLimits(lim)
    /\ UNCHANGED <<topo, fns, devbus, msi_msg_limit, phase, flight, trip>>

EnumNextDevice ==
    /\ Scanning /\ top.fc > 0 /\ top.f = top.fc
    /\ SetTop([top EXCEPT !.fc = 0, !.d = @ + 1])
    /\ UNCHANGED <<topo, reg, fns, devbus, lim, tree, msi_msg_limit, phase, flight, trip>>

FinalBridge_OneBus(fr, caller, l) ==
    [reg[fr.node] EXCEPT !.pri = caller.bus, !.sec = caller.sec_bus, !.sub = caller.sec_bus,
        !.io = WindowReg(fr.base.io, l.io - 1, IoAlign),
        !.mem = WindowReg(fr.base.mem, l.mem - 1, MemAlign),
        !.pref = WindowReg(fr.base.pref, l.pref - 1, MemAlign)]

(* The end of a segment: align, then the caller writes the final bus numbers *)
(* and windows of the bridge and goes on behind its buses.                  *)
FinalBridge(fr, caller, l) ==
    [reg[fr.node] EXCEPT !.pri = caller.bus, !.sec = caller.sec_bus, !.sub = fr.sub_bus,
        !.io = WindowReg(fr.base.io, l.io - 1, IoAlign),
        !.mem = WindowReg(fr.base.mem, l.mem - 1, MemAlign),
        !.pref = WindowReg(fr.base.pref, l.pref - 1, MemAlign)]

EnumReturn ==
    /\ Scanning /\ top.fc = 0 /\ top.d \notin DevNums /\ Len(stack) > 1
    /\ LET caller == stack[Len(stack) - 1]
           l      == AlignLimits(lim)
       IN  /\ reg' = [reg EXCEPT ![top.node] = FinalBridge(top, caller, l)]
           /\ stack' = Append(SubSeq(stack, 1, Len(stack) - 2),
                              [caller EXCEPT !.sub_bus = top.sub_bus, !.sec_bus = top.sub_bus + 1,
                                             !.f = @ + 1])
           /\ lim' = l
    /\ UNCHANGED <<topo, fns, devbus, tree, msi_msg_limit, phase, flight, trip>>

(* The end of enumerate: the host bridge gets the whole allocated range. *)
EnumDone ==
    /\ Scanning /\ top.fc = 0 /\ top.d \notin DevNums /\ Len(stack) = 1
    /\ LET l == AlignLimits(lim)
       IN  /\ reg' = [reg EXCEPT !["rc"].io = [lo |-> IoBase, hi |-> l.io],
                                 !["rc"].mem = [lo |-> MemBase, hi |-> l.mem],
                                 !["rc"].pref = [lo |-> PrefBase, hi |-> l.pref]]
           /\ lim' = l
    /\ stack' = <<>> /\ phase' = "route"
    /\ UNCHANGED <<topo, fns, devbus, tree, msi_msg_limit, flight, trip>>

-----------------------------------------------------------------------------
(* Traffic after enumeration *)

Sources == {<<"rc", 0>>} \cup AllFunctions
SourceId(s) == IF s[1] = "rc" THEN RcId ELSE get_id(s)
SendFrom(s, p) == IF s[1] = "rc" THEN Hop("rc", "down", p) ELSE upstream_send(s[1], p)

(* The addresses a bench may name: all that was allocated, the gaps, the    *)
(* root complex's regions and the first addresses past the ends.            *)
MemAddrs == RcRegion \cup MemBase..lim.mem \cup PrefBase..lim.pref
IoAddrs  == RcIoRegion \cup IoBase..lim.io

Request(s, p) ==
    /\ phase = "route" /\ flight = <<>> /\ trip = NoTrip
    /\ flight' = SendFrom(s, p)
    /\ trip' = [NoTrip EXCEPT !.pkt = [p EXCEPT !.req = s]]
    /\ UNCHANGED <<enumVars, phase>>

(* mem_read, mem_write, io_read and io_write of the root complex and of every function.  The *)
(* root complex serves its own regions without a TLP.                       *)
SendMem ==
    \E s \in Sources, t \in {"memr", "memw"} : \E a \in MemAddrs :
       /\ s[1] = "rc" => a \notin RcRegion
       /\ Request(s, [type |-> t, addr |-> a, req |-> SourceId(s)])
SendIo ==
    \E s \in Sources : \E a \in IoAddrs :
       /\ s[1] = "rc" => a \notin RcIoRegion
       /\ Request(s, [type |-> "io", addr |-> a, req |-> SourceId(s)])

(* issue_msi_interrupt: a memory write of the message number. *)
MsiData(fn, number) ==
    LET mm == topo[fn[1]].fns[fn[2] + 1].msi
    IN  (fns[fn].msi - (fns[fn].msi % 2^mm)) + number

SendMsi ==
    \E fn \in AllFunctions : \E number \in 0..MsiBlock :
       /\ fns[fn].msi >= 0 /\ number < 2^topo[fn[1]].fns[fn[2] + 1].msi
       /\ Request(fn, [type |-> "memw", addr |-> MsiAddr, req |-> SourceId(fn),
                       data |-> MsiData(fn, number)])

Forward ==
    /\ flight # <<>>
    /\ LET h == flight[1]
       IN  /\ flight' = NextHop(h)
           /\ trip' = IF h.dir # "for" THEN trip
                      ELSE IF h.pkt.type = "cpl"
                           THEN [trip EXCEPT !.answers = Append(@, <<h.at, h.pkt.status>>)]
                      ELSE IF h.at[1] = "rc" /\ ~RcHandles(h.pkt) THEN trip
                      ELSE [trip EXCEPT !.by = Append(@, h.at)]
    /\ UNCHANGED <<enumVars, phase>>

TripEnds ==
    /\ flight = <<>> /\ trip # NoTrip
    /\ trip' = NoTrip
    /\ UNCHANGED <<enumVars, phase, flight>>

Enumerate == EnumStart \/ EnumDevice \/ EnumFunction \/ EnumBridge \/ EnumNextDevice
                \/ EnumReturn \/ EnumDone
Traffic == SendMem \/ SendIo \/ SendMsi \/ Forward \/ TripEnds
TopoNext == Enumerate \/ Traffic
TopoSpec == TopoInit /\ [][TopoNext]_topoVars

-----------------------------------------------------------------------------
(* Properties *)

\* the traffic changes nothing of what enumeration left
Enumerated == phase = "route" /\ trip = NoTrip
Overlap(v, w) == v.lo <= w.hi /\ w.lo <= v.hi
RECURSIVE Above(_)
Above(n) == IF n = "rc" THEN {} ELSE {Parent(n)} \cup Above(Parent(n))
Windows(n) == [io |-> reg[n].io, mem |-> reg[n].mem, pref |-> reg[n].pref]
AllBars == {<<fn, i>> \in AllFunctions \X (1..6) : i \in DOMAIN Bars(fn)}
SpaceKind(b) == Bars(b[1])[b[2]].kind = "io"

(* Enumeration finds every bridge and every function exactly once, under an *)
(* id of its own, and with the final bus numbers a configuration access to  *)
(* that id still reaches it.                                                *)
EnumerationFindsAll ==
    Enumerated =>
       /\ \A fn \in AllFunctions \cup {<<n, 0>> : n \in Bridges \ {"rc"}} :
             Cardinality({t \in tree : t.fn = fn}) = 1
       /\ \A t, u \in tree : t.id = u.id => t = u
       /\ \A t \in tree : ConfigAccess(t.id) = {t.fn} /\ get_id(t.fn) = t.id

(* The BARs that enumeration allocates are aligned to their size and share  *)
(* no address, each lies in the windows of all the bridges above it, and in *)
(* no window of any other bridge.                                           *)
BarsInTheirWindows ==
    Enumerated =>
       \A b \in AllBars :
          LET w == BarWindow(b[1], b[2])
              s == Space(Bars(b[1])[b[2]])
          IN  /\ w.lo % (w.hi - w.lo + 1) = 0
              /\ \A c \in AllBars : SpaceKind(b) = SpaceKind(c) /\ b # c =>
                    ~Overlap(w, BarWindow(c[1], c[2]))
              /\ \A n \in Bridges : LET v == Windows(n)[s]
                                    IN  IF n \in Above(b[1][1]) THEN v.lo <= w.lo /\ w.hi <= v.hi
                                                                 ELSE ~Overlap(w, v)

(* Whoever sends a request, the function whose BAR holds the address (or    *)
(* the root complex, for its regions) and nobody else handles it, once, and *)
(* the requester and nobody else gets the answer: a successful completion   *)
(* when there is an owner; otherwise an unsupported request or, where a     *)
(* bridge drops the TLP, nothing.                                           *)
DeliveredToOwner ==
    (flight = <<>> /\ trip # NoTrip) =>
       LET p     == trip.pkt
           owner == {fn \in AllFunctions : match_bar(fn, p.addr, p.type = "io")}
                       \cup (IF RcHandles(p) THEN {<<"rc", 0>>} ELSE {})
       IN  /\ Cardinality(owner) <= 1
           /\ Range(trip.by) = owner /\ Len(trip.by) <= 1
           /\ p.type # "memw" /\ owner # {} => trip.answers = <<<<p.req, "SC">>>>
           /\ owner = {} => trip.answers \in {<<>>, <<<<p.req, "UR">>>>}

(* An interrupt of a function arrives at the root complex with a message    *)
(* number of the block configure_msi gave to that function, so no other     *)
(* function's signals toggle.                                               *)
MsiReachesOwner ==
    (flight = <<>> /\ trip # NoTrip /\ "data" \in DOMAIN trip.pkt) =>
       /\ trip.by = <<<<"rc", 0>>>>
       /\ trip.pkt.data < msi_msg_limit
       /\ {fn \in AllFunctions : fns[fn].msi >= 0 /\
              trip.pkt.data \in fns[fn].msi..(fns[fn].msi + MsiBlock - 1)} = {trip.pkt.req}
=============================================================================
