# RingLeader NIC: a TLA+ verification project

RingLeader is a NIC that schedules the packets of several applications and
balances them over the cores of a server in hardware. It is built on the
Corundum NIC; the repository also holds a user-space driver with a sample
application, and the Python models of PCIe, AXI, AXI-Stream and Ethernet
against which the hardware is simulated.

This directory holds TLA+ modules that model the receive scheduler and its
packet memory, the driver, and the simulation models; TLC configurations that
check them on small instances; and TLAPS proofs of the main results for every
instance. `PROJECT.json` lists the components, the runs, the properties with
the fault each of them detects, the source lines behind each definition, the
hazards, the findings and the theorems.

Paths are relative to the repository's sources; `ringleader/` stands for
`hardware/fpga/common/rtl/ringleader/`, `pcie/tb/` for
`hardware/fpga/lib/pcie/tb/`, and so on for `axi/tb/` and `eth/tb/`.

## 1. The system

### 1.1 The receive path (RTL)

A packet arrives at the descriptor generator, which takes a memory cell, writes
the packet there and offers a descriptor (application, priority, cell) to the
queue manager. The queue manager drops it when the application's queue is full
(and frees the cell) or stores it. The handler of an application with a stored
descriptor asks the PIFO, through an arbiter, to schedule the application. The
PIFO wrapper pops the most urgent application that has an eligible core, when
the dispatcher is ready, asks the queue manager for that application's
descriptor, and re-inserts the application unless its queue was found empty.
The dispatcher keeps the descriptor in a FIFO while the reduce tree looks for
the least loaded core, and hands both to the receive engine; under the RSS
policy the result may be to drop it. Cores send feedback messages that lower
their load.

Everything runs on one clock. What makes it hard is that each part works with
registered, hence slightly old, information about the others: the pop looks at
the dispatcher's ready one clock before the request it leads to; an insertion
is suppressed on a flag that the same edge may clear; the dispatcher pairs a
result with a descriptor by timing alone; the PIFO computes an index while two
operations that shift the array are still in flight.

### 1.2 The user-space driver (C)

One poll thread receives a batch into a work ring, works, sends feedback and
transmits. Driver and NIC share descriptor rings and completion rings, and the
driver bypasses the NIC's pointer registers: it recognises a completion by its
length and counts its own tail pointers.

### 1.3 The simulation models (Python)

`pcie.py` is a PCIe hierarchy: a root complex, root ports, switches and
multi-function devices that exchange transaction layer packets over ports.
`pcie_us.py`, `pcie_usp.py` put the UltraScale cores' AXI streams behind such a
device, `pcie_if.py` a vendor-neutral segmented interface and a test device
with DMA. `mqnic.py` is the NIC's driver on top: event, completion, transmit
and receive rings, an interrupt handler. `axi.py`, `axil.py`, `axis_ep.py` are
bus masters, memories, sources and sinks; `eth/tb/` the endpoints of the
Ethernet interfaces. These models are concurrent programs: generators and
coroutines that give way at a delay, a clock edge, a signal or a queue, and
share tags, queues, credits and ring pointers.

## 2. Modules

| Module | Models | A step is |
|---|---|---|
| `AxisFifo` | `axis_fifo.v` outside frame mode | a record with operators, so that a component keeps its FIFOs as plain state |
| `Descriptor` | `RL_DESC_*`: application and priority | |
| `QueueManager` | `ringleader/pifo_queue_manager.v`, `arbiter.v` | `QMClock`: an edge |
| `PifoList` | what the PIFO promises: a sorted list | `ListClock`; `Discipline` is how it must be driven |
| `PifoArray` | `ringleader/pifo.sv`, register by register | `ArrClock`; implements `PifoList` under `Discipline` |
| `PifoWarp` | `ringleader/pifo_warp.v` over the list | `WarpClock` |
| `Dispatch` | `ringleader/desc_dispatch.v`, the tree as a delay line | `DispClock` |
| `ReduceTree` | `ringleader/find_min.v` and the decoder of CPU messages: loads, eligibility, choice, feedback | `TreeClock` |
| `RxScheduler`, `RxFairness` | `ringleader/ringleader.v`: queue manager, PIFO and dispatcher together; the same with fairness | `Cycle` conjoins the three edges |
| `CellAlloc` | `ringleader/rand_mem_alloc.v` | `CellClock` |
| `RxMemory` | `ringleader/desc_gen.v`'s state machine and the users of cells around `CellAlloc` | an edge |
| `RlDriver` | `driver/mqnic.c`, `memory.c`, `ixy-throughput.c`: one poll thread and the NIC's side of the rings | a loop body of the thread; a descriptor of the NIC |
| `Tlp` | `pcie.py` packets: addresses, byte enables, splits, `check` | operators only |
| `PcieMem` | `pcie.py` requesters and completers of root complex and endpoints: memory, IO and configuration operations, tags, completion queues, time-outs | from one `yield` to the next |
| `PciePort`, `PcieLink` | `pcie.py` `Port`; the ordered lossless link it implements | a call of `send`, a stage of `transmit` |
| `PcieTopo` | `pcie.py` bridges, switches, devices: `enumerate`, then routing of requests, completions and MSI | a configuration access; a hop |
| `PcieConfig` | `pcie.py` configuration headers and capability lists, the capability moves of `pcie_us.py`, `pcie_usp.py` | a registration, a register write |
| `UsTlp`, `UsStream` | `pcie_us.py` packet formats; the eight stream sources and sinks | an edge |
| `UsDevice` | `pcie_us.py`, `pcie_usp.py` device logic: completer and requester queues, credits, sequence numbers, MSI, reset | a packet, or an edge |
| `IfStream` | `pcie_if.py` segmented source and sink | a coroutine's turn, an edge |
| `IfDevice` | `pcie_if.py` device and test device: DMA, BARs, tags, time-outs | from one `await` to the next |
| `Mqnic` | `mqnic.py` rings, `open`, `close`, `interrupt`, `start_xmit`, and the NIC's queues | from one register access to the next |
| `AxiBus`, `Axi`, `Axil` | `axi.py`, `axil.py` master and memory | an edge |
| `AxisEp` | `axis_ep.py` frames, source, sink | an edge |
| `EthEp` | `xgmii_ep.py`, `baser_serdes_ep.py`, `gmii_ep.py`, `mii_ep.py`, `rgmii_ep.py` | an enabled edge |
| `MCRxParts`, `MCRxScheduler`, `MCRxFairness`, `MCRxMemory`, `MCPcie`, `MCPcieLinks`, `MCPcieDevices`, `MCHost` | instances for TLC | |
| `AxisFifoProofs`, `PifoListProofs`, `PifoArrayProofs`, `RxSchedulerProofs`, `RxAccountsProofs`, `PciePortProofs`, `MqnicHandlerProofs`, `MqnicProofs` | proofs (section 5) | |

**Hardware.** A component is a module with its registers as variables and an
operator for its edge; a combinational output is an operator over the
registers. A composition conjoins the edges of its components and feeds each
the outputs of the others, so all parts step together, and the nondeterminism
is in the inputs (arrivals, priorities, eligibility mask, readiness of the
receive engine, drop verdicts, messages). A register with a valid bit is a
*slot*: `<<>>` when invalid, `<<d>>` otherwise.

**Python and C.** A step runs from one point at which the code gives way to the
next. The kernels that schedule generators and coroutines (MyHDL, cocotb) are
outside the repository; the modules use what the code relies on: processes
woken by a signal run before the next event, and one step is never interrupted.
Pauses, resets, time-outs and the order in which packets of different links
meet are nondeterministic.

**Abstractions.** A descriptor has no length, cell, hash or timestamp. The
comparators of the reduce tree are a choice of a least loaded eligible core
after the tree's latency. In `RxMemory` the path between allocation and free is
a multiset of cells, from which a packet may be given back at any clock: more
orders than the pipeline has. When the free list has no valid output the
allocated id is any cell, because `desc_gen` takes it without looking at
`alloc_mem_success`. The drop path of a full PIFO is left out: it
needs more than 8 elements, and `PifoHoldsEachAppOnce` bounds its content by the
number of applications, 4. In the Python parts packet payloads are small bytes or
positions; a dword of the UltraScale formats is the set of its one bits, so the
conversions are computed bit by bit; the 4 KiB boundary, the read completion
boundary and the window granules are constants, small in the runs.

Definitions with a suffix after an underscore, most of them marked *Fault* or
*A plausible slip*, are plausible mistakes in the definition that follows them;
each is shown to break a property.

## 3. Runs

Modules `MCRxParts`, `MCPcie`, `MCPcieLinks`, `MCPcieDevices` and `MCHost` put
several parts that share no state into one specification: a variable `unit`
names the part a behaviour is about, the others stay in their initial states. A
property there is that of the part, evaluated where the part was chosen.

| Run | What it shows |
|---|---|
| `rx_parts` | `ArrayIsList`: the PIFO's register array, from any content, implements the list. `LoadIsExact`: a core's load is what it was assigned and has not given back. `BuffersAreCounted`: reference counts of the driver's packet buffers, and that it takes none of its error exits |
| `scheduler_safety` | `NoLostWakeup`, `PifoHoldsEachAppOnce`, `PoppedIsRequested`, `OccupancyIsExact`, `PifoUsedAsList` of the composed scheduler, and of the dispatcher in it, under RSS, `ResultMeetsItsDescriptor` and `CreditIsOccupancy` |
| `scheduler_liveness` | `StoredIsServed`: a stored packet of an application that stays eligible is handed over |
| `free_mux` | violated: `EveryDropIsFreed` (section 6) |
| `memory` | `AllocationSucceeds`, `CounterIsExact`; `CellsConserved`: a cell is in one place, and is lost in two ways only; `DroppedReturns`: a cell at port 0 waits a bounded time |
| `pcie` | `AssertionsHold`, `MemoryIsExact`, `CompletionsAreAligned` of reads and writes over packets; `EnumerationIsSound`, `PacketsReachOwner` of hierarchies; `CapabilitiesFound`, `WriteReadsBack` of configuration spaces |
| `function_read` | violated: `AssertionsHold` (section 6) |
| `pcie_links` | `TagsAreSound`, `OperationsEnd` with late completions and time-outs; `ImplementsLink`, `EverythingArrives` of a port; `IfDelivery` of the segmented stream |
| `pcie_devices` | `StreamsAreLossless` of all streams; `NonPostedPaid`, `CompleterOrder`, `OneOutcome` of the UltraScale devices; `DmaIsExact`, `HostIsServed` of the generic one |
| `host` | `BuffersAreOwned`, `NoForgottenCompletion`, `RingsKeepOrder` of `mqnic.py`; `ReadsAreFresh`, `IdleMeansDone` of AXI and AXI-Lite; `StreamIsKept` of AXI-Stream; `EthernetIsKept` of the Ethernet endpoints |
| `driver_close` | violated: `FreesAreValid` (section 6) |
| `axil_position` | violated: `AxilWritesLand` (section 6) |

`PifoUsedAsList` closes the argument about the PIFO: the scheduler drives the
list only as `Discipline` allows, and under `Discipline` the array implements
the list. In the same way `PcieMem` takes a link to be a FIFO, which `PciePort`
implements, and `UsDevice`, `IfDevice` take a stream to be a queue, which
`UsStream` and `IfStream` show.

### 3.1 Bounds

- Scheduler: two applications with queue sizes 2 and 3, so both drop and
  neither fills with the other; 2 credits for safety under RSS, 1 for liveness
  under find-min. One priority, since order by priority is the array's subject:
  there, 3 applications and 2 priorities in 4 registers give a pop, two
  insertions in flight and two arriving, with ties. The
  dispatcher's two properties are checked under RSS, where it also drops; the
  proofs cover both policies and every depth.
- `ReduceTree`: two cores, one application (find-min), or two applications of
  different priority and a core that is never enabled (RSS); 4-bit loads and at
  most 3 or 2 packets outstanding, so loads pass `rank_upbound`.
- `RlDriver`: rings of two entries whose pointers wrap at four, five buffers:
  every ring fills, the pool runs empty.
- `RxMemory`: 13 cells with the code's port depth of 4, so that port 0 fills
  while port 1 is busy, cells come back during the initial fill, and port 1 keeps
  port 0 waiting for many clocks. TLC tells states apart by the number of cells
  in each place (`VIEW CellsByPlace`): the cells in use and in the FIFOs are
  interchangeable, no guard and no property looks at which they are, and as long
  as each is in one place, which `CellsConserved` checks in every state found, two
  states with the same numbers differ by a renaming of cells.
- `PcieMem`: boundaries of 32 and 8 bytes, requests of at most 16 bytes and
  payloads of 8; operations across, up to and beside each boundary, and at
  addresses that nobody owns. Two operations at once, one of the root complex
  and one of the function, for data. For tags and progress two processes of the
  root complex with three tags and a time-out, and two endpoints, of which one
  may answer late: an operation of three requests to the other brings the tags
  round while the first request is under way.
- `PcieTopo`: five hierarchies of up to four levels, with two switches in a row,
  a device of two functions, BARs of all kinds and of sizes that leave gaps; then
  one request or interrupt at a time between all pairs and to all addresses.
- `PcieConfig`: the two FPGA families' capability places in three orders each,
  and a bridge; to every register, after it was set or cleared, a write of five
  patterns that tell any two bits apart under three byte masks that tell any two
  bytes apart (`Writes`).
- `UsStream`: four streams at 64, 256 and 512 bits, two frames that end within,
  at and after a beat. `UsDevice`: three packets, a credit limit of 2. `IfStream`:
  one or two segments, four frames. `IfDevice`: two DMA processes with two tags,
  or host operations beside them; one time-out, of a memory or an IO operation,
  whose tag is given again before its completion arrives.
- `Mqnic`: rings of two entries with pointers modulo four, so that five
  transmitted packets take the pointers past their range; at most 3 packets
  received and 0 transmitted, 2 and 1, 1 and 2, or 0 and 5 (`Workloads`); `close`
  at any time. One queue of each kind: queues share the
  handler, which serves events one by one, and the pool.
- `Axi`, `Axil`: a bus of two bytes, two commands of all burst types, empty,
  narrow, unaligned, across a page and, over AXI-Lite, up to the end of the
  memory; five combinations of pauses. `AxisEp`:
  three frames of one or two beats with and without side channels.
- `EthEp`: eleven links; frames that end in every lane, with and without an
  error, any number of them back to back with any idle time between.

`MaxOps`, `MaxTraffic`, `MaxGrants`, `MaxMsi`, `MaxFrames`, `MaxSent`,
`MaxTimeouts`, `MaxOut`, `MaxRx`, `MaxTx`, `Workloads`, `Writes`, `MaxAxiCommands`,
`MaxAxilCommands` and `MaxAxisFrames` bound how often the environment acts; no guard of a handler depends
on them. Where they run out the model stops, so those runs do not check for deadlock; the
receive-path runs do.

### 3.2 Fairness

- `RxFairness`: the clock ticks, and infinitely often at an edge at which the
  receive engine is ready. `rx_engine` raises its ready whenever an entry of its
  descriptor table is free, and entries are freed by DMA completions, so an
  engine that stays busy for ever is a failed host. The watched application has
  an eligible core whenever an application is popped; the code promises nothing
  to one that has none. With unequal priorities a less urgent application may
  wait for ever by design, so the run has one priority.
- `PciePort`, `PcieMem`: weak fairness of every step that a simulation kernel
  runs at a finite delay: stages of `transmit`, arrivals, resumed processes.
  Calls of `send` and of operations are not fair. A time-out is not fair
  either: operations end without its help.
- `IfStream`: the coroutines run when they can, and the sides are infinitely
  often not paused at an edge at which ready is high.

## 4. What the properties say of the hard cases

- *Tags of `pcie.py`* (`TagsAreSound`): `get_free_tag` looks for a tag with an empty
  completion queue, which a request under way also has. It does give such a tag
  again, and then two requests share it; the property says when: not before all
  other tags were given in between, less those lost to time-outs (`lap`). Until
  then a completion that a process may take is its own, and a tag is lost only
  to the late completion of a request that timed out, which stays in its queue.
- *Tags of `pcie_if.py`* (`DmaIsExact`, `HostIsServed`): an IO operation that times out
  releases its tag before its completion has come, and the operation that gets the
  tag next takes it: wrong bytes, or a failed assertion, and its own completion is
  late in turn. `late` records the requests whose tag was released too early, and
  the properties show that nothing else brings a completion to an operation it
  does not answer; in particular a memory read that timed out, which keeps its
  tag for good, does no harm.
- *Waiting at port 0* (`DroppedReturns`): `rand_mem_alloc` serves port 1 first, and
  its sender need not pause. Each cell from port 1 lengthens the free list, and
  `desc_gen` takes a cell at most every second clock, so port 0 is passed over at
  most `2 * CellNum - 1` times in a row.
- *Configuration writes* (`WriteReadsBack`): the read and the write methods place the
  fields independently, and the model has a table for each. A write changes what
  it should and nothing else, over all registers, but for one bit (section 6).
- *Progress without a lock* (`OperationsEnd`, `EverythingArrives`,
  `NoForgottenCompletion`): `recv_cpl` waits for a toggling signal and looks at the
  queue afterwards; `send` sets `tx_scheduled` after it has started `transmit`;
  `process_rx_cq` handles one completion per event. Each is safe for a reason
  outside the function: the kernel's order, and that arming a queue with
  content gives an event.
- *Order* (`CompleterOrder`, `ImplementsLink`, `RingsKeepOrder`): who may overtake
  whom, over credits, resets and wrapping pointers.
- *Exactness of data* (`MemoryIsExact`, `DmaIsExact`, `ReadsAreFresh`,
  `StreamsAreLossless`, `EthernetIsKept`): a read returns bytes that were there
  when it was called or were written since; a frame arrives once and whole; the
  gaps between Ethernet frames are short of at most three idle bytes over all
  of them together; the 10GBASE-R code is inverted by its decoder, but for ordered
  sets in lane 0 (section 6). For AXI-Lite the two properties hold as long as no
  read moved the memory's position under a write (`astray`).
- *One outcome* (`OneOutcome`, `HostIsServed`): a request is with the user logic, on
  its way there, or answered by the device; none is lost or answered twice.
- *Conservation* (`CellsConserved`, `CreditIsOccupancy`, `LoadIsExact`,
  `BuffersAreCounted`, `BuffersAreOwned`): every cell, credit, packet and buffer is
  counted in one place.

`CellsConserved` names the only two ways the RTL loses a cell: a drop is offered
to port 0 while its FIFO is full (nobody looks at its ready), and a cell that
comes back during the initial fill takes the place of the cell the fill adds at
that clock. Both happen in `memory`. The first takes, at the code's
depth, seven drops while port 1 is busy; whether the receive path can produce
them would need the composition with the receive engine.

## 5. Proofs

All proofs are for every value of the constants that the modules' `ASSUME`s
admit. What these ask is what the code has:

- `NumPifoAssumption`: the PIFO has more registers than there are applications
  (`desc_sche_pifo.v` sets 16, `APP_ID_WIDTH` gives 4), so the array never fills.
- `PifoWarpAssumption`: at most 8 applications; the wrapper drops only above.
  `DispatchAssumption`: the credits fit `out_fifo` and the 8-bit counter.
  `QueueManagerAssumption`: a queue fits its 10-bit counter.
- `CellAllocAssumption`: the free list's memory has room for every cell.
- `ReduceTreeAssumption`: every application has factors, some cores are enabled
  at start-up.
- `EventRingAssumption`: the event ring has room for four events per queue index
  and is smaller than the range of its pointers (`mqnic.py` has 1024 entries, at
  most 4 rings of a kind and 16-bit pointers).

`AxisFifoProofs` holds the lemmas about FIFOs: an edge of a FIFO of any depth with
one or two output registers preserves its type (`ClockType`), changes its
occupancy by what is written and read (`ClockOne`, `ClockTwo`), keeps its words
in order (`ClockOneOrder`), and keeps the number of times each word occurs in it.
What these lemmas need of finite sets, and the least element of a set of
numbers, are hypotheses named `SetsCount` and `LeastExists`; the modules that
state theorems discharge them from the library (lemmas `Counted`, `NatMin`).

`RxSchedulerProofs`, the dispatcher: `DispTypeCorrect`, `CreditCorrect`
(`CreditIsOccupancy`) and `ResultCorrect` (`ResultMeetsItsDescriptor`), for both
policies, all depths and credits. Neither property is inductive. `DispInv` adds
that the requests in the tree are the descriptors in `in_find_min_fifo` (the
request in stage *i* is the word at position `Rank(tree, i)`, the number of
requests at least as old), and that a request older than one clock has a valid
word at the FIFO's output: the FIFO needs two clocks from input to output and the
tree never less. `out_fifo` has room because every descriptor in it or on the way
to it holds a credit.

`RxSchedulerProofs`, the scheduler: `TypeCorrect`, `WakeupCorrect`
(`NoLostWakeup`), `PifoOnceCorrect` (`PifoHoldsEachAppOnce`), `RequestCorrect`
(`PoppedIsRequested`), `OccupancyCorrect` (`OccupancyIsExact`),
`UsedAsListCorrect` (`PifoUsedAsList`), and the dispatcher's two properties in the
composition (`CreditInScheduler`, `ResultInScheduler`). They rest on `SchedInv`:
the flag `if_pifo_enqueued` is membership in the PIFO or in its pipeline; an
outstanding handler has its application there; a popped application finds the
dispatcher ready, because ready can only fall by an accept and a pop is never
followed by a second one at the next clock; each counter is its FIFO's content,
because the drop decision refuses what would overflow either. Without these a
handler wrongly outstanding or a flag wrongly clear breaks the properties a few
clocks later. `PifoListProofs` has what an edge does to the list's applications.

`PifoArrayProofs`: `ArrayImplementsList` (`ArrayIsList`), every edge of the
register array is an edge of the list. The refinement mapping reads the list off
the registers as they will be after the operations in flight. `ArrInv` says that
the registers are sorted and that each insertion in flight was computed for them
as they are once the pop in flight is done (`Layout`): its position is the number
of elements that go before it, and the lower of two insertions is shifted by one.
Lemmas on ranks show that a position computed from the old registers and
corrected for the pop and both insertions is the position in the new list
(`RawRank`), that applying a removal and two insertions at once is applying them
in turn (`ArrayMerged`), and that the first eligible register is the element the
list pops (`PopIsFirst`). Together with `UsedAsListCorrect` this carries the
scheduler's properties, proved over the list, to the array.

`RxAccountsProofs`, the cells: `CounterCorrect` (`CounterIsExact`),
`AllocationCorrect` (`AllocationSucceeds`) and `CellsCorrect` (`CellsConserved`),
for any number of cells and any depths. `MemInv` adds `NoGap`: the free list's
memory holds a second word only when both output registers are full, so a list of
three words or more has a valid output; `alloc_mem_intense` leaves one more. For
conservation the step to argue is the word in `s_cell_fifo`, a register that is
overwritten at every edge: the memory always takes it, because by conservation
itself the list's words are distinct cells other than that one, fewer than
`CellNum` (`RegisterIsTaken`).

`RxAccountsProofs`, the wait: `DroppedReturnsCorrect` (`DroppedReturns`), from the same
invariants. While port 0 waits, every clock moves a cell from port 1 to the free
list, and the generator's state machine lets at most every second clock take one
from it; so half the wait, the state of the parser included, is bounded by the
cells in the list and in `s_cell_fifo`, which by conservation are fewer than
`CellNum`, since one is waiting.

`RxAccountsProofs`, the loads: `LoadCorrect` (`LoadIsExact`), for any cores,
applications, priorities, factors and register width. The load follows the
assignments with a delay, and by the factors the application has when the
message arrives. `TreeInv` therefore adds that the factors of an application with a
core, a request or a packet are known and never change (`FactorsKnown`), that
nothing is assigned while a queue is still being enabled (`Idle`), which would set
its load to zero, and that under find-min the increment is that of the request
which leaves at this edge (`MinInStep`).

`MqnicHandlerProofs`, `MqnicProofs`: `NothingForgotten` (`NoForgottenCompletion`),
for any number of queues, ring sizes, traffic and interleaving of `open`, the
handler, transmission and the NIC, up to a call of `close`. `HostInv` numbers the
events in the order in which they were raised: every completion queue that `open`
has armed is armed now or has exactly one event that the handler is not done with
(`CqInv`). So no more than two events per queue index are pending, the ring never
drops one, its wrapping pointers tell full from empty, and the event the handler
is at is the one it will arm (`EqInv`). The first module has an action of the
driver per lemma and the arithmetic of wrapping pointers; the second the NIC, `open`
and the theorem.

`PciePortProofs`: `PortIsInOrder`, that at most one transmit runs before the link
delay and that the packets received, on the wire, in serialisation and in the
queue are, in this order, those sent; and `PortImplementsLink`, the refinement of
`PcieLink` (`ImplementsLink`), for any set of packets and any number of sends. The
invariant `PortInv` joins the two: order alone is not inductive, because a second
transmit at work would overtake, and that there is at most one follows only from
what `tx_scheduled` records together with the queue. The proof keeps the packets
under way as one sequence (`Flight`) from whose ends `send` appends and `ext_recv`
takes, so that the stages in between leave it unchanged.

Only model-checked:

- Liveness under fairness (`StoredIsServed`, `OperationsEnd`,
  `EverythingArrives`, `IfDelivery`): the prover has no rules for ENABLED.
- `TagsAreSound`: within reach, but it needs an invariant about the cyclic order of
  all tags, the requests under way and the tags that the search skips; not proved.
- `RingsKeepOrder` and the properties of packets, hierarchies, streams and
  Ethernet codes: their definitions filter, fold or recurse over data, and what a
  recursive definition computes for every input is out of the prover's reach.
- `BuffersAreOwned`, `BuffersAreCounted`, `AssertionsHold`, `WriteReadsBack` and the
  other invariants of the Python and C parts: within reach in part, and not
  proved. The first two need an invariant over every slot of every ring at each
  step of handler, `open` and `close`, or of the poll thread.

## 6. Findings

- `free_mux`. The comment at `ringleader/ringleader.v:150` says that the free
  requests of the two drop sources need no ready. The multiplexer forwards the
  queue manager's and discards the dispatcher's when both are raised at one
  edge, and nothing repeats it: that cell is lost to the allocator.
- `driver_close`. `process_tx_cq` in `mqnic.py` frees a descriptor and moves
  `clean_tail_ptr` only after it has read the ring's tail over the bus. A `close`
  in between starts at the old `clean_tail_ptr`, frees the slot again and passes
  `None` to `free_pkt`, which asserts that it is not (`mqnic.py:1163`).
- `function_read`. `Function.mem_read` in `pcie.py` builds each request with the
  length of the whole operation, where the root complex uses that of the part:
  for a read longer than one request the first completion fails the assertion on
  its byte count (`pcie.py:2014`). The passing runs keep a function's reads within
  one request.
- `axil_position`. `AXILiteRam.write_logic` in `axil.py` seeks to the address of a
  write and waits for its data; `read_logic` seeks in the same file. A read served
  in between moves the position, and the data are written where the read ended,
  or past the end of the memory, which raises an exception. `test_axil.py:242`
  asserts that the memory is what was written; it has no read under way then.

Smaller things met while modelling, which the models reproduce or which limit
what they cover:

- `pcie.py`: `check` tests `0 > length > 1024`, which is never true; an
  unroutable posted write is answered with a completion; the automatic placement
  of a capability may start one register too early to see a neighbour;
  `read_completion_boundary` is written from bit 4 and read at bit 3 (so stated in
  `WriteReadsBack`); a bridge's register 15 cannot be written (left out);
  the root complex's IO operations on its own regions look at the memory regions.
- `pcie_us.py`: the error code of an unexpected completion is set under another
  name than the one packed; aperture and completion boundary are those of the
  first function. `pcie_usp.py`: an MSI-X request raises the sent flag of MSI.
- `pcie_if.py`: after a time-out `dma_io_read` and `dma_io_write` release the tag
  with the completion under way, `dma_mem_read` never releases it (section 4); a beat on the bus at reset is lost.
- `mqnic.py`: `start_xmit` does not look whether the ring is full (the model's
  caller does); `close` awaits a method that is no coroutine, which ends it after
  the first ring, as the action `close` has it. When `free_buf` has moved
  `clean_tail_ptr` past the tail that a handler is about to read, the handler's loop
  over the ring does not end: the model's handler stops there.
- `axi.py`: narrow FIXED bursts move over the lanes; `axil.py`: an empty aligned
  read queues an address and waits for no answer (not among the commands);
  `axis_ep.py`: a `last_cycle_user` of 0 counts as unset when built and as a
  value when compared; an empty frame cannot be built.
- `eth/tb/`: `baser_serdes_ep.py` encodes an ordered set in lane 0 with the control
  codes of the upper lanes four bits away from where the decoder, and the comment
  at `BLOCK_TYPE_OS_0` (`C7 C6 C5 C4 O0 D3 D2 D1 BT`), have them: it comes out as
  a sequence ordered set with its three data bytes and four errors, as
  `CodecIsExact` says. An error within a block makes the whole block errors, so the
  frame ends there.
- The NIC of `RlDriver` drops a completion for which the completion ring has no room,
  as `cpl_queue_manager.v` and `cpl_write.v` do; it completes receive descriptors in
  any order and transmissions in ring order, which `mqnic.c` asks of it.
- RTL: a core given to an application between its pop and its request being
  deregistered may be any core; the load of a disabled core, all ones, wraps when
  incremented; no bound on how far a load passes `rank_upbound` holds while
  registrations change.

## 7. Not modelled

- The CPU message `DISABLE_QUEUE` (`desc_dispatch.v`, `find_min.v`): neither the driver
  nor a test bench sends it. Feedback of more than a core was given is left out of
  `ReduceTree` for the same reason.
- `head_parser.v`, a combinational match, and the length, hash and checksum
  FIFOs of `desc_gen.v`: no control of their own beyond values that are inputs here.
- `perf_monitor.v` and the message FIFOs towards the CPU: nothing in the repository
  acts on the hints, so there is no promise to state; two defects of its counters
  are listed among the hazards.
- `rx_engine.v` beyond its free port, the transmit engine, the rest of Corundum's
  RTL, kernel module and board files: upstream code; `Mqnic` and `RlDriver` model
  the NIC from the driver's side.
- A reset of the receive path while it runs: it is reset once, before traffic. The
  Python endpoints are reset at any time.
- Driver set-up, PCI, VFIO and interrupt access, statistics: I/O without state of
  the protocol. Register discovery and the scheduler and port registers of
  `mqnic.py`: straight-line reads and writes.
- PCIe message packets (no sender in the repository), region callbacks, the
  MSI-X table; the configuration and interrupt pins of the UltraScale models,
  which copy values between signals.
- `eth_ep.py`, `arp_ep.py`, `ip_ep.py`, `udp_ep.py`, `ptp.py`, `ll_ep.py`, the DMA RAM
  models, the generators of Verilog wrappers: data formats and templates
  without control beyond `AxisEp`. `lib/pcie/tb/axi.py` is the file that is
  modelled, byte for byte; the other copies are earlier states of modelled files.
- Scrambler and bit reversal of 10GBASE-R, frames with control characters of
  their own, irregular clock enables over RGMII (the DDR registers then repeat a
  half).
- Demikernel: third-party runtime.
