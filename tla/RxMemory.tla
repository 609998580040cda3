------------------------------ MODULE RxMemory ------------------------------
(***************************************************************************)
(* The life of a memory cell: desc_gen's state machine takes one for each  *)
(* packet; the drop paths give it back at port 0 and the receive engine at *)
(* port 1.  The path between is the set of cells in use.                   *)
(***************************************************************************)
EXTENDS CellAlloc

VARIABLES
  parser_state,   \* desc_gen: between packets, or in the data of one
  in_use,         \* how many packets in the path use each cell
  lost,           \* history: the cells nothing will give back
  waited          \* history: clocks the cell at port 0's output has waited there

vars == <<cellVars, parser_state, in_use, lost, waited>>

Init ==
  /\ CellInit
  /\ parser_state = "PK_HEAD_STATE"
  /\ in_use = [c \in Cell |-> 0]
  /\ lost = {}
  /\ waited = 0

(* Fault: a cell may be taken at every clock, in the data of a packet too. *)
MayAlloc_EveryClock == ~alloc_mem_intense

(* desc_gen may take a cell for the packet whose header it sees. *)
MayAlloc == parser_state = "PK_HEAD_STATE" /\ ~alloc_mem_intense

(* The id desc_gen takes, without a look at alloc_mem_success: with no     *)
(* valid word it is what the output register last held.                    *)
alloc_cell_id == IF TValid(cell_fifo) THEN {TData(cell_fifo)} ELSE Cell

(* Packets that may be given back: a dropped one without a look at the     *)
(* port's ready, a delivered one with it, not the same at both ports.      *)
InUse == {c \in Cell : in_use[c] > 0}
Frees0 == {<<>>} \cup {<<c>> : c \in InUse}
Frees1 == IF TReady(free_port1_fifo, PortDepth) THEN Frees0 ELSE {<<>>}

Uses(alloc, free0, free1, c) ==
  in_use[c] + (IF alloc = <<c>> THEN 1 ELSE 0)
          - (IF free0 = <<c>> THEN 1 ELSE 0)
          - (IF free1 = <<c>> THEN 1 ELSE 0)

(* The two ways the code loses a cell: a drop meets a full port 0, and a   *)
(* cell that comes back takes the place of one of the initial fill.        *)
Losses(free0) ==
  {c \in Cell : \/ free0 = <<c>> /\ ~TReady(free_port0_fifo, PortDepth)
               \/ /\ c = ini_count /\ Filling
                  /\ free_port1_fifo_tready \/ free_port0_fifo_tready}

(* One clock edge; desc_gen holds a cell's packet for at least one clock   *)
(* of data before it looks at the next header.                             *)
Cycle(alloc, free0, free1, last) ==
  /\ CellClock(alloc # <<>>, free0, free1)
  /\ in_use' = [c \in Cell |-> Uses(alloc, free0, free1, c)]
  /\ lost' = lost \cup Losses(free0)
  /\ parser_state' = IF alloc # <<>> \/ (parser_state = "PK_DATA_STATE" /\ ~last)
                     THEN "PK_DATA_STATE" ELSE "PK_HEAD_STATE"
  /\ waited' = IF TValid(free_port0_fifo) /\ ~free_port0_fifo_tready THEN waited + 1 ELSE 0

Next ==
  \E alloc \in {<<>>} \cup {<<c>> : c \in alloc_cell_id},
     free0 \in Frees0, free1 \in Frees1, last \in BOOLEAN :
    /\ alloc # <<>> => MayAlloc
    /\ last => parser_state = "PK_DATA_STATE"
    /\ free0 # <<>> => free0 # free1
    /\ Cycle(alloc, free0, free1, last)

Spec == Init /\ [][Next]_vars

-----------------------------------------------------------------------------
TypeOK ==
  /\ CellTypeOK
  /\ parser_state \in {"PK_HEAD_STATE", "PK_DATA_STATE"}
  /\ in_use \in [Cell -> 0..2]
  /\ lost \subseteq Cell
  /\ waited \in Nat

(* How often c is in all the places where a cell can be. *)
Copies(c) ==
  InFifo(free_port0_fifo, c) + InFifo(free_port1_fifo, c) + InFifo(cell_fifo, c)
    + (IF s_cell_fifo = <<c>> THEN 1 ELSE 0)
    + (IF c >= ini_count THEN 1 ELSE 0)
    + in_use[c]

(* A cell is always in exactly one place, in use, on its way back, free or *)
(* not yet added by the initial fill, whatever frees meet at the two       *)
(* ports: two packets never share a cell, and none disappears but by a     *)
(* drop that meets a full port 0 or a free that meets the initial fill.    *)
CellsConserved ==
  \A c \in Cell : Copies(c) = IF c \in lost THEN 0 ELSE 1

(* desc_gen does not look at alloc_mem_success: the margin behind          *)
(* alloc_mem_intense covers the clocks a cell needs to reach the output of *)
(* the free list.                                                          *)
AllocationSucceeds == MayAlloc => TValid(cell_fifo)

(* The counter behind alloc_mem_intense is the length of the free list. *)
CounterIsExact == valid_cell_counter = Occupancy(cell_fifo)

(* A cell given back at port 0 returns to the free list although port 1 is *)
(* always served first and the receive engine may give cells back without  *)
(* a pause: each of them adds to the free list, from which desc_gen takes  *)
(* a cell at most every second clock, so port 0 is passed over no more     *)
(* than two times for each of the other cells.                             *)
DroppedReturns == waited <= 2 * CellNum - 1
=============================================================================
