----------------------------- MODULE CellAlloc ------------------------------
(***************************************************************************)
(* rand_mem_alloc: the free list of the packet memory's cells.  Two ports  *)
(* give cells back, each through a FIFO; a register in front of the list   *)
(* takes, at each clock, one of them or the next cell of the initial fill. *)
(***************************************************************************)
EXTENDS AxisFifo, Integers

CONSTANTS
  CellNum,      \* CELL_NUM
  CellDepth,    \* words in cell_fifo's memory
  PortDepth     \* words in the memory of a port's FIFO (4 in the code)

ASSUME CellAllocAssumption ==
  /\ CellNum \in Nat \ {0}
  /\ CellDepth \in Nat /\ CellDepth >= CellNum
  /\ PortDepth \in Nat \ {0}

Cell == 0..(CellNum - 1)

VARIABLES
  free_port0_fifo,     \* cells of dropped packets
  free_port1_fifo,     \* cells the receive engine is done with
  s_cell_fifo,         \* register in front of cell_fifo
  cell_fifo,           \* the free list
  ini_count,           \* cells of the initial fill already taken
  valid_cell_counter   \* words in cell_fifo

cellVars == <<free_port0_fifo, free_port1_fifo, s_cell_fifo, cell_fifo,
              ini_count, valid_cell_counter>>

CellInit ==
  /\ free_port0_fifo = EmptyFifo(2)
  /\ free_port1_fifo = EmptyFifo(2)
  /\ s_cell_fifo = <<>>
  /\ cell_fifo = EmptyFifo(2)
  /\ ini_count = 0
  /\ valid_cell_counter = 0

s_cell_fifo_tready == TReady(cell_fifo, CellDepth)

(* Fault: the margin does not cover the free list's latency. *)
alloc_mem_intense_Late == valid_cell_counter <= 1

alloc_mem_intense == valid_cell_counter <= 3

alloc_mem_success(req) == TValid(cell_fifo) /\ req

free_port1_fifo_tready == s_cell_fifo_tready /\ TValid(free_port1_fifo)

free_port0_fifo_tready ==
  s_cell_fifo_tready /\ ~TValid(free_port1_fifo) /\ TValid(free_port0_fifo)

Filling == ini_count < CellNum /\ s_cell_fifo_tready

(* Fault: a cell that leaves as another arrives is not counted. *)
NextCounter_ArrivalWins(req) ==
  IF s_cell_fifo # <<>> /\ s_cell_fifo_tready THEN valid_cell_counter + 1
  ELSE IF alloc_mem_success(req) THEN valid_cell_counter - 1
  ELSE valid_cell_counter

NextCounter(req) ==
  valid_cell_counter
    + (IF s_cell_fifo # <<>> /\ s_cell_fifo_tready THEN 1 ELSE 0)
    - (IF alloc_mem_success(req) THEN 1 ELSE 0)

(* One clock edge: `req' is alloc_mem_req, `free0' and `free1' the cells   *)
(* offered at the two ports.  A port overrides the initial fill, which     *)
(* counts its cell all the same.                                           *)
CellClock(req, free0, free1) ==
  /\ free_port0_fifo' =
       Clock(free_port0_fifo, PortDepth, free0, free_port0_fifo_tready)
  /\ free_port1_fifo' =
       Clock(free_port1_fifo, PortDepth, free1, free_port1_fifo_tready)
  /\ cell_fifo' = Clock(cell_fifo, CellDepth, s_cell_fifo, alloc_mem_success(req))
  /\ s_cell_fifo' = IF free_port1_fifo_tready THEN <<TData(free_port1_fifo)>>
                    ELSE IF free_port0_fifo_tready THEN <<TData(free_port0_fifo)>>
                    ELSE IF Filling THEN <<ini_count>>
                    ELSE <<>>
  /\ ini_count' = IF Filling THEN ini_count + 1 ELSE ini_count
  /\ valid_cell_counter' = NextCounter(req)

CellTypeOK ==
  /\ IsFifo(free_port0_fifo, Cell, PortDepth, 2)
  /\ IsFifo(free_port1_fifo, Cell, PortDepth, 2)
  /\ s_cell_fifo \in Slot(Cell)
  /\ IsFifo(cell_fifo, Cell, CellDepth, 2)
  /\ ini_count \in 0..CellNum
  /\ valid_cell_counter \in Nat
=============================================================================
