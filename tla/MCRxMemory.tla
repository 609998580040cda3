----------------------------- MODULE MCRxMemory -----------------------------
(***************************************************************************)
(* RxMemory with enough cells to fill port 0, to keep port 1 busy for many *)
(* clocks and to give cells back while the initial fill runs.  Cells that  *)
(* the fill has taken are interchangeable, and each is in one place, so    *)
(* two states with the same number of cells in every place differ by a     *)
(* renaming of cells, of which the invariants take no notice: TLC tells    *)
(* states apart by those numbers only.                                     *)
(***************************************************************************)
EXTENDS RxMemory

Held(f) == <<Len(f.mem), {j \in DOMAIN f.pipe : f.pipe[j] # <<>>}>>

CellsByPlace ==
  <<Held(free_port0_fifo), Held(free_port1_fifo), Held(cell_fifo), Len(s_cell_fifo),
    ini_count, valid_cell_counter, parser_state, waited, Cardinality(lost),
    {<<n, Cardinality({c \in Cell : in_use[c] = n})>> : n \in 1..2}>>
=============================================================================
