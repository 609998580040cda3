------------------------------ MODULE AxisFifo ------------------------------
(***************************************************************************)
(* The stream FIFO axis_fifo, in the non-frame mode every RingLeader       *)
(* instance uses: a circular memory of `depth' words followed by a chain   *)
(* of output registers (PIPELINE_OUTPUT of them).                          *)
(*                                                                         *)
(* A slot is a register with its valid bit: <<>> when invalid, <<d>> when  *)
(* it holds d.  pipe[1] is the register next to the memory, the last one   *)
(* drives m_axis.  A FIFO is a record; its clock edge is an operator, so   *)
(* a component with many FIFOs keeps them as plain state.                  *)
(***************************************************************************)
EXTENDS Naturals, Sequences, FiniteSets

Slot(D) == {<<>>} \cup {<<d>> : d \in D}

(* Both pointers and every valid bit are cleared. *)
EmptyFifo(stages) == [mem |-> <<>>, pipe |-> [j \in 1..stages |-> <<>>]]

IsFifo(f, D, depth, stages) ==
  /\ f = [mem |-> f.mem, pipe |-> f.pipe]
  /\ f.mem \in Seq(D)
  /\ Len(f.mem) <= depth
  /\ f.pipe \in [1..stages -> Slot(D)]

(* s_axis_tready: the memory is not full, whatever the output does. *)
TReady(f, depth) == Len(f.mem) < depth

(* m_axis_tvalid and m_axis_tdata. *)
TValid(f) == f.pipe[Len(f.pipe)] # <<>>
TData(f)  == f.pipe[Len(f.pipe)][1]

(* Stage j takes a new value: the output is read, or there is a bubble at *)
(* stage j or beyond it.                                                  *)
Advances(f, j, tready) ==
  tready \/ \E k \in j..Len(f.pipe) : f.pipe[k] = <<>>

(* One clock edge with s_axis driven by the slot `in' and m_axis_tready    *)
(* by `tready'.  A word offered while the memory is full is not written.   *)
Clock(f, depth, in, tready) ==
  LET load == Advances(f, 1, tready) /\ f.mem # <<>>
  IN  [mem  |-> (IF load THEN Tail(f.mem) ELSE f.mem)
                  \o (IF TReady(f, depth) THEN in ELSE <<>>),
       pipe |-> [j \in DOMAIN f.pipe |->
                   IF ~Advances(f, j, tready) THEN f.pipe[j]
                   ELSE IF j > 1 THEN f.pipe[j-1]
                   ELSE IF load THEN <<Head(f.mem)>> ELSE <<>>]]

(* Words held, in the memory and in the output registers. *)
Occupancy(f) ==
  Len(f.mem) + Cardinality({j \in DOMAIN f.pipe : f.pipe[j] # <<>>})

(* How often the word w is among them. *)
InFifo(f, w) ==
  Cardinality({i \in DOMAIN f.mem : f.mem[i] = w})
    + Cardinality({j \in DOMAIN f.pipe : f.pipe[j] = <<w>>})
=============================================================================
