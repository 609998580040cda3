------------------------------ MODULE PifoList ------------------------------
(***************************************************************************)
(* What the push-in-first-out queue promises pifo_warp: a list kept in     *)
(* order of urgency, two insertions and one removal per clock.  PifoArray  *)
(* is the register file of pifo.sv that implements it.                     *)
(***************************************************************************)
EXTENDS Descriptor, AxisFifo

VARIABLES
  pf,         \* scheduled applications, most urgent first
  push_lo,    \* the lower of two elements inserted at the last edge
  ovld_0      \* the element popped at the last edge, now on odout_0

listVars == <<pf, push_lo, ovld_0>>

ListInit == pf = <<>> /\ push_lo = <<>> /\ ovld_0 = <<>>

(* A list with e in front of its i-th element, and without that element. *)
InsertAt(s, i, e) == SubSeq(s, 1, i - 1) \o <<e>> \o SubSeq(s, i, Len(s))
RemoveAt(s, i)    == SubSeq(s, 1, i - 1) \o SubSeq(s, i + 1, Len(s))

(* An element goes in front of the first that is strictly less urgent. *)
PushIdx(s, e) ==
  CHOOSE i \in 1..(Len(s) + 1) :
    /\ \A j \in 1..(i - 1) : s[j].prio <= e.prio
    /\ i <= Len(s) => s[i].prio > e.prio

Push(s, slot) ==
  IF slot = <<>> THEN s ELSE InsertAt(s, PushIdx(s, slot[1]), slot[1])

(* Of two insertions at one edge only the upper one is seen by a pop at    *)
(* the next (the push_lo case is commented out in pifo.sv).                *)
Poppable(mask) ==
  {i \in DOMAIN pf : pf[i].app \in mask /\ push_lo # <<pf[i].app>>}

(* One clock edge: pop the first eligible element, insert p1, then p2. *)
ListClock(pop, p1, p2, mask) ==
  /\ \/ /\ pop
        /\ \E i \in Poppable(mask) :
             /\ \A j \in Poppable(mask) : i <= j
             /\ ovld_0' = <<pf[i]>>
             /\ pf' = Push(Push(RemoveAt(pf, i), p1), p2)
     \/ /\ ~pop \/ Poppable(mask) = {}
        /\ ovld_0' = <<>>
        /\ pf' = Push(Push(pf, p1), p2)
  /\ push_lo' = IF p1 = <<>> \/ p2 = <<>> THEN <<>>
                ELSE IF p2[1].prio < p1[1].prio THEN <<p1[1].app>>
                ELSE <<p2[1].app>>

(* How pifo_warp drives the queue: no pop while an element is on the       *)
(* output, only that element is re-inserted, and an application that is    *)
(* in the queue or on its output is not inserted anew.                     *)
Discipline(pop, p1, p2) ==
  /\ pop => ovld_0 = <<>>
  /\ p2 \in {<<>>, ovld_0}
  /\ p1 # <<>> =>
       /\ \A i \in DOMAIN pf : pf[i].app # p1[1].app
       /\ ovld_0 # <<>> => ovld_0[1].app # p1[1].app

(* The eligibility mask matters to a pop only. *)
Masks(pop) == IF pop THEN SUBSET App ELSE {{}}

ListNext ==
  \E pop \in BOOLEAN, p1, p2 \in Slot(Desc) :
    /\ Discipline(pop, p1, p2)
    /\ \E mask \in Masks(pop) : ListClock(pop, p1, p2, mask)

ListSpec == ListInit /\ [][ListNext]_listVars
=============================================================================
