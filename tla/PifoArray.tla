------------------------------ MODULE PifoArray -----------------------------
(***************************************************************************)
(* pifo.sv: the PIFO as an array of NumPifo registers.  The position of an *)
(* insertion or removal is computed in one clock, from the array as it was *)
(* before the operations of the clock before, and applied in the next; the *)
(* index arithmetic corrects for every operation in flight.                *)
(***************************************************************************)
EXTENDS Descriptor, AxisFifo, Integers

CONSTANT NumPifo

(* There are more registers than applications (NUMPIFO is 16 and           *)
(* APP_ID_WIDTH 2, so 16 and 4), so the array is never full.               *)
ASSUME NumPifoAssumption ==
  /\ NumPifo \in Nat /\ NumPifo > 2
  /\ IsFiniteSet(App)
  /\ Cardinality(App) < NumPifo

VARIABLES
  arr,         \* pf_data and pf_prio
  pf_cnt,      \* elements in the array
  pop_del,     \* index popped at the last edge (pop_0_hit_del, pop_0_idx_del)
  push_1_del,  \* insertion computed at the last edge, with its two indices
  push_2_del

arrVars == <<arr, pf_cnt, pop_del, push_1_del, push_2_del>>

Idx == 0 .. NumPifo - 1
Wrap(i) == i % NumPifo
Bit(b) == IF b THEN 1 ELSE 0
First(S) == CHOOSE i \in S : \A j \in S : i <= j

(* Reset clears the count and leaves the array as it is.  A register past  *)
(* the count is only compared by its priority (PushBmp), so one            *)
(* application stands for all that a stale register may hold.              *)
ArrInit ==
  /\ \E prio \in [Idx -> Prio] :
       arr = [i \in Idx |-> [app |-> First(App), prio |-> prio[i]]]
  /\ pf_cnt = 0
  /\ pop_del = <<>>
  /\ push_1_del = <<>>
  /\ push_2_del = <<>>

(* The priority encoders yield all ones when no bit is set. *)
Encode(S) == IF S = {} THEN NumPifo - 1 ELSE First(S)

PopBmp(mask) == {i \in Idx : i < pf_cnt /\ arr[i].app \in mask}

PushBmp(e) == {i \in Idx : i = pf_cnt \/ arr[i].prio > e.prio}

(* An index once the element at `popped' is removed. *)
ShiftDown(popped, i) ==
  IF popped # <<>> /\ popped[1] < i THEN i - 1 ELSE i

AfterPop(i) == ShiftDown(pop_del, i)

(* The upper and the lower of a pair of insertions. *)
SecondIsUpper(p1, p2) ==
  p1 = <<>> \/ (p2 # <<>> /\ p2[1].el.prio < p1[1].el.prio)
Upper(p1, p2) == IF SecondIsUpper(p1, p2) THEN p2 ELSE p1
Lower(p1, p2) == IF p1 = <<>> \/ p2 = <<>> THEN <<>>
                 ELSE IF SecondIsUpper(p1, p2) THEN p1 ELSE p2

push_hi_del == Upper(push_1_del, push_2_del)
push_lo_del == Lower(push_1_del, push_2_del)

(* pop_0_idx, or <<>> when pop_0_hit is false. *)
PopIdx(pop, mask) ==
  LET tmp == AfterPop(Encode(PopBmp(mask)))
      idx == Wrap(tmp + Bit(push_1_del # <<>> /\ tmp >= push_1_del[1].raw)
                      + Bit(push_2_del # <<>> /\ tmp >= push_2_del[1].raw))
      hi  == /\ push_hi_del # <<>>
             /\ push_hi_del[1].el.app \in mask
             /\ PopBmp(mask) = {} \/ push_hi_del[1].raw <= tmp
  IN  IF ~pop THEN <<>>
      ELSE IF hi THEN <<push_hi_del[1].idx>>
      ELSE IF PopBmp(mask) # {} THEN <<idx>>
      ELSE <<>>

(* push_*_idx_raw: where e goes, among the operations of earlier clocks    *)
(* and the pop of this one.                                                *)
RawIdx(e, popped) ==
  LET i == AfterPop(Encode(PushBmp(e)))
      behind(d) == /\ d # <<>>
                   /\ \/ d[1].raw < i
                      \/ d[1].raw = i /\ d[1].el.prio <= e.prio
      k == Wrap(i + Bit(behind(push_1_del)) + Bit(behind(push_2_del)))
  IN  ShiftDown(popped, k)

(* The array after the operations in flight (pf_data_nxt, pf_prio_nxt). *)
PopShift(i) == pop_del # <<>> /\ pop_del[1] <= i
NextArr ==
  [v \in Idx |->
     LET lo_move  == push_lo_del # <<>> /\ v > push_lo_del[1].idx /\ v > 1
         hi_move  == push_hi_del # <<>> /\ v > push_hi_del[1].idx /\ v > 0
         shift_r1 == ~lo_move /\ ~hi_move /\ PopShift(v)
         shift_l1 == \/ lo_move /\ PopShift(v - 2)
                     \/ ~lo_move /\ hi_move /\ ~PopShift(v - 1)
         shift_l2 == lo_move /\ ~PopShift(v - 2)
     IN  IF push_1_del # <<>> /\ push_1_del[1].idx = v THEN push_1_del[1].el
         ELSE IF push_2_del # <<>> /\ push_2_del[1].idx = v THEN push_2_del[1].el
         ELSE IF shift_l2 THEN arr[v-2]
         ELSE IF shift_l1 THEN arr[v-1]
         ELSE IF shift_r1 THEN (IF v < NumPifo - 1 THEN arr[v+1]
                                ELSE [app |-> 0, prio |-> 0])
         ELSE arr[v]]

(* Fault: the element popped is still counted. *)
NextCnt_NoPop ==
  LET pre == pf_cnt + Len(push_1_del) + Len(push_2_del)
  IN  IF pre > NumPifo THEN NumPifo ELSE pre

(* pf_cnt_pre_align *)
NextCnt ==
  LET pre == pf_cnt - Len(pop_del) + Len(push_1_del) + Len(push_2_del)
  IN  IF pre > NumPifo THEN NumPifo ELSE pre

(* One clock edge. *)
ArrClock(pop, p1, p2, mask) ==
  LET popped == PopIdx(pop, mask)
      both   == p1 # <<>> /\ p2 # <<>>
      second == both /\ p2[1].prio < p1[1].prio
      entry(p, after) ==
        IF p = <<>> THEN <<>>
        ELSE LET raw == RawIdx(p[1], popped)
             IN <<[el |-> p[1], raw |-> raw, idx |-> Wrap(raw + Bit(after))]>>
  IN  /\ arr' = NextArr
      /\ pf_cnt' = NextCnt
      /\ pop_del' = popped
      /\ push_1_del' = entry(p1, second)
      /\ push_2_del' = entry(p2, both /\ ~second)

(***************************************************************************)
(* The list the array stands for: the array with the pending operations    *)
(* applied.                                                                *)
(***************************************************************************)
List == INSTANCE PifoList WITH
  pf      <- [k \in 1..NextCnt |-> NextArr[k-1]],
  push_lo <- IF push_lo_del = <<>> THEN <<>> ELSE <<push_lo_del[1].el.app>>,
  ovld_0  <- IF pop_del = <<>> THEN <<>> ELSE <<arr[pop_del[1]]>>

ArrNext ==
  \E pop \in BOOLEAN, p1, p2 \in Slot(Desc) :
    /\ List!Discipline(pop, p1, p2)
    /\ \E mask \in List!Masks(pop) : ArrClock(pop, p1, p2, mask)

ArrSpec == ArrInit /\ [][ArrNext]_arrVars

(* Every clock of the register array is a clock of the list: whatever      *)
(* insertions and removals are in flight, the index corrections of pifo.sv *)
(* put an element where the list puts it and pop the one the list pops.    *)
ArrayIsList == List!ListSpec

=============================================================================
