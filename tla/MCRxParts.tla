----------------------------- MODULE MCRxParts ------------------------------
(***************************************************************************)
(* Small instances of the parts of the receive path that are checked by    *)
(* themselves: the PIFO's register array (PifoArray), the reduce tree      *)
(* under either policy (ReduceTree), and a poll thread on the user-space   *)
(* driver (RlDriver).  The parts share no state; a behaviour is of the     *)
(* part chosen in its first state, and the others stay as they were reset. *)
(***************************************************************************)
EXTENDS PifoArray, ReduceTree, RlDriver

VARIABLE unit    \* the part chosen

partVars == <<unit, arrVars, treeVars, rlVars>>

(***************************************************************************)
(* ReduceTree: applications of two priorities.  Under find-min one of them *)
(* is registered, on two cores; under RSS two are, on one core, which the  *)
(* hash of all their packets selects.                                      *)
(***************************************************************************)
MCConf == [a \in App |-> [prio |-> a \div 2, base |-> 2, pree |-> 1]]
Threads == IF if_policy_find_min THEN {0, 1} \X {1} ELSE {0} \X {1, 2}

(***************************************************************************)
(* RlDriver: rings of two entries whose pointers wrap at four, and as many *)
(* buffers as the rings and the work ring can hold (RxParts.cfg).          *)
(***************************************************************************)
PartsInit ==
  /\ unit \in {"pifo", "tree", "driver"}
  /\ ArrInit
  /\ unit # "pifo" => \A i, j \in Idx : arr[i] = arr[j]
  /\ TreeInit
  /\ unit # "tree" => if_policy_find_min
  /\ RlInit

PifoStep == unit = "pifo" /\ ArrNext /\ UNCHANGED <<treeVars, rlVars>>
TreeStep ==
  /\ unit = "tree"
  /\ TreeNext
  /\ msg' # <<>> => msg'[1].type = "ENABLE_QUEUE" \/ <<msg'[1].core, msg'[1].app>> \in Threads
  /\ ~if_policy_find_min => \A i \in DOMAIN line'[1] : line'[1][i].core = 0
  /\ UNCHANGED <<arrVars, rlVars>>
DriverStep == unit = "driver" /\ RlNext /\ UNCHANGED <<arrVars, treeVars>>

PartsNext == UNCHANGED unit /\ (PifoStep \/ TreeStep \/ DriverStep)
PartsSpec == PartsInit /\ [][PartsNext]_partVars
=============================================================================
