----------------------------- MODULE ReduceTree -----------------------------
(***************************************************************************)
(* reduce_tree (find_min.v) with the decoder of CPU messages in            *)
(* desc_dispatch: the load of every core, as each priority sees it, and    *)
(* the choice of a core for every descriptor the PIFO pops.  A load grows  *)
(* when a descriptor is assigned, several clocks after it was read for the *)
(* choice, and shrinks when the core's feedback has passed two registers.  *)
(*                                                                         *)
(* The tree is the minimum over the cores with any choice among equals     *)
(* (random_reg), delayed by its registers.                                 *)
(***************************************************************************)
EXTENDS Descriptor, Integers, FiniteSets, FiniteSetsExt

CONSTANTS
  Core,          \* queues of the tree
  Enabled,       \* those that the driver uses (init_rx enables them)
  Conf,          \* Conf[a]: priority and factors register_app gives a
  Width,         \* REDUCE_TREE_PTR_WIDTH
  rank_upbound,
  MaxOut         \* bound: packets under way or at the cores

Factors == [prio : Prio, base : Nat, pree : Nat]

ASSUME ReduceTreeAssumption ==
  /\ 0 \in Prio
  /\ Enabled \subseteq Core
  /\ Conf \in [App -> Factors]
  /\ Width \in Nat
  /\ rank_upbound \in Nat

VARIABLES
  if_policy_find_min,          \* dispatch_policy_reg == 1; otherwise RSS
  prio_queue_length_ram,       \* [Prio -> [Core -> load]]
  prio_core_eligbility_mask,   \* [Prio -> SUBSET Core]
  app_core_mask,               \* [App -> SUBSET Core]
  conf,                        \* app_id_to_priority, _base_factor, _pree_factor
  app_regs,                    \* app_prio and app_mask, a clock behind
  app_eligbility_mask,
  popped,                      \* application on the PIFO's output
  line,                        \* line[i]: the request made i clocks ago
  inc,                         \* increment to be applied at this edge
  msg,                         \* decoded CPU message
  dec,                         \* decrement to be applied at this edge
  msg_rst,                     \* core to be reset at this edge
  up,                          \* history: cores that the driver has enabled
  held,                        \* history: packets of each core not given back
  owed                         \* history: what they weigh, as each priority sees it

treeVars == <<if_policy_find_min, prio_queue_length_ram, prio_core_eligbility_mask, app_core_mask, conf, app_regs,
              app_eligbility_mask, popped, line, inc, msg, dec, msg_rst, up, held, owed>>

(* Registers of the tree: two, and for find-min three of its levels. *)
Latency == IF if_policy_find_min THEN 5 ELSE 2
AllOnes == 2^Width - 1
NoConf  == [prio |-> 0, base |-> 0, pree |-> 0]

TreeInit ==
  /\ if_policy_find_min \in BOOLEAN
  /\ prio_queue_length_ram = [p \in Prio |-> [c \in Core |-> AllOnes]]
  /\ prio_core_eligbility_mask = [p \in Prio |-> {}]
  /\ app_core_mask = [a \in App |-> {}]
  /\ conf = [a \in App |-> NoConf]
  /\ app_regs = [a \in App |-> [prio |-> 0, cores |-> {}]]
  /\ app_eligbility_mask = {}
  /\ popped = <<>>
  /\ line = [i \in 1..Latency |-> <<>>]
  /\ inc = <<>>
  /\ msg = <<>>
  /\ dec = <<>>
  /\ msg_rst = <<>>
  /\ up = {}
  /\ held = [c \in Core |-> [a \in App |-> 0]]
  /\ owed = [p \in Prio |-> [c \in Core |-> 0]]

(* What one packet with configuration f adds to a load seen by priority p. *)
Weight(f, p) == IF f.prio >= p THEN f.base ELSE f.pree

(***************************************************************************)
(* The loads.  The code's branches (both, increment, decrement) come to    *)
(* one sum in the width of the register; a reset goes before them.         *)
(***************************************************************************)
Change(slot, p, c) ==
  IF slot # <<>> /\ slot[1].core = c THEN slot[1].n * Weight(slot[1].conf, p) ELSE 0

(* Fault: of an increment and a decrement at one edge the later wins. *)
NextLoad_DecWins(p, c) ==
  IF msg_rst = <<c>> THEN 0
  ELSE (prio_queue_length_ram[p][c]
        + (IF Change(dec, p, c) > 0 THEN 0 ELSE Change(inc, p, c))
        - Change(dec, p, c)) % 2^Width

NextLoad(p, c) ==
  IF msg_rst = <<c>> THEN 0
  ELSE (prio_queue_length_ram[p][c] + Change(inc, p, c) - Change(dec, p, c)) % 2^Width

Touched(c) ==
  \/ msg_rst = <<c>>
  \/ inc # <<>> /\ inc[1].core = c
  \/ dec # <<>> /\ dec[1].core = c

NextEligible(p) ==
  {c \in Core : IF msg_rst = <<c>> THEN TRUE
                ELSE IF Touched(c) THEN NextLoad(p, c) < rank_upbound
                ELSE c \in prio_core_eligbility_mask[p]}

(***************************************************************************)
(* The choice.  A core outside the application's mask counts as all ones.  *)
(***************************************************************************)
Load(a, c) ==
  IF c \in app_core_mask[a] THEN prio_queue_length_ram[conf[a].prio][c] ELSE AllOnes

Verdicts(a) ==
  IF if_policy_find_min
  THEN {[core |-> c, drop |-> FALSE] :
          c \in {d \in Core : \A e \in Core : Load(a, d) <= Load(a, e)}}
  ELSE {[core |-> c, drop |-> prio_queue_length_ram[conf[a].prio][c] >= rank_upbound] :
          c \in Core}

(* The request that becomes the increment at this edge. *)
Assigned ==
  IF if_policy_find_min THEN line[Latency - 1]
  ELSE IF line[Latency] # <<>> /\ ~line[Latency][1].drop THEN line[Latency]
  ELSE <<>>

(* The packet that leaves with its core at this edge. *)
Delivered(c, a) ==
  /\ line[Latency] # <<>>
  /\ ~line[Latency][1].drop
  /\ line[Latency][1].core = c
  /\ line[Latency][1].app = a

(***************************************************************************)
(* CPU messages, as the driver sends them: init_rx enables a queue once;   *)
(* then register_app, deregister_app and mqnic_rx_feedback.                *)
(***************************************************************************)
Messages ==
  {[type |-> "ENABLE_QUEUE", core |-> c, app |-> 0] : c \in Enabled \ up}
  \cup (IF up # Enabled THEN {}
        ELSE {[type |-> t, core |-> c, app |-> a] :
                t \in {"ACTIVATE_APP_THREAD", "DEACTIVATE_APP_THREAD"}, c \in up, a \in App})
  \cup {[type |-> "FEEDBACK_THREAD", core |-> m[1], app |-> m[2]] :
          m \in {n \in Core \X App : held[n[1]][n[2]] > 0}}

IsMsg(t) == msg # <<>> /\ msg[1].type = t

(* What a delivery, and a feedback message m, do to the weight at core c. *)
Gained(p, c) ==
  IF \E a \in App : Delivered(c, a) THEN Weight(Conf[line[Latency][1].app], p) ELSE 0
GivenBack(m, p, c) ==
  IF m # <<>> /\ m[1].type = "FEEDBACK_THREAD" /\ m[1].core = c
  THEN Weight(Conf[m[1].app], p) ELSE 0

(* One clock edge: `request' is the choice for the application on the      *)
(* PIFO's output, `pop' the application popped, `m' the message that the   *)
(* completion queue's register takes.                                      *)
TreeClock(request, pop, m) ==
  /\ UNCHANGED if_policy_find_min
  /\ prio_queue_length_ram' = [p \in Prio |-> [c \in Core |-> NextLoad(p, c)]]
  /\ prio_core_eligbility_mask' = [p \in Prio |-> NextEligible(p)]
  /\ app_core_mask' = [a \in App |->
       IF IsMsg("ACTIVATE_APP_THREAD") /\ msg[1].app = a
       THEN app_core_mask[a] \cup {msg[1].core}
       ELSE IF IsMsg("DEACTIVATE_APP_THREAD") /\ msg[1].app = a
       THEN app_core_mask[a] \ {msg[1].core}
       ELSE app_core_mask[a]]
  /\ conf' = [a \in App |->
       IF IsMsg("ACTIVATE_APP_THREAD") /\ msg[1].app = a THEN Conf[a] ELSE conf[a]]
  /\ app_regs' = [a \in App |-> [prio |-> conf[a].prio, cores |-> app_core_mask[a]]]
  /\ app_eligbility_mask' =
       {a \in App : prio_core_eligbility_mask[app_regs[a].prio] \cap app_regs[a].cores # {}}
  /\ popped' = pop
  /\ line' = [i \in 1..Latency |-> IF i > 1 THEN line[i-1] ELSE request]
  /\ inc' = IF Assigned = <<>> THEN <<>>
            ELSE <<[core |-> Assigned[1].core, n |-> 1, conf |-> conf[Assigned[1].app]]>>
  /\ dec' = IF ~IsMsg("FEEDBACK_THREAD") THEN <<>>
            ELSE <<[core |-> msg[1].core, n |-> 1, conf |-> conf[msg[1].app]]>>
  /\ msg_rst' = IF IsMsg("ENABLE_QUEUE") THEN <<msg[1].core>> ELSE <<>>
  /\ msg' = m
  /\ up' = IF m # <<>> /\ m[1].type = "ENABLE_QUEUE" THEN up \cup {m[1].core} ELSE up
  /\ held' = [c \in Core |-> [a \in App |->
       held[c][a]
       + (IF Delivered(c, a) THEN 1 ELSE 0)
       - (IF m = <<[type |-> "FEEDBACK_THREAD", core |-> c, app |-> a]>> THEN 1 ELSE 0)]]
  /\ owed' = [p \in Prio |-> [c \in Core |->
       owed[p][c] + Gained(p, c) - GivenBack(m, p, c)]]

Outstanding ==
  Cardinality({i \in 1..Latency : line[i] # <<>>})
  + MapThenSumSet(LAMBDA c : MapThenSumSet(LAMBDA a : held[c][a], App), Core)

(* pifo_warp pops an eligible application, never at two edges in a row. *)
TreeNext ==
  \E pop \in {<<>>} \cup {<<a>> : a \in {b \in app_eligbility_mask :
                                          popped = <<>> /\ Outstanding < MaxOut}},
     m \in {<<>>} \cup {<<n>> : n \in Messages},
     request \in IF popped = <<>> THEN {<<>>}
                 ELSE {<<[app |-> popped[1], core |-> d.core, drop |-> d.drop]>> :
                         d \in Verdicts(popped[1])} :
    TreeClock(request, pop, m)

TreeSpec == TreeInit /\ [][TreeNext]_treeVars

(* The load of an enabled core is the weight of the packets assigned to it *)
(* and not given back, but for the increment and the feedback still in a   *)
(* register: assignments and feedback that meet at one edge, and apps of   *)
(* two priorities, neither lose nor double a count.                        *)
LoadIsExact ==
  \A c \in up, p \in Prio :
    LET pending == Change(dec, p, c)
                   + (IF IsMsg("FEEDBACK_THREAD") /\ msg[1].core = c
                      THEN Weight(conf[msg[1].app], p) ELSE 0)
                   - (IF if_policy_find_min THEN 0 ELSE Change(inc, p, c))
    IN  \/ msg_rst = <<c>>
        \/ IsMsg("ENABLE_QUEUE") /\ msg[1].core = c
        \/ prio_queue_length_ram[p][c] = (owed[p][c] + pending) % 2^Width
=============================================================================
