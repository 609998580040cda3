-------------------------- MODULE RxAccountsProofs --------------------------
(***************************************************************************)
(* The accounts that the receive path keeps are exact: the cells of the    *)
(* packet memory, for any number of cells and any depths of the FIFOs, and *)
(* the loads of the reduce tree, for any cores, applications, priorities,  *)
(* factors and width of the load registers.                                *)
(***************************************************************************)
EXTENDS RxMemory, ReduceTree, TLAPS

(* Leaves may take longer than the default limit among so many facts. *)
USE SMTT(30)

(***************************************************************************)
(* Remainders.                                                             *)
(***************************************************************************)

(* A remainder is a residue (the registers of the loads never exceed their *)
(* width).                                                                 *)
LEMMA ModRange ==
  ASSUME NEW M \in Nat \ {0}, NEW z \in Int
  PROVE  z % M \in 0..(M - 1)
OBVIOUS

(* An integer is a multiple of M and its remainder. *)
LEMMA ModDiv ==
  ASSUME NEW M \in Nat \ {0}, NEW z \in Int
  PROVE  \E q \in Int : z = q * M + (z % M)
<1>1. z = (z \div M) * M + (z % M) /\ (z \div M) \in Int
  OBVIOUS
<1> QED  BY ZenonT(20), <1>1

(* The remainder is the only residue that differs by a multiple of M. *)
LEMMA ModUnique ==
  ASSUME NEW M \in Nat \ {0}, NEW z \in Int, NEW q \in Int, NEW r \in 0..(M - 1),
         z = q * M + r
  PROVE  z % M = r
<1>1. PICK k \in Int : z = k * M + (z % M)
  BY ZenonT(20), ModDiv
<1> DEFINE s == z % M
<1>2. s \in 0..(M - 1)
  BY ModRange
<1>3. z = k * M + s
  BY <1>1
<1> HIDE DEF s
<1>4. PICK d \in Int : d = q - k
  OBVIOUS
<1>5. d * M = q * M - k * M
  BY <1>4
<1>6. d * M = s - r
  BY <1>2, <1>3, <1>5
<1>7. CASE d >= 1
  BY <1>2, <1>6, <1>7
<1>8. CASE d <= -1
  BY <1>2, <1>6, <1>8
<1>9. CASE d = 0
  BY <1>2, <1>6, <1>9 DEF s
<1>10. d >= 1 \/ d <= -1 \/ d = 0
  BY <1>4
<1> QED  BY <1>7, <1>8, <1>9, <1>10

(* A sum may be reduced before or after a term is added: NextLoad adds to  *)
(* a register that has wrapped.                                            *)
LEMMA ModShift ==
  ASSUME NEW M \in Nat \ {0}, NEW z \in Int, NEW d \in Int
  PROVE  ((z % M) + d) % M = (z + d) % M
<1> DEFINE e == z % M
           y == e + d
           f == y % M
<1>1. PICK q \in Int : z = q * M + e
  BY ZenonT(20), ModDiv
<1>2. e \in Int /\ y \in Int
  BY ModRange
<1> HIDE DEF y
<1>3. PICK k \in Int : y = k * M + f
  BY ZenonT(20), <1>2, ModDiv
<1>4. f \in 0..(M - 1)
  BY <1>2, ModRange
<1>5. y = e + d
  BY DEF y
<1> HIDE DEF e, f
<1>6. (q + k) * M = q * M + k * M
  OBVIOUS
<1>7. z + d = (q + k) * M + f
  BY <1>1, <1>2, <1>3, <1>4, <1>5, <1>6
<1>8. z + d \in Int /\ q + k \in Int
  OBVIOUS
<1>9. (z + d) % M = f
  BY ZenonT(20), <1>4, <1>7, <1>8, ModUnique
<1> QED  BY <1>9 DEF y, e, f

(***************************************************************************)
(* The inductive invariant of the reduce tree.                             *)
(***************************************************************************)
Option(S) == {<<>>} \cup {<<x>> : x \in S}
Request   == [app : App, core : Core, drop : BOOLEAN]
Delta     == [core : Core, n : {1}, conf : Factors]
CpuMsg    == [type : {"ENABLE_QUEUE", "ACTIVATE_APP_THREAD", "DEACTIVATE_APP_THREAD",
                      "FEEDBACK_THREAD"},
              core : Core, app : Nat]

(* The types, and that a message other than an enable names an application. *)
TreeType ==
  /\ 2^Width \in Nat \ {0}
  /\ if_policy_find_min \in BOOLEAN
  /\ prio_queue_length_ram \in [Prio -> [Core -> Int]]
  /\ app_core_mask \in [App -> SUBSET Core]
  /\ conf \in [App -> Factors]
  /\ app_regs \in [App -> [prio : Prio, cores : SUBSET Core]]
  /\ app_eligbility_mask \subseteq App
  /\ popped \in Option(App)
  /\ line \in [1..Latency -> Option(Request)]
  /\ inc \in Option(Delta)
  /\ dec \in Option(Delta)
  /\ msg \in Option(CpuMsg)
  /\ msg # <<>> => msg[1].type = "ENABLE_QUEUE" \/ msg[1].app \in App
  /\ msg_rst \in Option(Core)
  /\ up \subseteq Enabled
  /\ held \in [Core -> [App -> Nat]]
  /\ owed \in [Prio -> [Core -> Int]]

(* While a queue is still to be enabled, or an enable is in a register, no *)
(* application has a core and no packet has been assigned.                 *)
Starting == up # Enabled \/ IsMsg("ENABLE_QUEUE") \/ msg_rst # <<>>
Idle ==
  /\ \A a \in App : app_core_mask[a] = {} /\ app_regs[a].cores = {}
  /\ app_eligbility_mask = {}
  /\ popped = <<>>
  /\ \A i \in 1..Latency : line[i] = <<>>
  /\ inc = <<>>
  /\ dec = <<>>
  /\ ~IsMsg("FEEDBACK_THREAD")
  /\ \A c \in Core, a \in App : held[c][a] = 0
  /\ \A p \in Prio, c \in Core : owed[p][c] = 0

(* The factors of an application that has had a core, a request or a       *)
(* packet are those that register_app gave it, and do not change again.    *)
Known(a) == conf[a] = Conf[a]
FactorsKnown ==
  /\ \A a \in App : app_core_mask[a] # {} => Known(a)
  /\ \A a \in App : app_regs[a].cores # {} => Known(a)
  /\ \A a \in app_eligbility_mask : Known(a)
  /\ popped # <<>> => Known(popped[1])
  /\ \A i \in 1..Latency : line[i] # <<>> => Known(line[i][1].app)
  /\ \A c \in Core, a \in App : held[c][a] > 0 => Known(a)
  /\ IsMsg("FEEDBACK_THREAD") => Known(msg[1].app)

(* Under find-min nothing is dropped and the increment is that of the      *)
(* request which leaves at this edge.                                      *)
Increment(r) ==
  IF r = <<>> THEN <<>>
  ELSE <<[core |-> r[1].core, n |-> 1, conf |-> Conf[r[1].app]]>>
MinInStep ==
  if_policy_find_min =>
    /\ \A i \in 1..Latency : line[i] # <<>> => ~line[i][1].drop
    /\ inc = Increment(line[Latency])

TreeInv ==
  /\ TreeType
  /\ IsMsg("ACTIVATE_APP_THREAD") => up = Enabled
  /\ Starting => Idle
  /\ FactorsKnown
  /\ MinInStep
  /\ LoadIsExact

(***************************************************************************)
(* Types.                                                                  *)
(***************************************************************************)

(* The registers are cleared by reset and no queue is enabled. *)
LEMMA TreeInitInv ==
  ASSUME TreeInit, 2^Width \in Nat \ {0}
  PROVE  TreeInv
<1> USE DescriptorAssumption, ReduceTreeAssumption
<1>1. TreeType
  <2>1. 2^Width \in Int
    OBVIOUS
  <2>2. prio_queue_length_ram \in [Prio -> [Core -> Int]]
    BY <2>1 DEF TreeInit, AllOnes
  <2>3. conf \in [App -> Factors]
    BY DEF TreeInit, NoConf, Factors
  <2>4. line \in [1..Latency -> Option(Request)]
    BY DEF TreeInit, Option
  <2>5. held \in [Core -> [App -> Nat]] /\ owed \in [Prio -> [Core -> Int]]
    BY DEF TreeInit
  <2> QED  BY Zenon, <2>2, <2>3, <2>4, <2>5 DEF TreeInit, TreeType, Option
<1>2. Idle
  BY DEF TreeInit, Idle, IsMsg
<1>3. FactorsKnown /\ MinInStep
  BY <1>2 DEF TreeInit, Idle, FactorsKnown, MinInStep, Increment, Latency
<1>4. LoadIsExact
  BY Zenon DEF TreeInit, LoadIsExact
<1> QED  BY <1>1, <1>2, <1>3, <1>4 DEF TreeInv, TreeInit, IsMsg

(* What TreeNext may offer a clock edge. *)
Inputs(request, pop, m) ==
  /\ pop \in Option(App)
  /\ pop # <<>> => pop[1] \in app_eligbility_mask
  /\ m \in Option(CpuMsg)
  /\ m # <<>> => m[1] \in Messages
  /\ request \in Option(Request)
  /\ request # <<>> => /\ popped # <<>>
                       /\ request[1].app = popped[1]
                       /\ if_policy_find_min => ~request[1].drop

(* Every message is one of the four, and names an application or enables. *)
LEMMA MessageType ==
  ASSUME TreeType, NEW n \in Messages
  PROVE  /\ n \in CpuMsg
         /\ n.type = "ENABLE_QUEUE" => n.core \in Enabled \ up
         /\ n.type = "ACTIVATE_APP_THREAD" => up = Enabled
         /\ n.type = "FEEDBACK_THREAD" => n.app \in App /\ held[n.core][n.app] > 0
         /\ n.type = "ENABLE_QUEUE" \/ n.app \in App
<1> USE DescriptorAssumption, ReduceTreeAssumption DEF CpuMsg
<1>1. CASE \E c \in Enabled \ up : n = [type |-> "ENABLE_QUEUE", core |-> c, app |-> 0]
  BY <1>1
<1>2. CASE /\ up = Enabled
           /\ \E t \in {"ACTIVATE_APP_THREAD", "DEACTIVATE_APP_THREAD"}, c \in up, a \in App :
                n = [type |-> t, core |-> c, app |-> a]
  <2>1. PICK t \in {"ACTIVATE_APP_THREAD", "DEACTIVATE_APP_THREAD"}, c \in up, a \in App :
          n = [type |-> t, core |-> c, app |-> a]
    BY <1>2
  <2>2. c \in Core /\ a \in Nat
    BY Zenon DEF TreeType
  <2>3. n.type = t /\ n.core = c /\ n.app = a
    BY <2>1
  <2>4. n.type # "ENABLE_QUEUE" /\ n.type # "FEEDBACK_THREAD"
    BY <2>3
  <2>5. n \in CpuMsg
    BY Zenon, <2>1, <2>2
  <2> QED  BY Zenon, <1>2, <2>3, <2>4, <2>5
<1>3. CASE \E k \in Core \X App : /\ held[k[1]][k[2]] > 0
                                  /\ n = [type |-> "FEEDBACK_THREAD", core |-> k[1], app |-> k[2]]
  <2>1. PICK k \in Core \X App : /\ held[k[1]][k[2]] > 0
                                 /\ n = [type |-> "FEEDBACK_THREAD", core |-> k[1], app |-> k[2]]
    BY Zenon, <1>3
  <2>2. n.type = "FEEDBACK_THREAD" /\ n.core = k[1] /\ n.app = k[2]
    BY Zenon, <2>1
  <2>3. k[1] \in Core /\ k[2] \in App /\ k[2] \in Nat
    BY ZenonT(20)
  <2>4. n \in CpuMsg
    BY Zenon, <2>1, <2>3
  <2> QED  BY Zenon, <2>1, <2>2, <2>3, <2>4
<1> QED  BY <1>1, <1>2, <1>3 DEF Messages

(* The choices of TreeNext are of this kind. *)
LEMMA NextInputs ==
  ASSUME TreeType, TreeNext
  PROVE  \E request, pop, m : Inputs(request, pop, m) /\ TreeClock(request, pop, m)
<1>1. PICK pop \in {<<>>} \cup {<<a>> : a \in {b \in app_eligbility_mask :
                                          popped = <<>> /\ Outstanding < MaxOut}},
           m \in {<<>>} \cup {<<n>> : n \in Messages},
           request \in IF popped = <<>> THEN {<<>>}
                       ELSE {<<[app |-> popped[1], core |-> d.core, drop |-> d.drop]>> :
                               d \in Verdicts(popped[1])} :
        TreeClock(request, pop, m)
  BY DEF TreeNext
<1>2. pop \in Option(App) /\ (pop # <<>> => pop[1] \in app_eligbility_mask)
  BY DEF TreeType, Option
<1>3. m \in Option(CpuMsg) /\ (m # <<>> => m[1] \in Messages)
  <2>1. CASE m = <<>>
    BY <2>1 DEF Option
  <2>2. CASE m # <<>>
    <3>1. PICK n \in Messages : m = <<n>>
      BY <2>2
    <3>2. n \in CpuMsg
      BY MessageType
    <3> QED  BY <3>1, <3>2 DEF Option
  <2> QED  BY <2>1, <2>2
<1>4. /\ request \in Option(Request)
      /\ request # <<>> => /\ popped # <<>>
                           /\ request[1].app = popped[1]
                           /\ if_policy_find_min => ~request[1].drop
  <2>1. CASE request = <<>>
    BY <2>1 DEF Option
  <2>2. CASE request # <<>>
    <3>1. popped # <<>>
      BY <2>2
    <3>2. PICK a \in App : popped = <<a>>
      BY <3>1 DEF TreeType, Option
    <3>3. PICK d \in Verdicts(a) : request = <<[app |-> a, core |-> d.core, drop |-> d.drop]>>
      BY <3>1, <3>2
    <3>4. d.core \in Core /\ d.drop \in BOOLEAN /\ (if_policy_find_min => ~d.drop)
      <4>1. CASE if_policy_find_min
        <5>1. PICK c \in Core : d = [core |-> c, drop |-> FALSE]
          BY <4>1 DEF Verdicts
        <5>2. d.core = c /\ d.drop = FALSE
          BY <5>1
        <5> QED  BY ZenonT(20), <5>2
      <4>2. CASE ~if_policy_find_min
        <5>1. PICK c \in Core : d = [core |-> c,
                 drop |-> prio_queue_length_ram[conf[a].prio][c] >= rank_upbound]
          BY Zenon, <4>2 DEF Verdicts
        <5>2. prio_queue_length_ram[conf[a].prio][c] \in Int
          BY DEF TreeType, Factors
        <5>3. (prio_queue_length_ram[conf[a].prio][c] >= rank_upbound) \in BOOLEAN
          BY <5>2, ReduceTreeAssumption
        <5>4. d.core = c /\ d.drop = (prio_queue_length_ram[conf[a].prio][c] >= rank_upbound)
          BY Zenon, <5>1
        <5> QED  BY <4>2, <5>3, <5>4, Zenon
      <4> QED  BY <4>1, <4>2
    <3> QED  BY <3>1, <3>2, <3>3, <3>4 DEF Option, Request
  <2> QED  BY <2>1, <2>2
<1> QED  BY <1>1, <1>2, <1>3, <1>4 DEF Inputs
(* Weights and changes are natural numbers. *)
LEMMA ChangeType ==
  /\ \A p \in Prio, f \in Factors : Weight(f, p) \in Nat
  /\ \A slot \in Option(Delta), p \in Prio, c \in Core : Change(slot, p, c) \in Nat
<1> USE DescriptorAssumption
<1>1. \A p \in Prio, f \in Factors : Weight(f, p) \in Nat
  BY DEF Weight, Factors
<1>2. ASSUME NEW slot \in Option(Delta), NEW p \in Prio, NEW c \in Core
      PROVE  Change(slot, p, c) \in Nat
  <2>1. CASE slot = <<>>
    BY <2>1 DEF Change
  <2>2. CASE slot # <<>>
    <3>1. PICK x \in Delta : slot = <<x>>
      BY <2>2 DEF Option
    <3>2. x.n = 1 /\ x.conf \in Factors
      BY DEF Delta
    <3>3. Weight(x.conf, p) \in Nat
      BY <1>1, <3>2
    <3> QED  BY <3>1, <3>2, <3>3 DEF Change
  <2> QED  BY <2>1, <2>2
<1> QED  BY <1>1, <1>2

(***************************************************************************)
(* What a clock edge does to each group of registers.                      *)
(***************************************************************************)
LEMMA EdgeLoads ==
  ASSUME NEW request, NEW pop, NEW m, TreeClock(request, pop, m)
  PROVE  /\ prio_queue_length_ram' = [p \in Prio |-> [c \in Core |-> NextLoad(p, c)]]
         /\ prio_core_eligbility_mask' = [p \in Prio |-> NextEligible(p)]
BY Zenon DEF TreeClock

LEMMA EdgeMasks ==
  ASSUME NEW request, NEW pop, NEW m, TreeClock(request, pop, m)
  PROVE  /\ app_core_mask' = [a \in App |->
              IF IsMsg("ACTIVATE_APP_THREAD") /\ msg[1].app = a
              THEN app_core_mask[a] \cup {msg[1].core}
              ELSE IF IsMsg("DEACTIVATE_APP_THREAD") /\ msg[1].app = a
              THEN app_core_mask[a] \ {msg[1].core}
              ELSE app_core_mask[a]]
         /\ conf' = [a \in App |->
              IF IsMsg("ACTIVATE_APP_THREAD") /\ msg[1].app = a THEN Conf[a] ELSE conf[a]]
BY Zenon DEF TreeClock

LEMMA EdgeRegs ==
  ASSUME NEW request, NEW pop, NEW m, TreeClock(request, pop, m)
  PROVE  /\ app_regs' = [a \in App |-> [prio |-> conf[a].prio, cores |-> app_core_mask[a]]]
         /\ app_eligbility_mask' =
              {a \in App : prio_core_eligbility_mask[app_regs[a].prio] \cap app_regs[a].cores # {}}
BY Zenon DEF TreeClock

LEMMA EdgeLine ==
  ASSUME NEW request, NEW pop, NEW m, TreeClock(request, pop, m)
  PROVE  /\ if_policy_find_min' = if_policy_find_min
         /\ popped' = pop
         /\ line' = [i \in 1..Latency |-> IF i > 1 THEN line[i-1] ELSE request]
         /\ Latency' = Latency
BY Zenon DEF TreeClock, Latency

LEMMA EdgeChange ==
  ASSUME NEW request, NEW pop, NEW m, TreeClock(request, pop, m)
  PROVE  /\ inc' = IF Assigned = <<>> THEN <<>>
                   ELSE <<[core |-> Assigned[1].core, n |-> 1, conf |-> conf[Assigned[1].app]]>>
         /\ dec' = IF ~IsMsg("FEEDBACK_THREAD") THEN <<>>
                   ELSE <<[core |-> msg[1].core, n |-> 1, conf |-> conf[msg[1].app]]>>
BY Zenon DEF TreeClock

LEMMA EdgeMessage ==
  ASSUME NEW request, NEW pop, NEW m, TreeClock(request, pop, m)
  PROVE  /\ msg_rst' = IF IsMsg("ENABLE_QUEUE") THEN <<msg[1].core>> ELSE <<>>
         /\ msg' = m
         /\ up' = IF m # <<>> /\ m[1].type = "ENABLE_QUEUE" THEN up \cup {m[1].core} ELSE up
BY Zenon DEF TreeClock

LEMMA EdgeHeld ==
  ASSUME NEW request, NEW pop, NEW m, TreeClock(request, pop, m)
  PROVE  held' = [c \in Core |-> [a \in App |->
              held[c][a]
              + (IF Delivered(c, a) THEN 1 ELSE 0)
              - (IF m = <<[type |-> "FEEDBACK_THREAD", core |-> c, app |-> a]>> THEN 1 ELSE 0)]]
BY Zenon DEF TreeClock

LEMMA EdgeOwed ==
  ASSUME NEW request, NEW pop, NEW m, TreeClock(request, pop, m)
  PROVE  owed' = [p \in Prio |-> [c \in Core |->
              owed[p][c] + Gained(p, c) - GivenBack(m, p, c)]]
BY Zenon DEF TreeClock

(* The same, entry by entry. *)
LEMMA EdgeMasksAt ==
  ASSUME NEW request, NEW pop, NEW m, TreeClock(request, pop, m)
  PROVE  /\ app_core_mask' = [a \in App |-> app_core_mask'[a]]
         /\ conf' = [a \in App |-> conf'[a]]
         /\ \A a \in App : conf'[a] = IF IsMsg("ACTIVATE_APP_THREAD") /\ msg[1].app = a
                                      THEN Conf[a] ELSE conf[a]
         /\ \A a \in App : app_core_mask'[a] =
              IF IsMsg("ACTIVATE_APP_THREAD") /\ msg[1].app = a
              THEN app_core_mask[a] \cup {msg[1].core}
              ELSE IF IsMsg("DEACTIVATE_APP_THREAD") /\ msg[1].app = a
              THEN app_core_mask[a] \ {msg[1].core}
              ELSE app_core_mask[a]
BY Zenon DEF TreeClock

LEMMA EdgeRegsAt ==
  ASSUME NEW request, NEW pop, NEW m, TreeClock(request, pop, m)
  PROVE  \A a \in App : app_regs'[a] = [prio |-> conf[a].prio, cores |-> app_core_mask[a]]
BY Zenon DEF TreeClock

LEMMA EdgeLineAt ==
  ASSUME NEW request, NEW pop, NEW m, TreeClock(request, pop, m)
  PROVE  /\ line' = [i \in 1..Latency |-> line'[i]]
         /\ \A i \in 1..Latency : line'[i] = IF i > 1 THEN line[i-1] ELSE request
BY Zenon DEF TreeClock

LEMMA EdgeOwedAt ==
  ASSUME NEW request, NEW pop, NEW m, TreeClock(request, pop, m)
  PROVE  \A p \in Prio, c \in Core :
           owed'[p][c] = owed[p][c] + Gained(p, c) - GivenBack(m, p, c)
BY Zenon DEF TreeClock

(* A clock edge keeps the types.  A feedback is sent only for a packet     *)
(* that the core holds, so no count goes below zero.                       *)
LEMMA TreeTypeStep ==
  ASSUME TreeType, NEW request, NEW pop, NEW m, Inputs(request, pop, m),
         TreeClock(request, pop, m)
  PROVE  TreeType'
<1> USE DescriptorAssumption, ReduceTreeAssumption
<1>1. Latency' = Latency /\ if_policy_find_min' = if_policy_find_min
  BY Zenon, EdgeLine DEF Latency
<1>2. \A p \in Prio, f \in Factors : Weight(f, p) \in Nat
  BY Zenon, ChangeType
<1>3. \A slot \in Option(Delta), p \in Prio, c \in Core : Change(slot, p, c) \in Nat
  BY Zenon, ChangeType
<1>4. prio_queue_length_ram' \in [Prio -> [Core -> Int]]
  <2>1. \A p \in Prio, c \in Core : NextLoad(p, c) \in Int
    <3> SUFFICES ASSUME NEW p \in Prio, NEW c \in Core
                 PROVE  NextLoad(p, c) \in Int
      BY Zenon
    <3>1. prio_queue_length_ram[p][c] \in Int
      BY DEF TreeType
    <3>2. Change(inc, p, c) \in Nat /\ Change(dec, p, c) \in Nat
      BY Zenon, <1>3 DEF TreeType
    <3>3. 2^Width \in Nat \ {0}
      BY Zenon DEF TreeType
    <3>4. prio_queue_length_ram[p][c] + Change(inc, p, c) - Change(dec, p, c) \in Int
      BY <3>1, <3>2
    <3>5. (prio_queue_length_ram[p][c] + Change(inc, p, c) - Change(dec, p, c)) % 2^Width \in Int
      BY <3>3, <3>4, ModRange
    <3> QED  BY <3>5 DEF NextLoad
  <2>2. prio_queue_length_ram' = [p \in Prio |-> [c \in Core |-> NextLoad(p, c)]]
    BY Zenon, EdgeLoads
  <2> QED  BY <2>1, <2>2
<1>5. conf' \in [App -> Factors] /\ app_core_mask' \in [App -> SUBSET Core]
  <2>1. IsMsg("ACTIVATE_APP_THREAD") => msg[1].core \in Core
    BY DEF IsMsg, TreeType, Option, CpuMsg
  <2>2. \A a \in App : conf[a] \in Factors /\ Conf[a] \in Factors /\ app_core_mask[a] \subseteq Core
    BY Zenon DEF TreeType
  <2>3. \A a \in App : conf'[a] \in Factors
    BY Zenon, <2>2, EdgeMasksAt
  <2>4. ASSUME NEW a \in App PROVE app_core_mask'[a] \subseteq Core
    <3>1. \/ IsMsg("ACTIVATE_APP_THREAD") /\ app_core_mask'[a] = app_core_mask[a] \cup {msg[1].core}
          \/ app_core_mask'[a] = app_core_mask[a] \ {msg[1].core}
          \/ app_core_mask'[a] = app_core_mask[a]
      BY Zenon, EdgeMasksAt
    <3>2. app_core_mask[a] \subseteq Core
      BY Zenon, <2>2
    <3> QED  BY Zenon, <2>1, <3>1, <3>2
  <2>5. app_core_mask' = [a \in App |-> app_core_mask'[a]] /\ conf' = [a \in App |-> conf'[a]]
    BY Zenon, EdgeMasksAt
  <2> QED  BY Zenon, <2>3, <2>4, <2>5
<1>6. app_regs' \in [App -> [prio : Prio, cores : SUBSET Core]]
  BY EdgeRegs DEF TreeType, Factors
<1>7. app_eligbility_mask' \subseteq App /\ popped' \in Option(App)
  BY Zenon, EdgeLine, EdgeRegs DEF Inputs
<1>8. line' \in [1..Latency -> Option(Request)]
  <2>1. \A i \in 1..Latency : i > 1 => i - 1 \in 1..Latency
    BY DEF Latency
  <2>2. \A i \in 1..Latency : line'[i] = IF i > 1 THEN line[i-1] ELSE request
    BY Zenon, EdgeLineAt
  <2>3. request \in Option(Request) /\ \A i \in 1..Latency : line[i] \in Option(Request)
    BY Zenon DEF TreeType, Inputs
  <2>4. \A i \in 1..Latency : line'[i] \in Option(Request)
    BY Zenon, <2>1, <2>2, <2>3
  <2>5. line' = [i \in 1..Latency |-> line'[i]]
    BY Zenon, EdgeLineAt
  <2> QED  BY <2>4, <2>5
<1>9. Assigned \in Option(Request)
  BY DEF Assigned, Latency, TreeType, Option
<1>10. inc' \in Option(Delta)
  <2>1. CASE Assigned = <<>>
    BY Zenon, <2>1, EdgeChange DEF Option
  <2>2. CASE Assigned # <<>>
    <3>1. PICK r \in Request : Assigned = <<r>>
      BY Zenon, <1>9, <2>2 DEF Option
    <3>2. r.core \in Core /\ conf[r.app] \in Factors
      BY ZenonT(20) DEF Request, TreeType
    <3>3. inc' = <<[core |-> r.core, n |-> 1, conf |-> conf[r.app]]>>
      BY Zenon, <2>2, <3>1, EdgeChange
    <3> QED  BY Zenon, <3>2, <3>3 DEF Option, Delta
  <2> QED  BY <2>1, <2>2
<1>11. dec' \in Option(Delta)
  <2>1. CASE ~IsMsg("FEEDBACK_THREAD")
    BY Zenon, <2>1, EdgeChange DEF Option
  <2>2. CASE IsMsg("FEEDBACK_THREAD")
    <3>1. PICK n \in CpuMsg : msg = <<n>>
      BY Zenon, <2>2 DEF IsMsg, TreeType, Option
    <3>2. n.core \in Core /\ conf[n.app] \in Factors
      BY Zenon, <2>2, <3>1 DEF CpuMsg, IsMsg, TreeType
    <3>3. dec' = <<[core |-> n.core, n |-> 1, conf |-> conf[n.app]]>>
      BY Zenon, <2>2, <3>1, EdgeChange
    <3> QED  BY Zenon, <3>2, <3>3 DEF Option, Delta
  <2> QED  BY <2>1, <2>2
<1>12. /\ msg' \in Option(CpuMsg)
       /\ msg' # <<>> => msg'[1].type = "ENABLE_QUEUE" \/ msg'[1].app \in App
  <2>1. msg' = m
    BY Zenon, EdgeMessage
  <2> QED  BY Zenon, <2>1, MessageType DEF Inputs
<1>13. msg_rst' \in Option(Core)
  BY EdgeMessage DEF TreeType, IsMsg, Option, CpuMsg
<1>14. up' \subseteq Enabled
  <2>1. CASE m # <<>> /\ m[1].type = "ENABLE_QUEUE"
    <3>1. m[1].core \in Enabled
      BY Zenon, <2>1, MessageType DEF Inputs
    <3> QED  BY Zenon, <2>1, <3>1, EdgeMessage DEF TreeType
  <2>2. CASE ~(m # <<>> /\ m[1].type = "ENABLE_QUEUE")
    <3>1. up' = up
      BY Zenon, <2>2, EdgeMessage
    <3> QED  BY Zenon, <3>1 DEF TreeType
  <2> QED  BY Zenon, <2>1, <2>2
<1>15. held' \in [Core -> [App -> Nat]]
  <2> SUFFICES ASSUME NEW c \in Core, NEW a \in App
               PROVE  held[c][a] + (IF Delivered(c, a) THEN 1 ELSE 0)
                        - (IF m = <<[type |-> "FEEDBACK_THREAD", core |-> c, app |-> a]>>
                           THEN 1 ELSE 0) \in Nat
    BY EdgeHeld
  <2>1. held[c][a] \in Nat
    <3>1. held \in [Core -> [App -> Nat]]
      BY Zenon DEF TreeType
    <3> QED  BY <3>1, Zenon
  <2>2. m = <<[type |-> "FEEDBACK_THREAD", core |-> c, app |-> a]>> => held[c][a] > 0
    <3> SUFFICES ASSUME m = <<[type |-> "FEEDBACK_THREAD", core |-> c, app |-> a]>>
                 PROVE  held[c][a] > 0
      BY Zenon
    <3>1. m # <<>> /\ m[1] = [type |-> "FEEDBACK_THREAD", core |-> c, app |-> a]
      BY Zenon
    <3>2. m[1] \in Messages
      BY Zenon, <3>1 DEF Inputs
    <3> QED  BY Zenon, <3>1, <3>2, MessageType
  <2> QED  BY <2>1, <2>2
<1>16. owed' \in [Prio -> [Core -> Int]]
  <2> SUFFICES ASSUME NEW p \in Prio, NEW c \in Core
               PROVE  owed[p][c] + Gained(p, c) - GivenBack(m, p, c) \in Int
    BY EdgeOwed
  <2>1. Gained(p, c) \in Nat
    <3>1. CASE \E a \in App : Delivered(c, a)
      <4>1. line[Latency][1].app \in App
        BY Zenon, <3>1 DEF Delivered
      <4> QED  BY ZenonT(20), <1>2, <3>1, <4>1 DEF Gained
    <3> QED  BY Zenon, <3>1 DEF Gained
  <2>2. GivenBack(m, p, c) \in Nat
    <3>1. CASE m # <<>> /\ m[1].type = "FEEDBACK_THREAD" /\ m[1].core = c
      <4>1. m[1].app \in App
        BY Zenon, <3>1, MessageType DEF Inputs
      <4> QED  BY ZenonT(20), <1>2, <3>1, <4>1 DEF GivenBack
    <3> QED  BY Zenon, <3>1 DEF GivenBack
  <2> QED  BY <2>1, <2>2 DEF TreeType
<1> QED
  BY Zenon, <1>1, <1>4, <1>5, <1>6, <1>7, <1>8, <1>10, <1>11, <1>12, <1>13, <1>14, <1>15, <1>16
  DEF TreeType
(***************************************************************************)
(* What an edge keeps.                                                     *)
(***************************************************************************)

(* Until the last enable has reached the loads the tree stays idle: the    *)
(* driver registers applications only after init_rx.                       *)
LEMMA IdleStep ==
  ASSUME TreeInv, NEW request, NEW pop, NEW m, Inputs(request, pop, m),
         TreeClock(request, pop, m)
  PROVE  (Starting => Idle)'
<1> SUFFICES ASSUME Starting'
             PROVE  Idle'
  OBVIOUS
<1> USE DescriptorAssumption, ReduceTreeAssumption
<1>1. TreeType /\ TreeType'
  BY TreeTypeStep DEF TreeInv
<1>2. Starting /\ ~IsMsg("ACTIVATE_APP_THREAD")
  <2>1. msg' = m
    BY EdgeMessage
  <2>2. m # <<>> /\ m[1].type = "ENABLE_QUEUE" => up # Enabled
    BY <1>1, MessageType DEF Inputs
  <2>3. up' # Enabled => up # Enabled
    BY <2>2, EdgeMessage
  <2>4. msg_rst' # <<>> => IsMsg("ENABLE_QUEUE")
    BY EdgeMessage
  <2>5. IsMsg("ENABLE_QUEUE")' => up # Enabled
    BY <2>1, <2>2 DEF IsMsg
  <2>6. up # Enabled => ~IsMsg("ACTIVATE_APP_THREAD")
    BY DEF TreeInv
  <2>7. IsMsg("ENABLE_QUEUE") => ~IsMsg("ACTIVATE_APP_THREAD")
    BY DEF IsMsg
  <2> QED  BY <2>3, <2>4, <2>5, <2>6, <2>7 DEF Starting
<1>3. Idle
  BY <1>2 DEF TreeInv
<1>4. \A a \in App : app_core_mask'[a] = {} /\ app_regs'[a].cores = {}
  <2> SUFFICES ASSUME NEW a \in App
               PROVE  app_core_mask'[a] = {} /\ app_regs'[a].cores = {}
    OBVIOUS
  <2>1. app_core_mask[a] = {}
    BY Zenon, <1>3 DEF Idle
  <2>2. app_core_mask'[a] = {}
    BY Zenon, <1>2, <2>1, EdgeMasksAt
  <2>3. app_regs'[a] = [prio |-> conf[a].prio, cores |-> app_core_mask[a]]
    BY Zenon, EdgeRegsAt
  <2> QED  BY <2>1, <2>2, <2>3
<1>5. app_eligbility_mask' = {}
  BY ZenonT(20), <1>3, EdgeRegs DEF Idle
<1>6. pop = <<>> /\ request = <<>> /\ popped' = <<>>
  BY <1>3, EdgeLine DEF Idle, Inputs
<1>7. Latency' = Latency
  BY EdgeLine DEF Latency
<1>8. \A i \in 1..Latency : line'[i] = <<>>
  <2>1. \A i \in 1..Latency : i > 1 => i - 1 \in 1..Latency
    BY DEF Latency
  <2>2. \A i \in 1..Latency : line'[i] = IF i > 1 THEN line[i-1] ELSE request
    BY Zenon, EdgeLineAt
  <2>3. \A i \in 1..Latency : line[i] = <<>>
    BY Zenon, <1>3 DEF Idle
  <2> QED  BY Zenon, <1>6, <2>1, <2>2, <2>3
<1>9. inc' = <<>>
  <2>1. Assigned = <<>>
    BY <1>3 DEF Assigned, Latency, Idle
  <2> QED  BY <2>1, EdgeChange
<1>10. dec' = <<>>
  BY <1>3, EdgeChange DEF Idle
<1>11. ~(m # <<>> /\ m[1].type = "FEEDBACK_THREAD")
  <2>1. m # <<>> /\ m[1].type = "FEEDBACK_THREAD" =>
          m[1].core \in Core /\ m[1].app \in App /\ held[m[1].core][m[1].app] > 0
    BY Zenon, <1>1, MessageType DEF Inputs, CpuMsg
  <2>2. m # <<>> /\ m[1].type = "FEEDBACK_THREAD" => held[m[1].core][m[1].app] = 0
    <3>1. \A c \in Core, a \in App : held[c][a] = 0
      BY Zenon, <1>3 DEF Idle
    <3> QED  BY <2>1, <3>1, Zenon
  <2>3. ~(0 > 0)
    OBVIOUS
  <2> QED  BY <2>1, <2>2, <2>3
<1>12. ~IsMsg("FEEDBACK_THREAD")'
  BY Zenon, <1>11, EdgeMessage DEF IsMsg
<1>13. line[Latency] = <<>>
  BY <1>3 DEF Idle, Latency
<1>14. \A c \in Core, a \in App : held'[c][a] = 0
  <2> SUFFICES ASSUME NEW c \in Core, NEW a \in App
               PROVE  held'[c][a] = 0
    BY Zenon
  <2>1. ~Delivered(c, a)
    BY Zenon, <1>13 DEF Delivered
  <2>2. m # <<[type |-> "FEEDBACK_THREAD", core |-> c, app |-> a]>>
    BY <1>11
  <2>3. held'[c][a] = held[c][a] + 0 - 0
    BY <2>1, <2>2, EdgeHeld
  <2>4. held[c][a] = 0
    BY <1>3 DEF Idle
  <2> QED  BY <2>3, <2>4
<1>15. \A p \in Prio, c \in Core : owed'[p][c] = 0
  <2> SUFFICES ASSUME NEW p \in Prio, NEW c \in Core
               PROVE  owed'[p][c] = 0
    OBVIOUS
  <2>1. Gained(p, c) = 0
    BY Zenon, <1>13 DEF Gained, Delivered
  <2>2. GivenBack(m, p, c) = 0
    BY Zenon, <1>11 DEF GivenBack
  <2>3. owed'[p][c] = owed[p][c] + Gained(p, c) - GivenBack(m, p, c)
    BY Zenon, EdgeOwedAt
  <2>4. owed[p][c] = 0
    BY Zenon, <1>3 DEF Idle
  <2> QED  BY <2>1, <2>2, <2>3, <2>4
<1> QED
  BY <1>4, <1>5, <1>6, <1>7, <1>8, <1>9, <1>10, <1>12, <1>14, <1>15 DEF Idle

(* Factors are set by the message that gives an application its first      *)
(* core and later messages repeat them, so those read when a packet is     *)
(* assigned are those read when it is given back.                          *)
LEMMA FactorsStep ==
  ASSUME TreeInv, NEW request, NEW pop, NEW m, Inputs(request, pop, m),
         TreeClock(request, pop, m)
  PROVE  FactorsKnown'
<1> USE DescriptorAssumption, ReduceTreeAssumption
<1>1. TreeType /\ TreeType' /\ FactorsKnown
  BY TreeTypeStep DEF TreeInv
<1>2. \A a \in App : Known(a) => Known(a)'
  BY Zenon, <1>1, EdgeMasks DEF Known
<1>3. Latency' = Latency
  BY ZenonT(20), EdgeLine DEF Latency
<1>4. ASSUME NEW a \in App, app_core_mask'[a] # {}
      PROVE  Known(a)'
  <2>1. CASE IsMsg("ACTIVATE_APP_THREAD") /\ msg[1].app = a
    BY <2>1, EdgeMasks DEF Known
  <2>2. CASE ~(IsMsg("ACTIVATE_APP_THREAD") /\ msg[1].app = a)
    <3>1. app_core_mask[a] # {}
      BY <1>4, <2>2, EdgeMasks
    <3> QED  BY <1>1, <1>2, <3>1 DEF FactorsKnown
  <2> QED  BY <2>1, <2>2
<1>5. ASSUME NEW a \in App, app_regs'[a].cores # {}
      PROVE  Known(a)'
  <2>1. app_core_mask[a] # {}
    <3>1. app_regs'[a] = [prio |-> conf[a].prio, cores |-> app_core_mask[a]]
      BY Zenon, EdgeRegsAt
    <3> QED  BY <1>5, <3>1
  <2> QED  BY ZenonT(20), <1>1, <1>2, <2>1 DEF FactorsKnown
<1>6. ASSUME NEW a \in app_eligbility_mask'
      PROVE  Known(a)'
  <2>1. a \in App /\ app_regs[a].cores # {}
    BY ZenonT(20), EdgeRegs
  <2> QED  BY ZenonT(20), <1>1, <1>2, <2>1 DEF FactorsKnown
<1>7. ASSUME popped' # <<>>
      PROVE  Known(popped[1])'
  <2>1. popped' = pop /\ pop # <<>> /\ pop[1] \in app_eligbility_mask
    BY Zenon, <1>7, EdgeLine DEF Inputs
  <2>2. pop[1] \in App /\ Known(pop[1])
    BY ZenonT(20), <1>1, <2>1 DEF FactorsKnown, TreeType
  <2>3. Known(pop[1])'
    BY ZenonT(20), <1>2, <2>2
  <2> QED  BY Zenon, <2>1, <2>3 DEF Known
<1>8. ASSUME NEW i \in 1..Latency, line'[i] # <<>>
      PROVE  Known(line[i][1].app)'
  <2>1. CASE i = 1
    <3>1. line'[i] = request
      <4>1. line'[i] = IF i > 1 THEN line[i-1] ELSE request
        BY Zenon, EdgeLineAt
      <4> QED  BY <2>1, <4>1
    <3>2. popped # <<>> /\ request[1].app = popped[1]
      BY Zenon, <1>8, <3>1 DEF Inputs
    <3>3. popped[1] \in App /\ Known(popped[1])
      BY <1>1, <3>2 DEF FactorsKnown, TreeType, Option
    <3>4. Known(popped[1]) => conf'[popped[1]] = Conf[popped[1]]
      BY ZenonT(20), <1>2, <3>3 DEF Known
    <3> QED  BY Zenon, <3>1, <3>2, <3>3, <3>4 DEF Known
  <2>2. CASE i # 1
    <3>1. i - 1 \in 1..Latency /\ line'[i] = line[i-1]
      <4>1. line'[i] = IF i > 1 THEN line[i-1] ELSE request
        BY Zenon, EdgeLineAt
      <4>2. i > 1 /\ i - 1 \in 1..Latency
        BY <2>2 DEF Latency
      <4> QED  BY Zenon, <4>1, <4>2
    <3>2. line[i-1][1].app \in App
      <4>1. line[i-1] \in Option(Request)
        BY ZenonT(20), <1>1, <3>1 DEF TreeType
      <4>2. PICK r \in Request : line[i-1] = <<r>>
        BY Zenon, <1>8, <3>1, <4>1 DEF Option
      <4> QED  BY <4>2 DEF Request
    <3>3. Known(line[i-1][1].app)
      BY Zenon, <1>1, <1>8, <3>1 DEF FactorsKnown
    <3>4. conf'[line[i-1][1].app] = Conf[line[i-1][1].app]
      BY ZenonT(20), <1>2, <3>2, <3>3 DEF Known
    <3> QED  BY Zenon, <3>1, <3>4 DEF Known
  <2> QED  BY Zenon, <2>1, <2>2
<1>9. ASSUME NEW c \in Core, NEW a \in App, held'[c][a] > 0
      PROVE  Known(a)'
  <2>1. CASE Delivered(c, a)
    <3>1. Latency \in 1..Latency
      BY DEF Latency
    <3> QED  BY Zenon, <1>1, <1>2, <2>1, <3>1 DEF Delivered, FactorsKnown
  <2>2. CASE ~Delivered(c, a)
    <3>1. held'[c][a] = held[c][a] + 0
            - (IF m = <<[type |-> "FEEDBACK_THREAD", core |-> c, app |-> a]>> THEN 1 ELSE 0)
      BY <2>2, EdgeHeld
    <3>2. held[c][a] \in Nat
      <4>1. held \in [Core -> [App -> Nat]]
        BY Zenon, <1>1 DEF TreeType
      <4> QED  BY <4>1, Zenon
    <3>3. held[c][a] > 0
      BY <1>9, <3>1, <3>2
    <3> QED  BY Zenon, <1>1, <1>2, <3>3 DEF FactorsKnown
  <2> QED  BY <2>1, <2>2
<1>10. ASSUME IsMsg("FEEDBACK_THREAD")'
       PROVE  Known(msg[1].app)'
  <2>1. msg' = m /\ m # <<>> /\ m[1].type = "FEEDBACK_THREAD"
    BY ZenonT(20), <1>10, EdgeMessage DEF IsMsg
  <2>2. m[1].core \in Core /\ m[1].app \in App /\ held[m[1].core][m[1].app] > 0
    BY Zenon, <1>1, <2>1, MessageType DEF Inputs, CpuMsg
  <2>3. Known(m[1].app)
    BY ZenonT(20), <1>1, <2>2 DEF FactorsKnown
  <2>4. conf'[m[1].app] = Conf[m[1].app]
    BY ZenonT(20), <1>2, <2>2, <2>3 DEF Known
  <2> QED  BY <2>1, <2>4 DEF Known
<1> QED
  BY ZenonT(20), <1>3, <1>4, <1>5, <1>6, <1>7, <1>8, <1>9, <1>10 DEF FactorsKnown
(* Under find-min the increment follows the request through the last       *)
(* register of the tree.                                                   *)
LEMMA MinStep ==
  ASSUME TreeInv, NEW request, NEW pop, NEW m, Inputs(request, pop, m),
         TreeClock(request, pop, m)
  PROVE  MinInStep'
<1> SUFFICES ASSUME if_policy_find_min'
             PROVE  /\ \A i \in 1..Latency' : line'[i] # <<>> => ~line'[i][1].drop
                    /\ inc' = Increment(line[Latency])'
  BY DEF MinInStep
<1>1. if_policy_find_min /\ Latency = 5 /\ Latency' = 5
  <2>1. if_policy_find_min /\ Latency' = Latency
    BY Zenon, EdgeLine
  <2> QED  BY <2>1 DEF Latency
<1>2. MinInStep /\ FactorsKnown
  BY DEF TreeInv
<1>3. ASSUME NEW i \in 1..5, line'[i] # <<>>
      PROVE  ~line'[i][1].drop
  <2>1. CASE i = 1
    <3>1. line'[i] = request
      BY <1>1, <2>1, EdgeLine
    <3> QED  BY Zenon, <1>1, <1>3, <3>1 DEF Inputs
  <2>2. CASE i # 1
    <3>1. i - 1 \in 1..5 /\ line'[i] = line[i-1]
      BY <1>1, <2>2, EdgeLine
    <3> QED  BY Zenon, <1>1, <1>2, <1>3, <3>1 DEF MinInStep
  <2> QED  BY Zenon, <2>1, <2>2
<1>4. line'[5] = line[4] /\ Assigned = line[4]
  BY <1>1, EdgeLine DEF Assigned
<1>5. inc' = IF line[4] = <<>> THEN <<>>
             ELSE <<[core |-> line[4][1].core, n |-> 1, conf |-> conf[line[4][1].app]]>>
  BY Zenon, <1>4, EdgeChange
<1>6. line[4] # <<>> => conf[line[4][1].app] = Conf[line[4][1].app]
  BY <1>1, <1>2 DEF FactorsKnown, Known
<1>7. Increment(line[Latency])' = Increment(line[4])
  BY Zenon, <1>1, <1>4 DEF Increment
<1>8. Increment(line[4]) = inc'
  BY Zenon, <1>5, <1>6 DEF Increment
<1> QED  BY Zenon, <1>1, <1>3, <1>7, <1>8

(* What the message register holds for core c. *)
Feedback(p, c) ==
  IF IsMsg("FEEDBACK_THREAD") /\ msg[1].core = c THEN Weight(conf[msg[1].app], p) ELSE 0

(* A message in the register becomes the decrement of the next edge. *)
LEMMA FeedbackMoves ==
  ASSUME TreeInv, NEW request, NEW pop, NEW m, Inputs(request, pop, m),
         TreeClock(request, pop, m), NEW p \in Prio, NEW c \in Core
  PROVE  /\ Change(dec, p, c)' = Feedback(p, c)
         /\ Feedback(p, c)' = GivenBack(m, p, c)
<1> USE DescriptorAssumption, ReduceTreeAssumption
<1>1. TreeType
  BY Zenon DEF TreeInv
<1>2. Change(dec, p, c)' = Feedback(p, c)
  <2>1. CASE ~IsMsg("FEEDBACK_THREAD")
    <3>1. dec' = <<>>
      BY Zenon, <2>1, EdgeChange
    <3> QED  BY Zenon, <2>1, <3>1 DEF Change, Feedback
  <2>2. CASE IsMsg("FEEDBACK_THREAD")
    <3>1. dec' = <<[core |-> msg[1].core, n |-> 1, conf |-> conf[msg[1].app]]>>
      BY Zenon, <2>2, EdgeChange
    <3>2. conf[msg[1].app] \in Factors
      BY ZenonT(20), <1>1, <2>2 DEF IsMsg, TreeType
    <3>3. Weight(conf[msg[1].app], p) \in Nat
      BY Zenon, <3>2, ChangeType
    <3>4. 1 * Weight(conf[msg[1].app], p) = Weight(conf[msg[1].app], p)
      BY <3>3
    <3>5. /\ dec' # <<>> /\ dec'[1].core = msg[1].core
          /\ dec'[1].n = 1 /\ dec'[1].conf = conf[msg[1].app]
      BY Zenon, <3>1
    <3>6. Change(dec, p, c)' = IF msg[1].core = c THEN 1 * Weight(conf[msg[1].app], p) ELSE 0
      BY Zenon, <3>5 DEF Change, Weight
    <3> QED  BY Zenon, <2>2, <3>4, <3>6 DEF Feedback
  <2> QED  BY Zenon, <2>1, <2>2
<1>3. Feedback(p, c)' = GivenBack(m, p, c)
  <2>1. msg' = m
    BY Zenon, EdgeMessage
  <2>2. CASE m # <<>> /\ m[1].type = "FEEDBACK_THREAD"
    <3>1. Known(msg[1].app)'
      BY Zenon, <2>1, <2>2, FactorsStep DEF FactorsKnown, IsMsg
    <3>2. conf'[m[1].app] = Conf[m[1].app]
      BY Zenon, <2>1, <3>1 DEF Known
    <3> QED  BY Zenon, <2>1, <2>2, <3>2 DEF Feedback, GivenBack, IsMsg, Weight
  <2>3. CASE ~(m # <<>> /\ m[1].type = "FEEDBACK_THREAD")
    BY Zenon, <2>1, <2>3 DEF Feedback, GivenBack, IsMsg
  <2> QED  BY Zenon, <2>2, <2>3
<1> QED  BY Zenon, <1>2, <1>3
(* The packet that leaves is the one whose increment is in the register    *)
(* (find-min) or enters it (RSS).                                          *)
LEMMA DeliveryIsCounted ==
  ASSUME TreeInv, NEW request, NEW pop, NEW m, Inputs(request, pop, m),
         TreeClock(request, pop, m), NEW p \in Prio, NEW c \in Core
  PROVE  Gained(p, c) = IF if_policy_find_min THEN Change(inc, p, c) ELSE Change(inc, p, c)'
<1> USE DescriptorAssumption, ReduceTreeAssumption
<1>1. TreeType /\ FactorsKnown /\ MinInStep
  BY DEF TreeInv
<1>2. Latency \in 1..Latency
  BY DEF Latency
<1> DEFINE r == line[Latency]
<1>3. r \in Option(Request)
  BY Zenon, <1>1, <1>2 DEF TreeType
<1>4. r # <<>> => Known(r[1].app)
  BY <1>1, <1>2 DEF FactorsKnown
<1>5. CASE r = <<>>
  <2>1. Gained(p, c) = 0
    BY <1>5 DEF Gained, Delivered
  <2>2. if_policy_find_min => Change(inc, p, c) = 0
    BY Zenon, <1>1, <1>5 DEF MinInStep, Increment, Change
  <2>3. ~if_policy_find_min => Change(inc, p, c)' = 0
    BY Zenon, <1>5, EdgeChange, EdgeLine DEF Assigned, Change
  <2> QED  BY <2>1, <2>2, <2>3
<1>6. CASE r # <<>>
  <2>1. PICK q \in Request : r = <<q>>
    BY Zenon, <1>3, <1>6 DEF Option
  <2> HIDE DEF r
  <2>2. q.app \in App /\ q.core \in Core /\ q.drop \in BOOLEAN /\ r[1] = q
    BY <2>1 DEF Request
  <2>3. conf[q.app] = Conf[q.app]
    BY Zenon, <1>4, <1>6, <2>2 DEF Known
  <2>4. Gained(p, c) = IF ~q.drop /\ q.core = c THEN Weight(Conf[q.app], p) ELSE 0
    BY Zenon, <1>6, <2>2 DEF Gained, Delivered, r
  <2>5. 1 * Weight(Conf[q.app], p) = Weight(Conf[q.app], p)
    <3>1. Weight(Conf[q.app], p) \in Nat
      BY ZenonT(20), <2>2, ChangeType
    <3> QED  BY <3>1
  <2> DEFINE d == <<[core |-> q.core, n |-> 1, conf |-> Conf[q.app]]>>
  <2>6. Change(d, p, c) = IF q.core = c THEN Weight(Conf[q.app], p) ELSE 0
    BY Zenon, <2>5 DEF Change
  <2>7. CASE if_policy_find_min
    <3>1. ~q.drop
      BY Zenon, <1>1, <1>2, <1>6, <2>2, <2>7 DEF MinInStep, r
    <3>2. inc = d
      BY Zenon, <1>1, <1>6, <2>2, <2>7 DEF MinInStep, Increment, r
    <3> QED  BY Zenon, <2>4, <2>6, <2>7, <3>1, <3>2
  <2>8. CASE ~if_policy_find_min /\ q.drop
    <3>1. inc' = <<>>
      BY Zenon, <2>2, <2>8, EdgeChange DEF Assigned, r
    <3>2. Change(inc, p, c)' = 0
      BY <3>1 DEF Change
    <3> QED  BY <2>4, <2>8, <3>2
  <2>9. CASE ~if_policy_find_min /\ ~q.drop
    <3>1. Assigned = r
      BY Zenon, <1>6, <2>2, <2>9 DEF Assigned, r
    <3>2. inc' = d
      BY ZenonT(20), <1>6, <2>2, <2>3, <3>1, EdgeChange
    <3>3. Change(inc, p, c)' = Change(d, p, c)
      BY Zenon, <3>2 DEF Change, Weight
    <3> QED  BY Zenon, <2>4, <2>6, <2>9, <3>3
  <2> QED  BY Zenon, <2>2, <2>7, <2>8, <2>9
<1> QED  BY <1>5, <1>6

(* A clock edge keeps the loads exact. *)
LEMMA LoadStep ==
  ASSUME TreeInv, NEW request, NEW pop, NEW m, Inputs(request, pop, m),
         TreeClock(request, pop, m)
  PROVE  LoadIsExact'
<1> USE DescriptorAssumption, ReduceTreeAssumption
<1> DEFINE M == 2^Width
<1>1. TreeType /\ TreeType' /\ (Starting => Idle) /\ (Starting => Idle)' /\ LoadIsExact
  BY TreeTypeStep, IdleStep DEF TreeInv
<1>2. M \in Nat \ {0}
  BY Zenon, <1>1 DEF TreeType
<1> HIDE DEF M
<1> SUFFICES ASSUME NEW c \in up', NEW p \in Prio,
                    ~(msg_rst' = <<c>>), ~(IsMsg("ENABLE_QUEUE") /\ msg[1].core = c)'
             PROVE  prio_queue_length_ram'[p][c]
                      = (owed'[p][c] + (Change(dec, p, c)' + Feedback(p, c)'
                         - (IF if_policy_find_min' THEN 0 ELSE Change(inc, p, c)'))) % M
  BY Zenon DEF LoadIsExact, Feedback, M
<1>3. c \in up /\ c \in Core
  <2>1. msg' = m
    BY Zenon, EdgeMessage
  <2>2. ~(m # <<>> /\ m[1].type = "ENABLE_QUEUE" /\ m[1].core = c)
    BY Zenon, <2>1 DEF IsMsg
  <2>3. c \in up
    BY Zenon, <2>2, EdgeMessage
  <2> QED  BY Zenon, <1>1, <2>3 DEF TreeType
<1>4. ~(IsMsg("ENABLE_QUEUE") /\ msg[1].core = c)
  BY Zenon, EdgeMessage
<1>5. prio_queue_length_ram'[p][c] = NextLoad(p, c)
  BY <1>3, EdgeLoads
<1>6. owed'[p][c] = owed[p][c] + Gained(p, c) - GivenBack(m, p, c)
  BY <1>3, EdgeOwed
<1>7. Change(dec, p, c)' = Feedback(p, c) /\ Feedback(p, c)' = GivenBack(m, p, c)
  BY Zenon, <1>3, FeedbackMoves
<1>8. Gained(p, c) = IF if_policy_find_min THEN Change(inc, p, c) ELSE Change(inc, p, c)'
  BY Zenon, <1>3, DeliveryIsCounted
<1>9. if_policy_find_min' = if_policy_find_min
  BY Zenon, EdgeLine
<1>10. /\ Change(inc, p, c) \in Nat /\ Change(dec, p, c) \in Nat
       /\ Change(inc, p, c)' \in Nat /\ Change(dec, p, c)' \in Nat
       /\ Feedback(p, c)' \in Nat
  <2>1. inc \in Option(Delta) /\ dec \in Option(Delta)
    BY Zenon, <1>1 DEF TreeType
  <2>2. inc' \in Option(Delta) /\ dec' \in Option(Delta)
    BY Zenon, <1>1 DEF TreeType
  <2>3. Change(inc, p, c) \in Nat /\ Change(dec, p, c) \in Nat
    BY Zenon, <1>3, <2>1, ChangeType
  <2>4. Change(inc', p, c) \in Nat /\ Change(dec', p, c) \in Nat
    BY Zenon, <1>3, <2>2, ChangeType
  <2>5. Change(inc, p, c)' = Change(inc', p, c) /\ Change(dec, p, c)' = Change(dec', p, c)
    BY Zenon DEF Change, Weight
  <2>6. GivenBack(m, p, c) \in Nat
    <3>1. CASE m # <<>> /\ m[1].type = "FEEDBACK_THREAD" /\ m[1].core = c
      <4>1. m[1].app \in App
        BY Zenon, <1>1, <3>1, MessageType DEF Inputs
      <4>2. Weight(Conf[m[1].app], p) \in Nat
        BY ZenonT(20), <4>1, ChangeType
      <4> QED  BY Zenon, <3>1, <4>2 DEF GivenBack
    <3> QED  BY Zenon, <3>1 DEF GivenBack
  <2> QED  BY Zenon, <1>7, <2>3, <2>4, <2>5, <2>6
<1>11. owed[p][c] \in Int /\ prio_queue_length_ram[p][c] \in Int
  <2>1. owed \in [Prio -> [Core -> Int]] /\ prio_queue_length_ram \in [Prio -> [Core -> Int]]
    BY Zenon, <1>1 DEF TreeType
  <2> QED  BY <1>3, <2>1, Zenon
<1> DEFINE di == Change(inc, p, c)
           dd == Change(dec, p, c)
           fb == Feedback(p, c)
           ni == Change(inc, p, c)'
           gb == GivenBack(m, p, c)
           gn == Gained(p, c)
           ow == owed[p][c]
           ld == prio_queue_length_ram[p][c]
           find == if_policy_find_min
<1>12. di \in Nat /\ dd \in Nat /\ fb \in Nat /\ ni \in Nat /\ gb \in Nat /\ gn \in Nat
  BY Zenon, <1>7, <1>8, <1>10
<1>13. /\ ow \in Int /\ ld \in Int
       /\ gn = IF find THEN di ELSE ni
       /\ owed'[p][c] = ow + gn - gb
  BY Zenon, <1>6, <1>8, <1>11
<1>14. owed'[p][c] + (Change(dec, p, c)' + Feedback(p, c)'
                      - (IF if_policy_find_min' THEN 0 ELSE Change(inc, p, c)'))
       = ow + fb + (IF find THEN di ELSE 0)
  <2>1. owed'[p][c] + (Change(dec, p, c)' + Feedback(p, c)'
                      - (IF if_policy_find_min' THEN 0 ELSE Change(inc, p, c)'))
        = (ow + gn - gb) + (fb + gb - (IF find THEN 0 ELSE ni))
    BY Zenon, <1>6, <1>7, <1>9
  <2> HIDE DEF di, dd, fb, ni, gb, gn, ow, ld, find
  <2>2. (ow + gn - gb) + (fb + gb - (IF find THEN 0 ELSE ni)) = ow + fb + (IF find THEN di ELSE 0)
    BY <1>12, <1>13
  <2> QED  BY Zenon, <2>1, <2>2
<1>15. CASE msg_rst = <<c>>
  <2>1. NextLoad(p, c) = 0
    BY Zenon, <1>15 DEF NextLoad
  <2>2. Idle
    BY Zenon, <1>1, <1>15 DEF Starting
  <2>3. ow = 0 /\ fb = 0 /\ di = 0
    BY Zenon, <1>3, <2>2 DEF Idle, Feedback, Change
  <2>4. ow + fb + (IF find THEN di ELSE 0) = 0
    BY <2>3
  <2>5. 0 % M = 0
    BY <1>2, ModUnique
  <2> QED  BY Zenon, <1>5, <1>14, <2>1, <2>4, <2>5
<1>16. CASE msg_rst # <<c>>
  <2>1. ld = (ow + (dd + fb - (IF find THEN 0 ELSE di))) % M
    BY Zenon, <1>1, <1>3, <1>4, <1>16 DEF LoadIsExact, Feedback, M
  <2>2. NextLoad(p, c) = (ld + di - dd) % M
    BY Zenon, <1>16 DEF NextLoad, M
  <2> HIDE DEF di, dd, fb, ni, gb, gn, ow, ld, find
  <2> DEFINE z == ow + (dd + fb - (IF find THEN 0 ELSE di))
             d == di - dd
  <2>3. z \in Int /\ d \in Int
    BY <1>12, <1>13
  <2> HIDE DEF z, d
  <2>4. ((z % M) + d) % M = (z + d) % M
    BY ZenonT(20), <1>2, <2>3, ModShift
  <2>5. ld + di - dd = ld + d
    BY Zenon, <1>12, <1>13 DEF d
  <2>6. z + d = ow + fb + (IF find THEN di ELSE 0)
    BY <1>12, <1>13 DEF z, d
  <2>7. ld = z % M
    BY Zenon, <2>1 DEF z
  <2> QED  BY Zenon, <1>5, <1>14, <2>2, <2>4, <2>5, <2>6, <2>7
<1> QED  BY ZenonT(20), <1>15, <1>16
(* A clock edge, and a step that leaves the tree alone, keep it. *)
LEMMA TreeStep ==
  ASSUME TreeInv, [TreeNext]_treeVars
  PROVE  TreeInv'
<1>1. ASSUME TreeNext
      PROVE  TreeInv'
  <2>1. TreeType
    BY <1>1 DEF TreeInv
  <2>2. PICK request, pop, m : Inputs(request, pop, m) /\ TreeClock(request, pop, m)
    BY <1>1, <2>1, NextInputs
  <2>3. TreeType'
    BY <2>1, <2>2, TreeTypeStep
  <2>4. (Starting => Idle)'
    BY <1>1, <2>2, IdleStep
  <2>5. FactorsKnown'
    BY <1>1, <2>2, FactorsStep
  <2>6. MinInStep'
    BY <1>1, <2>2, MinStep
  <2>7. LoadIsExact'
    BY <1>1, <2>2, LoadStep
  <2>8. IsMsg("ACTIVATE_APP_THREAD")' => up' = Enabled
    <3>1. msg' = m
      BY <2>2, EdgeMessage
    <3>2. m # <<>> /\ m[1].type = "ACTIVATE_APP_THREAD" => up = Enabled /\ up' = up
      BY Zenon, <2>1, <2>2, MessageType, EdgeMessage DEF Inputs
    <3> QED  BY <3>1, <3>2 DEF IsMsg
  <2> QED  BY <2>3, <2>4, <2>5, <2>6, <2>7, <2>8 DEF TreeInv
<1>2. ASSUME UNCHANGED treeVars
      PROVE  TreeInv'
  <2>1. /\ if_policy_find_min' = if_policy_find_min /\ up' = up /\ msg' = msg /\ msg_rst' = msg_rst
        /\ inc' = inc /\ dec' = dec /\ conf' = conf /\ popped' = popped /\ line' = line
        /\ prio_queue_length_ram' = prio_queue_length_ram /\ owed' = owed /\ held' = held
        /\ app_core_mask' = app_core_mask /\ app_regs' = app_regs
        /\ app_eligbility_mask' = app_eligbility_mask
    BY Zenon, <1>2 DEF treeVars
  <2>2. Latency' = Latency /\ \A t : IsMsg(t)' = IsMsg(t)
    BY Zenon, <2>1 DEF Latency, IsMsg
  <2>3. TreeType'
    BY Zenon, <1>2, <2>1, <2>2 DEF TreeInv, TreeType
  <2>4. (Starting => Idle)'
    BY Zenon, <1>2, <2>1, <2>2 DEF TreeInv, Starting, Idle
  <2>5. FactorsKnown'
    BY Zenon, <1>2, <2>1, <2>2 DEF TreeInv, FactorsKnown, Known
  <2>6. MinInStep'
    BY Zenon, <1>2, <2>1, <2>2 DEF TreeInv, MinInStep, Increment
  <2>7. LoadIsExact'
    <3> SUFFICES ASSUME NEW c \in up, NEW p \in Prio
                 PROVE  \/ msg_rst = <<c>>
                        \/ IsMsg("ENABLE_QUEUE") /\ msg[1].core = c
                        \/ (prio_queue_length_ram[p][c] =
                               (owed[p][c] + (Change(dec, p, c)
                                + (IF IsMsg("FEEDBACK_THREAD") /\ msg[1].core = c
                                   THEN Weight(conf[msg[1].app], p) ELSE 0)
                                - (IF if_policy_find_min THEN 0 ELSE Change(inc, p, c)))) % 2^Width)'
      BY Zenon, <2>1, <2>2 DEF LoadIsExact
    <3>1. Change(inc, p, c)' = Change(inc, p, c) /\ Change(dec, p, c)' = Change(dec, p, c)
      BY Zenon, <2>1 DEF Change, Weight
    <3>2. Weight(conf[msg[1].app], p)' = Weight(conf[msg[1].app], p)
      BY Zenon, <2>1 DEF Weight
    <3> QED  BY Zenon, <1>2, <2>1, <2>2, <3>1, <3>2 DEF TreeInv, LoadIsExact
  <2>8. IsMsg("ACTIVATE_APP_THREAD")' => up' = Enabled
    BY Zenon, <1>2, <2>1, <2>2 DEF TreeInv
  <2> QED  BY Zenon, <2>3, <2>4, <2>5, <2>6, <2>7, <2>8 DEF TreeInv
<1> QED  BY <1>1, <1>2

(***************************************************************************)
(* The cell allocator and its user: the lemmas about their FIFOs.          *)
(***************************************************************************)
INSTANCE AxisFifoProofs

(* The inductive invariant: what the counter counts, and that no word      *)
(* waits in the free list's memory behind an empty output register.        *)
MemInv ==
  /\ CellTypeOK
  /\ CounterIsExact
  /\ NoGap(cell_fifo)

(* The reset establishes it. *)
LEMMA MemInitInv ==
  ASSUME SetsCount, CellInit
  PROVE  MemInv
<1>1. /\ IsFifo(EmptyFifo(2), Cell, PortDepth, 2)
      /\ IsFifo(EmptyFifo(2), Cell, CellDepth, 2)
      /\ Occupancy(EmptyFifo(2)) = 0
  BY EmptyTwo, CellAllocAssumption
<1>2. NoGap(EmptyFifo(2))
  BY DEF NoGap, MemLen, EmptyFifo
<1>3. CellTypeOK
  BY <1>1, CellAllocAssumption DEF CellInit, CellTypeOK, Slot
<1>4. CounterIsExact
  BY <1>1 DEF CellInit, CounterIsExact
<1> QED  BY <1>2, <1>3, <1>4 DEF MemInv, CellInit

(* One edge of the allocator preserves it, whatever is asked of it. *)
LEMMA CellClockInv ==
  ASSUME SetsCount, MemInv, NEW req \in BOOLEAN, NEW free0 \in Slot(Cell), NEW free1 \in Slot(Cell),
         CellClock(req, free0, free1)
  PROVE  MemInv'
<1>1. /\ CellTypeOK /\ CounterIsExact /\ NoGap(cell_fifo)
      /\ PortDepth \in Nat /\ CellDepth \in Nat /\ CellNum \in Nat
  BY CellAllocAssumption DEF MemInv
<1>2. /\ TValid(cell_fifo) \in BOOLEAN
      /\ TValid(free_port0_fifo) => TData(free_port0_fifo) \in Cell
      /\ TValid(free_port1_fifo) => TData(free_port1_fifo) \in Cell
  BY <1>1, HeadTwo DEF CellTypeOK
<1> DEFINE r0 == free_port0_fifo_tready
           r1 == free_port1_fifo_tready
           ok == alloc_mem_success(req)
<1>3. r0 \in BOOLEAN /\ r1 \in BOOLEAN /\ ok \in BOOLEAN
  BY DEF free_port0_fifo_tready, free_port1_fifo_tready, alloc_mem_success
<1>4. /\ free_port0_fifo' = Clock(free_port0_fifo, PortDepth, free0, r0)
      /\ free_port1_fifo' = Clock(free_port1_fifo, PortDepth, free1, r1)
      /\ cell_fifo' = Clock(cell_fifo, CellDepth, s_cell_fifo, ok)
  BY DEF CellClock
<1> HIDE DEF r0, r1, ok
<1>5. /\ IsFifo(free_port0_fifo', Cell, PortDepth, 2)
      /\ IsFifo(free_port1_fifo', Cell, PortDepth, 2)
      /\ IsFifo(cell_fifo', Cell, CellDepth, 2)
  BY <1>1, <1>3, <1>4, ClockType DEF CellTypeOK
<1>6. s_cell_fifo' \in Slot(Cell)
  <2>1. Filling => ini_count \in Cell
    BY <1>1 DEF CellTypeOK, Filling, Cell
  <2> QED  BY <1>2, <2>1 DEF CellClock, Slot, free_port0_fifo_tready, free_port1_fifo_tready
<1>7. ini_count' \in 0..CellNum
  BY <1>1 DEF CellClock, CellTypeOK, Filling
<1>8. NoGap(cell_fifo')
  BY <1>1, <1>3, <1>4, ClockTwoNoGap DEF CellTypeOK
<1>9. valid_cell_counter' = Occupancy(cell_fifo')
  <2> DEFINE w == IF s_cell_fifo # <<>> /\ s_cell_fifo_tready THEN 1 ELSE 0
             d == IF alloc_mem_success(req) THEN 1 ELSE 0
  <2>1. Occupancy(cell_fifo') = Occupancy(cell_fifo)
          + Written(cell_fifo, CellDepth, s_cell_fifo) - Read(cell_fifo, ok)
    BY <1>1, <1>3, <1>4, ClockTwo DEF CellTypeOK
  <2>2. Written(cell_fifo, CellDepth, s_cell_fifo) = w
    <3>1. Len(s_cell_fifo) = IF s_cell_fifo = <<>> THEN 0 ELSE 1
      BY <1>1 DEF CellTypeOK, Slot
    <3> QED  BY <3>1 DEF Written, s_cell_fifo_tready
  <2>3. Read(cell_fifo, ok) = d
    BY DEF Read, ok, alloc_mem_success
  <2>4. valid_cell_counter' = valid_cell_counter + w - d
    BY DEF CellClock, NextCounter
  <2> HIDE DEF w, d
  <2> QED  BY <1>1, <2>1, <2>2, <2>3, <2>4 DEF CounterIsExact
<1>10. valid_cell_counter' \in Nat
  <2>1. Occupancy(cell_fifo') \in 0..(CellDepth + 2)
    BY <1>1, <1>5, OccupancyTwoBound
  <2> QED  BY <1>1, <1>9, <2>1
<1> QED  BY <1>5, <1>6, <1>7, <1>8, <1>9, <1>10 DEF MemInv, CellTypeOK, CounterIsExact

(* Every cycle, and a step that leaves the memory alone, keep it. *)
LEMMA MemStep ==
  ASSUME SetsCount, MemInv, [Next]_vars
  PROVE  MemInv'
<1>1. CASE Next
  <2>1. PICK alloc \in {<<>>} \cup {<<c>> : c \in alloc_cell_id},
              free0 \in Frees0, free1 \in Frees1, last \in BOOLEAN :
          Cycle(alloc, free0, free1, last)
    BY <1>1 DEF Next
  <2>2. free0 \in Slot(Cell) /\ free1 \in Slot(Cell)
    BY DEF Frees0, Frees1, InUse, Slot
  <2> DEFINE req == alloc # <<>>
  <2>3. req \in BOOLEAN /\ CellClock(req, free0, free1)
    BY <2>1 DEF Cycle
  <2> HIDE DEF req
  <2> QED  BY <2>2, <2>3, CellClockInv
<1>2. CASE UNCHANGED vars
  BY Zenon, <1>2 DEF vars, cellVars, MemInv, CellTypeOK, CounterIsExact, NoGap, MemLen
<1> QED  BY <1>1, <1>2

(* Where the counter allows an allocation, the free list's output is valid. *)
LEMMA MemAllocates ==
  ASSUME SetsCount, MemInv
  PROVE  AllocationSucceeds
<1> SUFFICES ASSUME MayAlloc PROVE TValid(cell_fifo)
  BY DEF AllocationSucceeds
<1>1. IsFifo(cell_fifo, Cell, CellDepth, 2) /\ NoGap(cell_fifo) /\ CellDepth \in Nat
  BY CellAllocAssumption DEF MemInv, CellTypeOK
<1>2. Occupancy(cell_fifo) >= 3
  BY DEF MemInv, CellTypeOK, CounterIsExact, MayAlloc, alloc_mem_intense
<1> QED  BY <1>1, <1>2, NoGapValid

(***************************************************************************)
(* No cell is lost or used twice.  The step that needs an argument is the  *)
(* word that waits in s_cell_fifo: the register takes a new value at every *)
(* edge, so its cell would be lost were the free list's memory full.       *)
(***************************************************************************)
ConsInv ==
  /\ MemInv
  /\ in_use \in [Cell -> Nat]
  /\ lost \subseteq Cell
  /\ CellsConserved

One(b) == IF b THEN 1 ELSE 0

(* A sequence of distinct cells other than c is shorter than CellNum. *)
LEMMA DistinctCells ==
  ASSUME SetsCount, NEW s \in Seq(Cell), NEW c \in Cell, Occurs(s, c) = 0,
         \A d \in Cell : Occurs(s, d) <= 1
  PROVE  Len(s) < CellNum
<1> DEFINE T == Cell \ {c}
<1>0. CellNum \in Nat \ {0}
  BY CellAllocAssumption
<1>1. IsFiniteSet(Cell) /\ Cardinality(Cell) = CellNum
  BY <1>0, CountInterval DEF Cell
<1>2. IsFiniteSet(T) /\ Cardinality(T) = CellNum - 1
  BY <1>1, CountRemove, ZenonT(30)
<1>3. \A d \in Cell : IsFiniteSet(Places(s, d)) /\ Cardinality(Places(s, d)) \in Nat
  BY OccursType DEF Occurs
<1>4. ASSUME NEW i \in 1..Len(s), NEW j \in 1..Len(s), s[i] = s[j], i # j
      PROVE  FALSE
  <2>1. s[i] \in Cell  OBVIOUS
  <2>2. {i, j} \in SUBSET Places(s, s[i])  BY <1>4 DEF Places
  <2>3. Cardinality({i, j}) = 2
    <3>1. IsFiniteSet({i}) /\ Cardinality({i}) = 1  BY Zenon, CountSingleton, Zenon
    <3>2. Cardinality({i} \cup {j}) = Cardinality({i}) + 1
      BY <1>4, <3>1, CountAdd, ZenonT(30)
    <3>3. {i, j} = {i} \cup {j}  OBVIOUS
    <3>4. Cardinality({i, j}) = 1 + 1  BY <3>1, <3>2, <3>3, Zenon
    <3> QED  BY <3>4
  <2>4. Cardinality({i, j}) <= Cardinality(Places(s, s[i]))
    BY Zenon, <1>3, <2>1, <2>2, CountSubset
  <2> QED  BY <1>3, <2>1, <2>3, <2>4 DEF Occurs
<1>5. s \in [1..Len(s) -> T]
  <2>1. ASSUME NEW i \in 1..Len(s), s[i] = c  PROVE FALSE
    <3>1. i \in Places(s, c)  BY <2>1 DEF Places
    <3>2. Places(s, c) = {}  BY Zenon, <1>3, CountType DEF Occurs
    <3> QED  BY <3>1, <3>2
  <2> QED  BY <2>1
<1>6. s \in Injection(1..Len(s), T)
  BY <1>4, <1>5 DEF Injection, IsInjective
<1>7. Cardinality(1..Len(s)) <= Cardinality(T)
  BY <1>2, <1>6, CountInjection
<1>8. Cardinality(1..Len(s)) = Len(s)
  <2>1. Len(s) \in Nat  OBVIOUS
  <2> HIDE DEF T
  <2>2. \A n \in Nat : 1 \in Int /\ n \in Int /\ (IF 1 > n THEN 0 ELSE n - 1 + 1) = n  OBVIOUS
  <2> QED  BY Zenon, <2>1, <2>2, CountInterval
<1> QED  BY <1>0, <1>2, <1>7, <1>8

(* The word in s_cell_fifo always finds room in the free list. *)
LEMMA RegisterIsTaken ==
  ASSUME SetsCount, ConsInv, s_cell_fifo # <<>>
  PROVE  s_cell_fifo_tready
<1>1. /\ s_cell_fifo \in Slot(Cell) /\ IsFifo(cell_fifo, Cell, CellDepth, 2)
      /\ IsFifo(free_port0_fifo, Cell, PortDepth, 2)
      /\ IsFifo(free_port1_fifo, Cell, PortDepth, 2)
      /\ PortDepth \in Nat /\ CellDepth \in Nat /\ CellNum \in Nat /\ CellNum <= CellDepth
      /\ ini_count \in Nat /\ in_use \in [Cell -> Nat]
  BY CellAllocAssumption DEF ConsInv, MemInv, CellTypeOK
<1>2. PICK c \in Cell : s_cell_fifo = <<c>>
  BY <1>1 DEF Slot
<1>3. ASSUME NEW d \in Cell
      PROVE  /\ InFifo(free_port0_fifo, d) \in Nat
             /\ InFifo(free_port1_fifo, d) \in Nat
             /\ InFifo(cell_fifo, d) \in Nat
             /\ Occurs(cell_fifo.mem, d) \in Nat
             /\ Occurs(cell_fifo.mem, d) <= InFifo(cell_fifo, d)
  <2>1. /\ InFifo(free_port0_fifo, d) \in Nat
        /\ InFifo(free_port1_fifo, d) \in Nat
        /\ InFifo(cell_fifo, d) \in Nat
    BY <1>1, InFifoType
  <2>2. /\ InFifo(cell_fifo, d) = Occurs(cell_fifo.mem, d)
             + (InReg(cell_fifo, 1, d) + InReg(cell_fifo, 2, d))
        /\ Occurs(cell_fifo.mem, d) \in Nat
    BY Zenon, <1>1, InFifoTwo
  <2>3. InReg(cell_fifo, 1, d) \in 0..1 /\ InReg(cell_fifo, 2, d) \in 0..1
    BY DEF InReg
  <2> QED  BY <2>1, <2>2, <2>3
<1>4. ASSUME NEW d \in Cell
      PROVE  InFifo(cell_fifo, d) + One(s_cell_fifo = <<d>>) <= 1
  <2>1. Copies(d) = IF d \in lost THEN 0 ELSE 1
    BY DEF ConsInv, CellsConserved
  <2>2. Copies(d) = InFifo(free_port0_fifo, d) + InFifo(free_port1_fifo, d)
          + InFifo(cell_fifo, d) + One(s_cell_fifo = <<d>>) + One(d >= ini_count) + in_use[d]
    BY DEF Copies, One
  <2>3. in_use[d] \in Nat /\ One(s_cell_fifo = <<d>>) \in Nat /\ One(d >= ini_count) \in Nat
    BY <1>1 DEF One
  <2>4. /\ InFifo(free_port0_fifo, d) \in Nat
        /\ InFifo(free_port1_fifo, d) \in Nat
        /\ InFifo(cell_fifo, d) \in Nat
    BY Zenon, <1>3
  <2> QED  BY <2>1, <2>2, <2>3, <2>4
<1>5. One(s_cell_fifo = <<c>>) = 1
  BY <1>2 DEF One
<1>6. Occurs(cell_fifo.mem, c) = 0
  BY <1>3, <1>4, <1>5
<1>7. \A d \in Cell : Occurs(cell_fifo.mem, d) <= 1
  <2>1. \A d \in Cell : One(s_cell_fifo = <<d>>) \in Nat  BY DEF One
  <2> QED  BY <1>3, <1>4, <2>1
<1>8. cell_fifo.mem \in Seq(Cell)
  BY <1>1 DEF IsFifo
<1>9. Len(cell_fifo.mem) < CellNum
  BY <1>6, <1>7, <1>8, DistinctCells
<1>10. Len(cell_fifo.mem) \in Nat
  BY <1>8
<1> QED  BY <1>1, <1>9, <1>10 DEF s_cell_fifo_tready, TReady

(* A FIFO of cells, its input and its ready; and what becomes of a cell c  *)
(* in it at an edge to g.                                                  *)
Fits(f, depth, in, tready) ==
  IsFifo(f, Cell, depth, 2) /\ depth \in Nat /\ in \in Slot(Cell) /\ tready \in BOOLEAN
Kept(f, g, depth, in, tready, c) ==
  InFifo(g, c) = InFifo(f, c) + (IF TReady(f, depth) /\ in = <<c>> THEN 1 ELSE 0)
                   - (IF TValid(f) /\ tready /\ TData(f) = c THEN 1 ELSE 0)

LEMMA CellKept ==
  ASSUME SetsCount
  PROVE  \A f, depth, in, tready, c : Fits(f, depth, in, tready) =>
           Kept(f, Clock(f, depth, in, tready), depth, in, tready, c)
<1> SUFFICES ASSUME NEW f, NEW depth, NEW in, NEW tready, NEW c, Fits(f, depth, in, tready)
             PROVE  Kept(f, Clock(f, depth, in, tready), depth, in, tready, c)
  BY Zenon
<1>1. /\ depth \in Nat /\ IsFifo(f, Cell, depth, 2) /\ in \in Slot(Cell) /\ tready \in BOOLEAN
  BY Zenon DEF Fits
<1> QED  BY <1>1, ClockTwoKeeps DEF Kept

(* One edge keeps every cell in one place, or loses it as `lost' says. *)
LEMMA CycleConserves ==
  ASSUME SetsCount, ConsInv, MemInv',
         NEW alloc \in {<<>>} \cup {<<c>> : c \in alloc_cell_id},
         NEW free0 \in Frees0, NEW free1 \in Frees1, NEW last \in BOOLEAN,
         alloc # <<>> => MayAlloc, free0 # <<>> => free0 # free1,
         Cycle(alloc, free0, free1, last)
  PROVE  ConsInv'
<1>1. /\ s_cell_fifo \in Slot(Cell) /\ IsFifo(cell_fifo, Cell, CellDepth, 2)
      /\ IsFifo(free_port0_fifo, Cell, PortDepth, 2)
      /\ IsFifo(free_port1_fifo, Cell, PortDepth, 2)
      /\ PortDepth \in Nat /\ CellDepth \in Nat /\ CellNum \in Nat
      /\ ini_count \in 0..CellNum /\ in_use \in [Cell -> Nat] /\ lost \subseteq Cell
  BY Zenon, CellAllocAssumption DEF ConsInv, MemInv, CellTypeOK
<1>2. free0 \in Slot(Cell) /\ free1 \in Slot(Cell)
  BY Zenon DEF Frees0, Frees1, InUse, Slot
<1> DEFINE r0 == free_port0_fifo_tready
           r1 == free_port1_fifo_tready
           req == alloc # <<>>
           ok == alloc_mem_success(req)
<1>3. /\ r0 \in BOOLEAN /\ r1 \in BOOLEAN /\ ok \in BOOLEAN /\ ~(r0 /\ r1)
      /\ r0 => TValid(free_port0_fifo)
      /\ r1 => TValid(free_port1_fifo)
  BY Zenon DEF free_port0_fifo_tready, free_port1_fifo_tready, alloc_mem_success
<1>4. /\ free_port0_fifo' = Clock(free_port0_fifo, PortDepth, free0, r0)
      /\ free_port1_fifo' = Clock(free_port1_fifo, PortDepth, free1, r1)
      /\ cell_fifo' = Clock(cell_fifo, CellDepth, s_cell_fifo, ok)
      /\ s_cell_fifo' = IF r1 THEN <<TData(free_port1_fifo)>>
                        ELSE IF r0 THEN <<TData(free_port0_fifo)>>
                        ELSE IF Filling THEN <<ini_count>> ELSE <<>>
      /\ ini_count' = IF Filling THEN ini_count + 1 ELSE ini_count
      /\ in_use' = [c \in Cell |-> Uses(alloc, free0, free1, c)]
      /\ lost' = lost \cup Losses(free0)
  BY Zenon DEF Cycle, CellClock
<1>5. \A c : alloc = <<c>> <=> TValid(cell_fifo) /\ ok /\ TData(cell_fifo) = c
  <2>1. CASE alloc = <<>>
    <3>1. ~ok /\ \A c : alloc # <<c>>  BY <2>1 DEF alloc_mem_success
    <3> QED  BY Zenon, <3>1
  <2>2. CASE alloc # <<>>
    <3>1. TValid(cell_fifo)
      <4>1. IsFifo(cell_fifo, Cell, CellDepth, 2) /\ NoGap(cell_fifo) /\ Occupancy(cell_fifo) >= 3
        BY <2>2 DEF ConsInv, MemInv, CellTypeOK, CounterIsExact, MayAlloc, alloc_mem_intense
      <4> QED  BY Zenon, <1>1, <4>1, NoGapValid
    <3>2. alloc = <<TData(cell_fifo)>>  BY <2>2, <3>1 DEF alloc_cell_id
    <3>3. ok  BY Zenon, <2>2, <3>1 DEF alloc_mem_success
    <3> QED  BY Zenon, <3>1, <3>2, <3>3
  <2> QED  BY Zenon, <2>1, <2>2
<1>6. s_cell_fifo # <<>> => TReady(cell_fifo, CellDepth)
  BY Zenon, RegisterIsTaken DEF s_cell_fifo_tready
<1>7. free1 # <<>> => TReady(free_port1_fifo, PortDepth)
  BY Zenon DEF Frees1
<1>8. \A c \in Cell : /\ free0 = <<c>> => in_use[c] > 0 /\ free1 # <<c>>
                      /\ free1 = <<c>> => in_use[c] > 0
  <2>1. \A c \in Cell : <<c>> \in Frees0 => in_use[c] > 0
    <3> TAKE c \in Cell
    <3>1. <<c>> # <<>> /\ \A d : <<c>> = <<d>> => c = d  BY Zenon
    <3> QED  BY <3>1, Zenon DEF Frees0, InUse
  <2>2. \A c : <<c>> # <<>>  OBVIOUS
  <2>3. free1 \in Frees0  BY Zenon DEF Frees0, Frees1
  <2> QED  BY <2>1, <2>2, <2>3, Zenon
<1> HIDE DEF r0, r1, req, ok
<1>9. ASSUME NEW c \in Cell
      PROVE  /\ in_use'[c] \in Nat
             /\ Copies(c)' = IF c \in lost' THEN 0 ELSE 1
  <2>20. InFifo(free_port0_fifo', c)
           = InFifo(free_port0_fifo, c)
               + (IF TReady(free_port0_fifo, PortDepth) /\ free0 = <<c>> THEN 1 ELSE 0)
               - (IF TValid(free_port0_fifo) /\ r0 /\ TData(free_port0_fifo) = c THEN 1 ELSE 0)
    <3>1. Fits(free_port0_fifo, PortDepth, free0, r0)
      BY Zenon, <1>1, <1>2, <1>3 DEF Fits
    <3>2. free_port0_fifo' = Clock(free_port0_fifo, PortDepth, free0, r0)
      BY Zenon, <1>4
    <3>3. Kept(free_port0_fifo, free_port0_fifo', PortDepth, free0, r0, c)
      BY Zenon, <3>1, <3>2, CellKept
    <3> QED  BY Zenon, <3>3 DEF Kept
  <2>21. InFifo(free_port1_fifo', c)
           = InFifo(free_port1_fifo, c)
               + (IF TReady(free_port1_fifo, PortDepth) /\ free1 = <<c>> THEN 1 ELSE 0)
               - (IF TValid(free_port1_fifo) /\ r1 /\ TData(free_port1_fifo) = c THEN 1 ELSE 0)
    <3>1. Fits(free_port1_fifo, PortDepth, free1, r1)
      BY Zenon, <1>1, <1>2, <1>3 DEF Fits
    <3>2. free_port1_fifo' = Clock(free_port1_fifo, PortDepth, free1, r1)
      BY Zenon, <1>4
    <3>3. Kept(free_port1_fifo, free_port1_fifo', PortDepth, free1, r1, c)
      BY Zenon, <3>1, <3>2, CellKept
    <3> QED  BY Zenon, <3>3 DEF Kept
  <2>22. InFifo(cell_fifo', c)
           = InFifo(cell_fifo, c)
               + (IF TReady(cell_fifo, CellDepth) /\ s_cell_fifo = <<c>> THEN 1 ELSE 0)
               - (IF TValid(cell_fifo) /\ ok /\ TData(cell_fifo) = c THEN 1 ELSE 0)
    <3>1. Fits(cell_fifo, CellDepth, s_cell_fifo, ok)
      BY Zenon, <1>1, <1>2, <1>3 DEF Fits
    <3>2. cell_fifo' = Clock(cell_fifo, CellDepth, s_cell_fifo, ok)
      BY Zenon, <1>4
    <3>3. Kept(cell_fifo, cell_fifo', CellDepth, s_cell_fifo, ok, c)
      BY Zenon, <3>1, <3>2, CellKept
    <3> QED  BY Zenon, <3>3 DEF Kept
  <2> DEFINE w0 == One(TReady(free_port0_fifo, PortDepth) /\ free0 = <<c>>)
             w1 == One(free1 = <<c>>)
             f0 == One(free0 = <<c>>)
             x0 == One(r0 /\ TData(free_port0_fifo) = c)
             x1 == One(r1 /\ TData(free_port1_fifo) = c)
             xa == One(alloc = <<c>>)
             sc == One(s_cell_fifo = <<c>>)
             tc == One(s_cell_fifo' = <<c>>)
             in == One(c >= ini_count)
             jn == One(c >= ini_count')
             fi == One(Filling /\ c = ini_count)
             fl == One(Filling /\ c = ini_count /\ (r1 \/ r0))
             i0 == InFifo(free_port0_fifo, c)
             i1 == InFifo(free_port1_fifo, c)
             ic == InFifo(cell_fifo, c)
             j0 == InFifo(free_port0_fifo', c)
             j1 == InFifo(free_port1_fifo', c)
             jc == InFifo(cell_fifo', c)
             h  == in_use[c]
             k  == in_use'[c]
  <2>1. i0 \in Nat /\ i1 \in Nat /\ ic \in Nat /\ h \in Nat
    BY Zenon, <1>1, InFifoType
  <2>2. /\ w0 \in 0..1 /\ w1 \in 0..1 /\ f0 \in 0..1 /\ x0 \in 0..1 /\ x1 \in 0..1
        /\ xa \in 0..1 /\ fi \in 0..1 /\ fl \in 0..1 /\ sc \in 0..1 /\ in \in 0..1
    BY DEF One
  <2>3. j0 = i0 + w0 - x0
    BY Zenon, <1>3, <2>20 DEF One
  <2>4. j1 = i1 + w1 - x1
    <3>1. TReady(free_port1_fifo, PortDepth) /\ free1 = <<c>> <=> free1 = <<c>>
      BY <1>7
    <3> QED  BY Zenon, <1>3, <2>21, <3>1 DEF One
  <2>5. jc = ic + sc - xa
    <3>1. TReady(cell_fifo, CellDepth) /\ s_cell_fifo = <<c>> <=> s_cell_fifo = <<c>>
      BY <1>6
    <3> QED  BY Zenon, <1>5, <2>22, <3>1 DEF One
  <2>6. k = h + xa - f0 - w1
    BY Zenon, <1>4 DEF Uses, One
  <2>7. tc = x0 + x1 + (fi - fl)
    <3>1. s_cell_fifo' = IF r1 THEN <<TData(free_port1_fifo)>>
                         ELSE IF r0 THEN <<TData(free_port0_fifo)>>
                         ELSE IF Filling THEN <<ini_count>> ELSE <<>>
      BY Zenon, <1>4
    <3>2. r0 \in BOOLEAN /\ r1 \in BOOLEAN /\ ~(r0 /\ r1)
      BY Zenon, <1>3
    <3> QED  BY <3>1, <3>2 DEF One
  <2>8. jn = in - fi
    <3>1. ini_count' = IF Filling THEN ini_count + 1 ELSE ini_count
      BY Zenon, <1>4
    <3>2. ini_count \in Nat
      BY <1>1
    <3> QED  BY <3>1, <3>2 DEF One, Cell
  <2>9. Copies(c) = i0 + i1 + ic + sc + in + h
    BY Zenon DEF Copies, One
  <2>10. Copies(c)' = j0 + j1 + jc + tc + jn + k
    BY Zenon DEF Copies, One
  <2>11. Copies(c) = IF c \in lost THEN 0 ELSE 1
    BY Zenon DEF ConsInv, CellsConserved
  <2>12. c \in lost' <=> c \in lost \/ f0 - w0 = 1 \/ fl = 1
    <3>1. lost' = lost \cup Losses(free0)
      BY Zenon, <1>4
    <3> QED  BY <3>1 DEF Losses, One, r0, r1
  <2>13. /\ w0 <= f0 /\ fl <= fi /\ fi <= in
         /\ f0 = 1 => h > 0 /\ w1 = 0
         /\ w1 = 1 => h > 0
    <3>1. w0 <= f0 /\ fl <= fi  BY DEF One
    <3>2. fi <= in  BY <1>1 DEF One, Cell
    <3>3. (f0 = 1 => free0 = <<c>>) /\ (w1 = 1 => free1 = <<c>>) /\ (free1 # <<c>> => w1 = 0)
      BY DEF One
    <3> QED  BY Zenon, <3>1, <3>2, <3>3, <1>8
  <2> HIDE DEF w0, w1, f0, x0, x1, xa, sc, tc, in, jn, fi, fl, i0, i1, ic, j0, j1, jc, h, k
  <2>14. Copies(c)' = Copies(c) - (f0 - w0) - fl
    <3>1. /\ i0 \in Int /\ i1 \in Int /\ ic \in Int /\ h \in Int /\ w0 \in Int /\ w1 \in Int
          /\ f0 \in Int /\ x0 \in Int /\ x1 \in Int /\ xa \in Int /\ fi \in Int /\ fl \in Int
          /\ sc \in Int /\ in \in Int
      BY <2>1, <2>2
    <3>2. j0 \in Int /\ j1 \in Int /\ jc \in Int /\ tc \in Int /\ jn \in Int /\ k \in Int
      BY <2>3, <2>4, <2>5, <2>6, <2>7, <2>8, <3>1
    <3>3. j0 + j1 + tc = i0 + i1 + w0 + w1 + fi - fl
      BY <2>3, <2>4, <2>7, <3>1
    <3>4. jc + k + jn = ic + sc + h - f0 - w1 + in - fi
      BY <2>5, <2>6, <2>8, <3>1
    <3>5. j0 + j1 + jc + tc + jn + k = (j0 + j1 + tc) + (jc + k + jn)
      BY <3>2
    <3>6. (i0 + i1 + w0 + w1 + fi - fl) + (ic + sc + h - f0 - w1 + in - fi)
            = (i0 + i1 + ic + sc + in + h) - (f0 - w0) - fl
      BY <3>1
    <3> QED  BY Zenon, <2>9, <2>10, <3>3, <3>4, <3>5, <3>6
  <2>15. k \in Nat
    BY <2>1, <2>2, <2>6, <2>13
  <2>16. Copies(c)' = IF c \in lost' THEN 0 ELSE 1
    BY <2>1, <2>2, <2>9, <2>11, <2>12, <2>13, <2>14
  <2> QED  BY Zenon, <2>15, <2>16 DEF k
<1>10. in_use' \in [Cell -> Nat]
  BY Zenon, <1>4, <1>9
<1>11. lost' \subseteq Cell
  BY Zenon, <1>1, <1>4 DEF Losses
<1> QED  BY Zenon, <1>9, <1>10, <1>11 DEF ConsInv, CellsConserved

(* At reset the initial fill has every cell. *)
LEMMA ConsInit ==
  ASSUME SetsCount, Init
  PROVE  ConsInv
<1>1. MemInv /\ CellNum \in Nat
  BY MemInitInv, CellAllocAssumption DEF Init
<1>2. in_use = [c \in Cell |-> 0] /\ lost = {} /\ s_cell_fifo = <<>> /\ ini_count = 0
      /\ free_port0_fifo = EmptyFifo(2) /\ free_port1_fifo = EmptyFifo(2)
      /\ cell_fifo = EmptyFifo(2)
  BY DEF Init, CellInit
<1>3. \A c \in Cell : InFifo(EmptyFifo(2), c) = 0
  <2> TAKE c \in Cell
  <2> DEFINE e == EmptyFifo(2)
  <2>1. IsFifo(e, Cell, 0, 2) /\ e.mem = <<>> /\ e.pipe[1] = <<>> /\ e.pipe[2] = <<>>
    BY DEF EmptyFifo, IsFifo, Slot
  <2> HIDE DEF e
  <2>2. InReg(e, 1, c) = 0 /\ InReg(e, 2, c) = 0
    BY <2>1 DEF InReg
  <2>3. Places(e.mem, c) = {}
    BY <2>1 DEF Places
  <2>4. Occurs(e.mem, c) = 0
    BY <2>3, CountEmpty DEF Occurs
  <2>5. InFifo(e, c) = Occurs(e.mem, c) + (InReg(e, 1, c) + InReg(e, 2, c))
    BY <2>1, InFifoTwo
  <2> QED  BY <2>2, <2>4, <2>5 DEF e
<1>4. CellsConserved
  BY <1>1, <1>2, <1>3 DEF CellsConserved, Copies, Cell
<1> QED  BY <1>1, <1>2, <1>4 DEF ConsInv

(* A cycle, and a step that leaves the memory alone, keep the account. *)
LEMMA ConsStep ==
  ASSUME SetsCount, ConsInv, MemInv', [Next]_vars
  PROVE  ConsInv'
<1>1. CASE Next
  BY <1>1, CycleConserves DEF Next
<1>2. CASE UNCHANGED vars
  BY <1>2 DEF vars, cellVars, ConsInv, CellsConserved, Copies
<1> QED  BY <1>1, <1>2

(***************************************************************************)
(* Port 0 is served.  Every clock at which its cell is passed over, a cell *)
(* of port 1 joins the free side; desc_gen takes one away at most every    *)
(* second clock.  So the cells on the free side bound the wait, and there  *)
(* are fewer of them than cells.                                           *)
(***************************************************************************)
FreeSide == valid_cell_counter + Len(s_cell_fifo)

WaitInv ==
  /\ waited \in Nat
  /\ waited > 0 => TValid(free_port0_fifo)
  /\ waited <= 2 * FreeSide + One(parser_state = "PK_DATA_STATE")

(* While a cell is at port 0's output the free list misses it, and has     *)
(* room for the register in front of it.                                   *)
LEMMA FreeSideBound ==
  ASSUME SetsCount, ConsInv, TValid(free_port0_fifo)
  PROVE  FreeSide < CellNum /\ s_cell_fifo_tready
<1> DEFINE c == TData(free_port0_fifo)
           t == Words(cell_fifo)
           s == t \o s_cell_fifo
<1>1. /\ s_cell_fifo \in Slot(Cell) /\ IsFifo(cell_fifo, Cell, CellDepth, 2)
      /\ IsFifo(free_port0_fifo, Cell, PortDepth, 2)
      /\ IsFifo(free_port1_fifo, Cell, PortDepth, 2)
      /\ PortDepth \in Nat /\ CellDepth \in Nat /\ CellNum \in Nat /\ CellNum <= CellDepth
      /\ ini_count \in Nat /\ in_use \in [Cell -> Nat] /\ CounterIsExact
  BY CellAllocAssumption DEF ConsInv, MemInv, CellTypeOK
<1>2. /\ t \in Seq(Cell) /\ Len(t) = Occupancy(cell_fifo) /\ Len(cell_fifo.mem) <= Len(t)
      /\ \A d \in Cell : Occurs(t, d) = InFifo(cell_fifo, d)
  BY Zenon, <1>1, WordsTwo
<1>3. c \in Cell /\ InFifo(free_port0_fifo, c) >= 1
  BY Zenon, <1>1, HeadTwo, HeadIsIn
<1> HIDE DEF c, t
<1>4. s_cell_fifo \in Seq(Cell) /\ Len(s_cell_fifo) \in Nat
  BY Zenon, <1>1, SlotIsSeq
<1>5. s \in Seq(Cell) /\ Len(s) = Len(t) + Len(s_cell_fifo) /\ Len(t) \in Nat
  BY <1>2, <1>4
<1>6. \A d \in Cell : Occurs(s, d) = InFifo(cell_fifo, d) + One(s_cell_fifo = <<d>>)
  <2>1. ASSUME NEW d \in Cell
        PROVE  Occurs(t \o s_cell_fifo, d)
                 = Occurs(t, d) + (IF s_cell_fifo = <<d>> THEN 1 ELSE 0)
    BY <1>1, <1>2, OccursAppend, SMTT(60)
  <2> QED  BY Zenon, <1>2, <2>1 DEF One
<1> HIDE DEF s
<1>7. ASSUME NEW d \in Cell
      PROVE  /\ InFifo(free_port0_fifo, d) + Occurs(s, d) <= 1
             /\ InFifo(free_port0_fifo, d) \in Nat /\ Occurs(s, d) \in Nat
  <2>1. Copies(d) = IF d \in lost THEN 0 ELSE 1
    BY DEF ConsInv, CellsConserved
  <2>2. Copies(d) = InFifo(free_port0_fifo, d) + InFifo(free_port1_fifo, d)
          + InFifo(cell_fifo, d) + One(s_cell_fifo = <<d>>) + One(d >= ini_count) + in_use[d]
    BY DEF Copies, One
  <2>3. in_use[d] \in Nat /\ One(s_cell_fifo = <<d>>) \in Nat /\ One(d >= ini_count) \in Nat
    BY <1>1 DEF One
  <2>4. /\ InFifo(free_port0_fifo, d) \in Nat /\ InFifo(free_port1_fifo, d) \in Nat
        /\ InFifo(cell_fifo, d) \in Nat
    BY Zenon, <1>1, InFifoType
  <2>5. Occurs(s, d) = InFifo(cell_fifo, d) + One(s_cell_fifo = <<d>>)
    BY Zenon, <1>6
  <2> QED  BY <2>1, <2>2, <2>3, <2>4, <2>5
<1>8. Occurs(s, c) = 0 /\ \A d \in Cell : Occurs(s, d) <= 1
  BY <1>3, <1>7
<1>9. Len(s) < CellNum
  BY Zenon, <1>3, <1>5, <1>8, DistinctCells
<1>10. valid_cell_counter = Len(t)
  BY Zenon, <1>1, <1>2 DEF CounterIsExact
<1>11. Len(cell_fifo.mem) \in Nat
  BY <1>1 DEF IsFifo
<1>12. FreeSide < CellNum /\ Len(cell_fifo.mem) < CellDepth
  BY <1>1, <1>2, <1>4, <1>5, <1>9, <1>10, <1>11 DEF FreeSide
<1> QED  BY Zenon, <1>12 DEF s_cell_fifo_tready, TReady

(* Sums of the registers' lengths. *)
LEMMA SmallSums ==
  \A i \in Nat : (i <= 1 => i = 0 \/ i = 1) /\ i + 1 - 1 = i
OBVIOUS

(* A clock edge: the cell at port 0's output is served, or a cell of port  *)
(* 1 has joined the free side.                                             *)
LEMMA CycleWaits ==
  ASSUME SetsCount, ConsInv, WaitInv,
         NEW alloc \in {<<>>} \cup {<<c>> : c \in alloc_cell_id},
         NEW free0 \in Frees0, NEW free1 \in Frees1, NEW last \in BOOLEAN,
         alloc # <<>> => MayAlloc,
         Cycle(alloc, free0, free1, last), MemInv'
  PROVE  WaitInv'
<1> DEFINE taken == alloc_mem_success(alloc # <<>>)
           passed == TValid(free_port0_fifo) /\ ~free_port0_fifo_tready
<1>1. /\ IsFifo(free_port0_fifo, Cell, PortDepth, 2) /\ PortDepth \in Nat
      /\ s_cell_fifo \in Slot(Cell) /\ s_cell_fifo' \in Slot(Cell)
      /\ valid_cell_counter \in Nat /\ valid_cell_counter' \in Nat
  BY Zenon, CellAllocAssumption DEF ConsInv, MemInv, CellTypeOK
<1>2. /\ Len(s_cell_fifo) \in Nat /\ Len(s_cell_fifo) <= 1 /\ (s_cell_fifo = <<>> <=> Len(s_cell_fifo) = 0)
      /\ Len(s_cell_fifo') \in Nat
  BY Zenon, <1>1, SlotIsSeq
<1>3. waited' = IF passed THEN waited + 1 ELSE 0
  BY Zenon DEF Cycle
<1>4. waited \in Nat /\ waited' \in Nat
  BY <1>3 DEF WaitInv
<1>5. ASSUME passed
      PROVE  /\ TValid(free_port0_fifo)'
             /\ FreeSide' = FreeSide + 1 - One(taken)
  <2>1. s_cell_fifo_tready /\ TValid(free_port1_fifo)
    BY Zenon, <1>5, FreeSideBound DEF free_port0_fifo_tready
  <2>2. free_port1_fifo_tready /\ ~free_port0_fifo_tready
    BY Zenon, <1>5, <2>1 DEF free_port1_fifo_tready
  <2>3. Len(s_cell_fifo') = 1
    <3>1. s_cell_fifo' = <<TData(free_port1_fifo)>>
      BY Zenon, <2>2 DEF Cycle, CellClock
    <3> QED  BY <3>1
  <2>4. valid_cell_counter' = valid_cell_counter + Len(s_cell_fifo) - One(taken)
    <3>1. valid_cell_counter' = valid_cell_counter
            + (IF s_cell_fifo # <<>> /\ s_cell_fifo_tready THEN 1 ELSE 0) - One(taken)
      BY Zenon DEF Cycle, CellClock, NextCounter, One
    <3>2. (IF s_cell_fifo # <<>> /\ s_cell_fifo_tready THEN 1 ELSE 0) = Len(s_cell_fifo)
      <4>1. Len(s_cell_fifo) = 0 \/ Len(s_cell_fifo) = 1
        BY Zenon, <1>2, SmallSums
      <4>2. s_cell_fifo # <<>> => Len(s_cell_fifo) = 1
        BY Zenon, <1>2, <4>1
      <4> QED  BY Zenon, <1>2, <2>1, <4>2
    <3> QED  BY Zenon, <3>1, <3>2
  <2>5. One(taken) \in 0..1
    BY DEF One
  <2>6. TValid(free_port0_fifo')
    <3>1. free0 \in Slot(Cell)
      BY Zenon DEF Frees0, InUse, Slot
    <3>2. free_port0_fifo' = Clock(free_port0_fifo, PortDepth, free0, FALSE)
      <4>1. free_port0_fifo' = Clock(free_port0_fifo, PortDepth, free0, free_port0_fifo_tready)
        BY Zenon DEF Cycle, CellClock
      <4>2. free_port0_fifo_tready \in BOOLEAN
        BY Zenon DEF free_port0_fifo_tready
      <4>3. free_port0_fifo_tready = FALSE
        BY Zenon, <2>2, <4>2
      <4> QED  BY Zenon, <4>1, <4>3
    <3> QED  BY Zenon, <1>1, <1>5, <3>1, <3>2, HeadStays
  <2> HIDE DEF taken
  <2>7. FreeSide' = FreeSide + 1 - One(taken)
    BY <1>1, <1>2, <2>3, <2>4, <2>5 DEF FreeSide
  <2> QED  BY Zenon, <2>6, <2>7 DEF TValid
<1>6. /\ taken => parser_state # "PK_DATA_STATE" /\ parser_state' = "PK_DATA_STATE"
      /\ One(taken) = 0 \/ (One(taken) = 1 /\ taken)
  <2>1. taken => alloc # <<>>
    BY Zenon DEF alloc_mem_success
  <2>2. alloc # <<>> => parser_state = "PK_HEAD_STATE"
    BY Zenon DEF MayAlloc
  <2>3. alloc # <<>> => parser_state' = "PK_DATA_STATE"
    BY Zenon DEF Cycle
  <2> QED  BY <2>1, <2>2, <2>3 DEF One
<1>7. FreeSide \in Nat /\ FreeSide' \in Nat
  BY <1>1, <1>2 DEF FreeSide
<1>8. /\ One(parser_state = "PK_DATA_STATE") \in 0..1
      /\ One(parser_state = "PK_DATA_STATE")' \in 0..1
      /\ taken => /\ One(parser_state = "PK_DATA_STATE") = 0
                  /\ One(parser_state = "PK_DATA_STATE")' = 1
  BY <1>6 DEF One
<1>9. waited <= 2 * FreeSide + One(parser_state = "PK_DATA_STATE")
  BY Zenon DEF WaitInv
<1> HIDE DEF taken, passed
<1>10. waited' <= 2 * FreeSide' + One(parser_state = "PK_DATA_STATE")'
  <2>1. CASE ~passed
    BY <1>3, <1>7, <1>8, <2>1
  <2>2. CASE passed /\ One(taken) = 1 /\ taken
    <3>1. waited' = waited + 1 /\ FreeSide' = FreeSide
      BY Zenon, <1>3, <1>5, <1>7, <2>2, SmallSums
    <3>2. /\ One(parser_state = "PK_DATA_STATE") = 0
          /\ One(parser_state = "PK_DATA_STATE")' = 1
      BY Zenon, <1>8, <2>2
    <3> QED  BY <1>4, <1>7, <1>9, <3>1, <3>2
  <2>3. CASE passed /\ One(taken) = 0
    BY <1>3, <1>4, <1>5, <1>7, <1>8, <1>9, <2>3
  <2> QED  BY Zenon, <1>6, <2>1, <2>2, <2>3
<1>11. waited' > 0 => TValid(free_port0_fifo)'
  BY <1>3, <1>5
<1> QED  BY Zenon, <1>4, <1>10, <1>11 DEF WaitInv

(* A cycle, and a step that leaves the memory alone, keep the bound. *)
LEMMA WaitStep ==
  ASSUME SetsCount, ConsInv, WaitInv, MemInv', [Next]_vars
  PROVE  WaitInv'
<1>1. CASE Next
  BY <1>1, CycleWaits DEF Next
<1>2. CASE UNCHANGED vars
  BY Zenon, <1>2 DEF vars, cellVars, WaitInv, FreeSide, TValid, One
<1> QED  BY <1>1, <1>2

(* The bound on the wait that the free side gives is one in cells. *)
LEMMA WaitBound ==
  ASSUME SetsCount, ConsInv, WaitInv
  PROVE  DroppedReturns
<1>1. /\ CellNum \in Nat \ {0} /\ waited \in Nat
      /\ valid_cell_counter \in Nat /\ s_cell_fifo \in Slot(Cell)
  BY Zenon, CellAllocAssumption DEF ConsInv, MemInv, CellTypeOK, WaitInv
<1>2. Len(s_cell_fifo) \in Nat
  BY Zenon, <1>1, SlotIsSeq
<1>3. FreeSide \in Nat
  BY <1>1, <1>2 DEF FreeSide
<1>4. CASE waited = 0
  BY <1>1, <1>4 DEF DroppedReturns
<1>5. CASE waited > 0
  <2>1. FreeSide < CellNum
    BY Zenon, <1>5, FreeSideBound DEF WaitInv
  <2>2. waited <= 2 * FreeSide + One(parser_state = "PK_DATA_STATE")
    BY Zenon DEF WaitInv
  <2>3. One(parser_state = "PK_DATA_STATE") \in 0..1
    BY DEF One
  <2> QED  BY <1>1, <1>3, <2>1, <2>2, <2>3 DEF DroppedReturns
<1> QED  BY <1>1, <1>4, <1>5

(***************************************************************************)
(* The theorems, where the library discharges what the lemmas assume.      *)
(***************************************************************************)
INSTANCE FiniteSetTheorems

(* Cardinalities. *)
LEMMA Counted == SetsCount
<1>1. /\ IsFiniteSet({}) /\ Cardinality({}) = 0
      /\ \A x : IsFiniteSet({x}) /\ Cardinality({x}) = 1
  BY Zenon, FS_EmptySet, FS_Singleton
<1>2. \A S : IsFiniteSet(S) => Cardinality(S) \in Nat /\ (Cardinality(S) = 0 => S = {})
  BY Zenon, FS_CardinalityType, FS_EmptySet
<1>3. \A S, x : IsFiniteSet(S) =>
        /\ IsFiniteSet(S \cup {x})
        /\ Cardinality(S \cup {x}) = IF x \in S THEN Cardinality(S) ELSE Cardinality(S) + 1
        /\ IsFiniteSet(S \ {x})
        /\ Cardinality(S \ {x}) = IF x \in S THEN Cardinality(S) - 1 ELSE Cardinality(S)
  BY Zenon, FS_AddElement, FS_RemoveElement
<1>4. \A a, b \in Int : IsFiniteSet(a..b)
                        /\ Cardinality(a..b) = IF a > b THEN 0 ELSE b - a + 1
  BY Zenon, FS_Interval
<1>5. \A S, T : IsFiniteSet(S) /\ T \in SUBSET S =>
        IsFiniteSet(T) /\ Cardinality(T) <= Cardinality(S)
  BY Zenon, FS_Subset
<1>6. \A S, T : IsFiniteSet(S) /\ ExistsBijection(S, T) => Cardinality(T) = Cardinality(S)
  BY Zenon, FS_Bijection
<1>7. \A S, T, f : IsFiniteSet(T) /\ f \in Injection(S, T) => Cardinality(S) <= Cardinality(T)
  BY Zenon, FS_Injection
<1> QED  BY Zenon, <1>1, <1>2, <1>3, <1>4, <1>5, <1>6, <1>7 DEF SetsCount

(* Whatever packets arrive, are dropped and are delivered, the allocator   *)
(* of rand_mem_alloc stays within MemInv.                                  *)
THEOREM MemInvariance == Spec => []MemInv
<1>1. Init => MemInv
  BY Zenon, Counted, MemInitInv DEF Init
<1>2. MemInv /\ [Next]_vars => MemInv'
  BY Zenon, Counted, MemStep
<1> QED  BY <1>1, <1>2, PTL DEF Spec

(* valid_cell_counter is the length of the free list, also when a cell     *)
(* enters and another leaves at one edge.                                  *)
THEOREM CounterCorrect == Spec => []CounterIsExact
<1>1. MemInv => CounterIsExact  BY DEF MemInv
<1> QED  BY <1>1, MemInvariance, PTL

(* desc_gen's allocation always finds a valid cell although it does not    *)
(* look at alloc_mem_success.                                              *)
THEOREM AllocationCorrect == Spec => []AllocationSucceeds
<1>1. MemInv => AllocationSucceeds
  BY Zenon, Counted, MemAllocates
<1> QED  BY <1>1, MemInvariance, PTL

(* A cell is always in exactly one place, whatever frees meet at the two   *)
(* ports and the initial fill: no two packets share a cell of the packet   *)
(* memory, and a cell disappears only where `lost' records it.             *)
THEOREM CellsCorrect == Spec => []CellsConserved
<1>1. Init => ConsInv
  BY Zenon, Counted, ConsInit
<1>2. ConsInv /\ MemInv' /\ [Next]_vars => ConsInv'
  BY Zenon, Counted, ConsStep
<1>3. ConsInv => CellsConserved
  BY Zenon DEF ConsInv
<1> QED  BY <1>1, <1>2, <1>3, MemInvariance, PTL DEF Spec

(* The cell of a dropped packet waits at port 0 of rand_mem_alloc no more  *)
(* than 2 * CELL_NUM - 1 clocks, however long the receive engine keeps     *)
(* port 1 busy, which is served first.                                     *)
THEOREM DroppedReturnsCorrect == Spec => []DroppedReturns
<1>1. Init => ConsInv /\ WaitInv
  <2> SUFFICES ASSUME Init PROVE ConsInv /\ WaitInv
    OBVIOUS
  <2>1. ConsInv
    BY Zenon, Counted, ConsInit
  <2>2. waited = 0 /\ valid_cell_counter = 0 /\ s_cell_fifo = <<>>
    BY DEF Init, CellInit
  <2>3. One(parser_state = "PK_DATA_STATE") \in 0..1
    BY DEF One
  <2> QED  BY <2>1, <2>2, <2>3 DEF WaitInv, FreeSide
<1>2. ConsInv /\ WaitInv /\ MemInv' /\ [Next]_vars => ConsInv' /\ WaitInv'
  BY Zenon, Counted, ConsStep, WaitStep
<1>3. ConsInv /\ WaitInv => DroppedReturns
  BY Zenon, Counted, WaitBound
<1> QED  BY <1>1, <1>2, <1>3, MemInvariance, PTL DEF Spec

(* The registers' modulus is positive: it counts the subsets of Width bits. *)
LEMMA PowerType ==
  2^Width \in Nat \ {0}
<1> DEFINE bits == 1..Width
<1>1. IsFiniteSet(bits) /\ Cardinality(bits) = Width
  BY FS_Interval, ReduceTreeAssumption
<1> HIDE DEF bits
<1>2. IsFiniteSet(SUBSET bits) /\ Cardinality(SUBSET bits) = 2^Width
  BY <1>1, FS_SUBSET
<1>3. Cardinality(SUBSET bits) \in Nat /\ Cardinality(SUBSET bits) # 0
  <2>1. SUBSET bits # {}
    OBVIOUS
  <2> QED  BY ZenonT(20), <1>2, <2>1, FS_CardinalityType, FS_EmptySet
<1> QED  BY <1>2, <1>3

(* The load that the tree keeps for an enabled core is the weight of the   *)
(* packets assigned to it and not given back: an assignment and a feedback *)
(* that meet at one edge of find_min.v, applications of several            *)
(* priorities, and registers that wrap neither lose nor double a count,    *)
(* for any cores, applications, factors and width.                         *)
THEOREM LoadCorrect ==
  TreeSpec => []LoadIsExact
<1>1. TreeInit => TreeInv
  BY PowerType, TreeInitInv
<1>2. TreeInv /\ [TreeNext]_treeVars => TreeInv'
  BY TreeStep
<1>3. TreeInv => LoadIsExact
  BY DEF TreeInv
<1> QED  BY <1>1, <1>2, <1>3, PTL DEF TreeSpec
=============================================================================
