------------------------------ MODULE UsDevice ------------------------------
(***************************************************************************)
(* The device behind the streams of UsStream: the models of the UltraScale *)
(* and UltraScale+ PCIe cores (lib/pcie/tb/pcie_us.py class UltrascalePCIe *)
(* and pcie_usp.py class UltrascalePlusPCIe).  TLPs from the link are      *)
(* sorted into the completer request (CQ) and requester completion (RC)    *)
(* streams, frames of the user logic go to the link as completions (CC)    *)
(* and requests (RQ).  Non-posted requests are forwarded only against      *)
(* credits that the user logic grants with pcie_cq_np_req; those without a *)
(* credit wait in cq_np_queue while posted requests pass them.             *)
(*                                                                         *)
(* One step is the arrival of a TLP, a frame of the user logic, or one     *)
(* posedge of user_clk.  The streams are queues here: UsStream shows that  *)
(* they deliver frames intact and in order.                                *)
(***************************************************************************)
EXTENDS Integers, Sequences, FiniteSets, SequencesExt

CONSTANTS
    CreditLimit,  \* cq_np_req_count counts up to 32 in the code
    MaxTraffic,   \* bound on TLPs and frames offered to the device
    MaxGrants,    \* bound on the clocks with pcie_cq_np_req
    MaxMsi        \* bound on the interrupts sent

VARIABLES
    core,         \* "us" or "usp": which of the two models
    cq_queue, cq_np_queue, cq_np_req_count,
    cq_source,    \* requests handed to the CQ stream, in order
    cc_sink, rq_sink,   \* frames of the user logic not yet handled
    rc_queue, rc_source,
    rq_seq_num,   \* sequence numbers to report
    reported,     \* sequence numbers reported on pcie_rq_seq_num*
    fn,           \* function 0: bus_master_enable, msi_enable; config_space_enable
    link,         \* the TLPs sent to the link, in order
    arrived,      \* history: the TLPs from the link that are not to be dropped
    offered,      \* TLPs and frames offered so far
    grants        \* credits granted so far

devVars == <<core, cq_queue, cq_np_queue, cq_np_req_count, cq_source, cc_sink, rq_sink,
             rc_queue, rc_source, rq_seq_num, reported, fn, link, arrived, offered, grants>>

Count(s, Test(_)) == Len(SelectSeq(s, Test))
IsMsi(p) == p.kind = "msi"

\* Memory reads and all IO requests.
NonPosted(t) == t.kind \in {"mem_read", "io_write"}

\* TLPs from the link.  "hit" says that the destination exists: the function of a
\* configuration request or completion, the BAR of a memory or IO request.
FromLink == [kind : {"cfg_write", "mem_read", "mem_write", "io_write", "cpl"},
             hit : BOOLEAN]

Cpl(t, status) == [kind |-> "cpl", of |-> t.id, status |-> status, to |-> t.kind]
ToLink(kind, n) == [kind |-> kind, of |-> n, status |-> "none", to |-> "none"]

DevInit ==
    /\ core = "none"
    /\ cq_queue = <<>> /\ cq_np_queue = <<>> /\ cq_np_req_count = 0 /\ cq_source = <<>>
    /\ cc_sink = <<>> /\ rq_sink = <<>> /\ rc_queue = <<>> /\ rc_source = <<>>
    /\ rq_seq_num = <<>> /\ reported = <<>>
    /\ fn = [bus_master_enable |-> FALSE, msi_enable |-> FALSE,
             config_space_enable |-> FALSE]
    /\ link = <<>> /\ arrived = {} /\ offered = 0 /\ grants = 0

DevChoose ==
    /\ core = "none"
    /\ core' \in {"us", "usp"}
    /\ UNCHANGED <<cq_queue, cq_np_queue, cq_np_req_count, cq_source, cc_sink, rq_sink, rc_queue,
                   rc_source, rq_seq_num, reported, fn, link, arrived, offered, grants>>

----------------------------------------------------------------------------
\* A plausible slip: the unsupported-request completion is sent for posted writes too.
UsUpstreamRecv_AnswersAll(t) ==
    /\ fn' = IF t.kind = "cfg_write" /\ fn.config_space_enable /\ t.hit
             THEN [fn EXCEPT !.bus_master_enable = TRUE, !.msi_enable = TRUE] ELSE fn
    /\ link' = CASE t.kind = "cfg_write" ->
                      Append(link, Cpl(t, IF ~fn.config_space_enable THEN "crs"
                                          ELSE IF t.hit THEN "sc" ELSE "ur"))
                 [] t.kind # "cpl" /\ ~t.hit -> Append(link, Cpl(t, "ur"))
                 [] OTHER -> link
    /\ rc_queue' = IF t.kind = "cpl" /\ t.hit THEN Append(rc_queue, t) ELSE rc_queue
    /\ cq_queue' = IF t.kind \notin {"cfg_write", "cpl"} /\ t.hit THEN Append(cq_queue, t)
                   ELSE cq_queue

\* A TLP from the link.  A configuration request is answered at once: retry status (CRS)
\* while the configuration space is disabled, success from the function it names, else
\* unsupported request (UR); the write here is the one that enables bus mastering and MSI.
\* A completion for a function goes to the RC queue, any other is dropped.  A memory or IO
\* request that matches a BAR goes to the CQ queue; one that does not is answered UR,
\* a posted write is dropped.
UsUpstreamRecv(t) ==
    /\ fn' = IF t.kind = "cfg_write" /\ fn.config_space_enable /\ t.hit
             THEN [fn EXCEPT !.bus_master_enable = TRUE, !.msi_enable = TRUE] ELSE fn
    /\ link' = CASE t.kind = "cfg_write" ->
                      Append(link, Cpl(t, IF ~fn.config_space_enable THEN "crs"
                                          ELSE IF t.hit THEN "sc" ELSE "ur"))
                 [] NonPosted(t) /\ ~t.hit -> Append(link, Cpl(t, "ur"))
                 [] OTHER -> link
    /\ rc_queue' = IF t.kind = "cpl" /\ t.hit THEN Append(rc_queue, t) ELSE rc_queue
    /\ cq_queue' = IF t.kind \notin {"cfg_write", "cpl"} /\ t.hit THEN Append(cq_queue, t)
                   ELSE cq_queue

\* The UltraScale+ model has its own, identical, method.
UspUpstreamRecv(t) == UsUpstreamRecv(t)

DevRecv ==
    /\ core # "none" /\ offered < MaxTraffic
    /\ offered' = offered + 1
    /\ \E f \in FromLink :
         LET t == [kind |-> f.kind, hit |-> f.hit, id |-> offered + 1]
         IN  /\ IF core = "us" THEN UsUpstreamRecv(t) ELSE UspUpstreamRecv(t)
             /\ arrived' = IF t.hit \/ t.kind \notin {"mem_write", "cpl"} THEN arrived \cup {t.id}
                           ELSE arrived
    /\ UNCHANGED <<core, cq_np_queue, cq_np_req_count, cq_source, cc_sink, rq_sink, rc_source,
                   rq_seq_num, reported, grants>>

\* The user logic answers a non-posted request it was given, or gives the answer up (discontinue).
UserCompletes ==
    /\ offered < MaxTraffic
    /\ \E k \in DOMAIN cq_source, d \in BOOLEAN :
         /\ NonPosted(cq_source[k])
         /\ \A j \in DOMAIN cc_sink : cc_sink[j].id # cq_source[k].id
         /\ \A j \in DOMAIN link : link[j].of # cq_source[k].id
         /\ cc_sink' = Append(cc_sink, [id |-> cq_source[k].id, kind |-> cq_source[k].kind,
                                        discontinue |-> d])
    /\ offered' = offered + 1
    /\ UNCHANGED <<core, cq_queue, cq_np_queue, cq_np_req_count, cq_source, rq_sink, rc_queue,
                   rc_source, rq_seq_num, reported, fn, link, arrived, grants>>

\* The user logic sends a request, with its own sequence number.
UserRequests ==
    /\ core # "none" /\ offered < MaxTraffic
    /\ \E d \in BOOLEAN :
         rq_sink' = Append(rq_sink, [seq_num |-> offered + 1, discontinue |-> d])
    /\ offered' = offered + 1
    /\ UNCHANGED <<core, cq_queue, cq_np_queue, cq_np_req_count, cq_source, cc_sink, rc_queue,
                   rc_source, rq_seq_num, reported, fn, link, arrived, grants>>

----------------------------------------------------------------------------
\* Completer requests on a clock: st = [np, count, out].  The waiting non-posted requests
\* go first, as far as the credits reach; then every new request in order.
QueuedNonPosted(st) ==
    LET n == IF Len(st.np) < st.count THEN Len(st.np) ELSE st.count
    IN  [np |-> SubSeq(st.np, n + 1, Len(st.np)), count |-> st.count - n,
         out |-> st.out \o SubSeq(st.np, 1, n)]

\* A plausible slip: a request that need not wait is not charged.
NewRequest_Free(st, t) ==
    CASE ~NonPosted(t) \/ st.count > 0 -> [st EXCEPT !.out = Append(@, t)]
      [] OTHER                          -> [st EXCEPT !.np = Append(@, t)]

NewRequest(st, t) ==
    CASE ~NonPosted(t)               -> [st EXCEPT !.out = Append(@, t)]
      [] NonPosted(t) /\ st.count > 0 -> [st EXCEPT !.out = Append(@, t), !.count = @ - 1]
      [] OTHER                       -> [st EXCEPT !.np = Append(@, t)]

Credit(np_req, sys_reset) ==
    CASE ~sys_reset -> 0
      [] sys_reset /\ np_req /\ cq_np_req_count < CreditLimit -> cq_np_req_count + 1
      [] OTHER -> cq_np_req_count

\* A plausible slip: the new requests are served before the waiting ones.
CompleterRequests_NewFirst(np_req, sys_reset) ==
    LET st == QueuedNonPosted(FoldLeft(NewRequest,
                    [np |-> cq_np_queue, count |-> Credit(np_req, sys_reset), out |-> cq_source],
                    cq_queue))
    IN  /\ cq_np_queue' = st.np /\ cq_np_req_count' = st.count /\ cq_source' = st.out
        /\ cq_queue' = <<>>

CompleterRequests(np_req, sys_reset) ==
    LET st == FoldLeft(NewRequest,
                QueuedNonPosted([np |-> cq_np_queue, count |-> Credit(np_req, sys_reset),
                                 out |-> cq_source]),
                cq_queue)
    IN  /\ cq_np_queue' = st.np /\ cq_np_req_count' = st.count /\ cq_source' = st.out
        /\ cq_queue' = <<>>

\* What a clock sends to the link: the completions of the user logic that are not
\* discontinued, then its requests, if bus mastering is enabled, then an MSI.
SentCompletions ==
    LET keep == SelectSeq(cc_sink, LAMBDA c : ~c.discontinue)
    IN  [k \in DOMAIN keep |-> Cpl(keep[k], "sc")]

Accepted == IF fn.bus_master_enable THEN SelectSeq(rq_sink, LAMBDA r : ~r.discontinue) ELSE <<>>

SentRequests == [k \in DOMAIN Accepted |-> ToLink("req", Accepted[k].seq_num)]

\* An interrupt request with exactly one bit set makes the function issue the MSI, which
\* it does if MSI and bus mastering are enabled.
Interrupts(bits) ==
    IF bits = 1 /\ fn.msi_enable /\ fn.bus_master_enable
    THEN <<ToLink("msi", 0)>> ELSE <<>>

\* Up to n of the accepted requests' sequence numbers are reported on a clock.
ReportSeqNums(n) ==
    LET seqs == rq_seq_num \o [k \in DOMAIN Accepted |-> Accepted[k].seq_num]
        m    == IF Len(seqs) < n THEN Len(seqs) ELSE n
    IN  /\ rq_seq_num' = SubSeq(seqs, m + 1, Len(seqs))
        /\ reported' = reported \o SubSeq(seqs, 1, m)

\* The part of a clock that the two models share: completer requests, completions, requests,
\* requester completions, configuration enable, interrupts.
CoreClock(np_req, sys_reset, enable, bits) ==
    /\ CompleterRequests(np_req, sys_reset)
    /\ link' = link \o SentCompletions \o SentRequests \o Interrupts(bits)
    /\ cc_sink' = <<>> /\ rq_sink' = <<>>
    /\ rc_source' = rc_source \o rc_queue /\ rc_queue' = <<>>
    /\ fn' = [fn EXCEPT !.config_space_enable = sys_reset /\ enable]

\* The UltraScale model reports one sequence number per clock.
UsLogic(np_req, sys_reset, enable, bits) ==
    /\ CoreClock(np_req, sys_reset, enable, bits)
    /\ ReportSeqNums(1)

\* The UltraScale+ model has two sequence number outputs.
UspLogic(np_req, sys_reset, enable, bits) ==
    /\ CoreClock(np_req, sys_reset, enable, bits)
    /\ ReportSeqNums(2)

DevClock(np_req, sys_reset, enable, bits) ==
    /\ core # "none"
    /\ np_req => grants < MaxGrants
    /\ Interrupts(bits) # <<>> => Count(link, IsMsi) < MaxMsi
    /\ IF core = "us" THEN UsLogic(np_req, sys_reset, enable, bits)
       ELSE UspLogic(np_req, sys_reset, enable, bits)
    /\ grants' = IF np_req /\ sys_reset THEN grants + 1 ELSE grants
    /\ UNCHANGED <<core, arrived, offered>>

\* A running clock, and one with the reset asserted.
DevRun == \E np_req \in BOOLEAN, bits \in 0..2 : DevClock(np_req, TRUE, TRUE, bits)
DevReset == DevClock(FALSE, FALSE, TRUE, 0)

DevNext ==
    \/ DevChoose
    \/ DevRecv
    \/ UserCompletes
    \/ UserRequests
    \/ DevRun
    \/ DevReset

DevSpec == DevInit /\ [][DevNext]_devVars

----------------------------------------------------------------------------
\* Non-posted requests reach the user logic only against its credits, and a credit pays for
\* one request: those handed over and the credits in hand never exceed the credits granted,
\* whatever resets and bursts come between (pcie_us.py and pcie_usp.py, logic).
NonPostedPaid == Count(cq_source, NonPosted) + cq_np_req_count <= grants

\* The ordering rules of the bus hold at the completer interface: a request overtakes an
\* older one only if it is posted and the older one is not; non-posted requests keep their
\* order and never pass a posted one, although they wait in a queue of their own
\* (pcie_us.py and pcie_usp.py, logic: "send any queued non-posted requests first").
CompleterOrder ==
    \A i, j \in DOMAIN cq_source :
      (i < j /\ cq_source[i].id > cq_source[j].id)
        => (~NonPosted(cq_source[i]) /\ NonPosted(cq_source[j]))

\* A TLP of the link has one outcome: a request waits for or is with the user logic, or the
\* device answered it itself, a completion goes to the user logic, and none of them is lost on
\* the way, whatever waits, passes or is reset; no request is answered twice, and a posted
\* write never (pcie_us.py and pcie_usp.py, upstream_recv and logic).
OneOutcome ==
    LET held == cq_queue \o cq_np_queue \o cq_source
        own  == SelectSeq(link, LAMBDA p : p.kind = "cpl")
    IN  /\ \A i, j \in DOMAIN held : i # j => held[i].id # held[j].id
        /\ \A i, j \in DOMAIN own : i # j => own[i].of # own[j].of
        /\ \A i \in DOMAIN own : own[i].to # "mem_write"
        /\ \A i \in DOMAIN held, j \in DOMAIN own :
             own[j].of = held[i].id => NonPosted(held[i]) /\ own[j].status = "sc"
        /\ arrived = {t.id : t \in Range(held \o rc_queue \o rc_source)} \cup {p.of : p \in Range(own)}

\* The sequence numbers reported or waiting to be reported are those of the requests that
\* went to the link, each once and in the order they went (pcie_us.py and pcie_usp.py, logic).
SeqNumsFollowRequests ==
    LET went == SelectSeq(link, LAMBDA p : p.kind = "req")
    IN  reported \o rq_seq_num = [k \in DOMAIN went |-> went[k].of]
=============================================================================
