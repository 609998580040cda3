---------------------------- MODULE MCPcieLinks ----------------------------
(***************************************************************************)
(* Instances of three parts for the questions of progress: the transmit    *)
(* queue of a port (PciePort), two processes that share the tags of the    *)
(* root complex, with a timeout (PcieMem on small memories), and a         *)
(* segmented stream with one or two segments (IfStream).  The parts share  *)
(* no state; the first step of a behaviour chooses one.                    *)
(***************************************************************************)
EXTENDS PciePort, FiniteSets

CONSTANTS e1, e2, p1, p2, NoTag

VARIABLES
  unit,                                                      \* the part chosen
  mem, down, up, current_tag, rx_cpl_queues, proc, shadow, ops, timeouts,
  segs, src, pending, drive_obj, bus, ready, snk, frames, received, failed,
  since,    \* history: since[t]: tags handed out after tag t was
  lap       \* history: since[t] when t was first given to a second request; 0 before

(* One endpoint may be slow to answer while the other serves an operation  *)
(* of as many requests as there are tags.                                  *)
MCEps    == {e1, e2}
MCRcProc == {p1, p2}
NoEpProc == [e \in MCEps |-> {}]
FewBytes == [e \in MCEps |-> IF e = e1 THEN 64..75 ELSE 96..107]
FewCfg   == [e \in MCEps |-> IF e = e1 THEN 0..3 ELSE {}]
NoRegion == {}
NoOps    == {}
Tags     == 3
TagOps   == {<<"CFG_READ", 1, 2>>, <<"CFG_WRITE", 3, 1>>, <<"MEM_READ", 66, 8>>,
             <<"IO_WRITE", 99, 6>>}

Mem == INSTANCE PcieMem WITH
  Page <- 32, Rcb <- 8, Eps <- MCEps, RcProc <- MCRcProc, EpProc <- NoEpProc,
  RcTags <- Tags, EpTags <- 2, PayloadSize <- 0, ReadSize <- 1, BusMaster <- TRUE,
  RcRegion <- NoRegion, EpBar <- FewBytes, Window <- FewBytes, CfgBytes <- FewCfg,
  RcOps <- TagOps, EpOps <- NoOps, MaxOps <- 2, MaxTimeouts <- 1

MCSegCounts == {1, 2}
MCLengths == {0, 3}

If == INSTANCE IfStream WITH
  SegCounts <- MCSegCounts, SegDwords <- 1, Lengths <- MCLengths, Limit <- 1, MaxFrames <- 3

memVars == <<mem, down, up, current_tag, rx_cpl_queues, proc, shadow, ops, timeouts>>

ifVars == <<segs, src, pending, drive_obj, bus, ready, snk, frames, received, failed>>

Choose(u) == unit \in {"none", u} /\ unit' = u

tagVars == <<since, lap>>

LinksInit ==
  /\ unit = "none" /\ Init /\ Mem!Init /\ If!IfInit
  /\ since = [t \in 0..Tags - 1 |-> 0]
  /\ lap = 0

(* A request with tag t is under way while its process waits, or while it  *)
(* or a completion of it is on the link, whoever still waits for it.       *)
UnderWay(t) ==
  \/ \E p \in MCRcProc : Mem!Waiting(p) /\ proc[p].tag = t
  \/ \E c \in Mem!OnLinks : c.tag = t /\ c.type # "MEM_WRITE"

(* The tag the step hands out, if it does. *)
HandedOut == {proc'[p].tag : p \in {p \in MCRcProc : proc[p].st = "ready" /\ proc'[p].st = "wait"}}

CountTags ==
  /\ since' = [t \in 0..Tags - 1 |-> IF t \in HandedOut THEN 0 ELSE since[t] + Cardinality(HandedOut)]
  /\ lap' = IF lap = 0 /\ \E t \in HandedOut : UnderWay(t)
            THEN since[CHOOSE t \in HandedOut : TRUE] + 1 ELSE lap

PortStep == Choose("port") /\ Next /\ UNCHANGED <<memVars, ifVars, tagVars>>
MemStep  == Choose("mem") /\ Mem!Next /\ CountTags /\ UNCHANGED <<vars, ifVars>>
IfStep   == Choose("if") /\ If!IfNext /\ UNCHANGED <<vars, memVars, tagVars>>

LinksNext == PortStep \/ MemStep \/ IfStep

(* The fairness of all parts binds only the part chosen: nothing it is     *)
(* about is enabled before the first send, start or connection.            *)
LinksSpec ==
  /\ LinksInit /\ [][LinksNext]_<<unit, vars, memVars, ifVars, tagVars>>
  /\ Fairness /\ Mem!Fairness /\ If!IfFairness

(* get_free_tag looks for an empty completion queue, not for a tag without *)
(* a request: it gives a tag to a second request while one is under way,   *)
(* but only after a round of the tags, less those lost to late completions *)
(* of requests that timed out.  Until it does, a completion that a waiting *)
(* process may take answers its own request, and tags are lost to such     *)
(* late completions only.                                                  *)
TagsAreSound ==
  IF lap = 0 THEN Mem!CompletionIsMine /\ Mem!LeaksAreTimeouts
  ELSE lap >= Tags - timeouts

(* Every operation of the root complex and of a function ends, in success  *)
(* or in an exception, although recv_cpl waits for a signal that toggles   *)
(* with each completion.                                                   *)
OperationsEnd == Mem!OperationsEnd

(* Every frame sent over the segmented stream is received, whatever the    *)
(* pauses of its two sides (PcieIfSource.send to PcieIfSink.recv).         *)
IfDelivery == If!IfDelivery
=============================================================================
