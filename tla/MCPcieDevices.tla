---------------------------- MODULE MCPcieDevices ----------------------------
(***************************************************************************)
(* Small instances of the device models on the FPGA side of the link: the  *)
(* AXI streams of the UltraScale core (UsStream), the UltraScale and       *)
(* UltraScale+ cores behind them (UsDevice), the segmented streams of the  *)
(* generic interface (IfStream) and the devices at their two ends          *)
(* (IfDevice).  The parts share no state; the first step of a behaviour    *)
(* chooses one.                                                            *)
(***************************************************************************)
EXTENDS UsStream

CONSTANTS dma1, dma2, NoTag

VARIABLES
  unit,                                                      \* the part chosen
  core, cq_queue, cq_np_queue, cq_np_req_count, cq_source, cc_sink, rq_sink,
  rc_queue, rc_source, rq_seq_num, reported, fn, link, arrived, offered, grants,
  segs, ifsrc, pending, drive_obj, bus, ready, ifsnk, frames, received, iffailed,
  dma, tag_active, current_tag, rx_cpl_queues, tx_rd, tx_wr, tx_cpl, rx_req, rx_cpl,
  up, down, hostMem, devMem, host, written, late, started, expired

(***************************************************************************)
(* UsStream: the four streams at 64, 256 and 512 bits, with requests and   *)
(* completions whose fields are all ones or alternate, and payloads that   *)
(* end within, at and after a beat.                                        *)
(***************************************************************************)
MCPorts ==
    {[chan |-> c, lanes |-> l, tuser |-> 0] : c \in {"cq", "cc", "rc"}, l \in {2, 8, 16}}
    \cup {[chan |-> "rq", lanes |-> 2, tuser |-> 60], [chan |-> "rq", lanes |-> 8, tuser |-> 62],
          [chan |-> "rq", lanes |-> 16, tuser |-> 137]}

Ones == 0..31
Odd == {i \in 0..31 : i % 2 = 1}
Data(n) == [k \in 1..n |-> IF k = n THEN Odd \ {7} ELSE Ones \ {k}]

\* Payloads of 1 dword and of a beat boundary: 4 + 4 dwords fill two, one and half a beat.
Requests(kinds) ==
    {[TLP_us EXCEPT !.kind = kinds[1], !.address = (2..63) \ {2}, !.at = {1}, !.length = 1024,
        !.requester_id = 0..15, !.tag = 0..7, !.completer_id = 0..2, !.tc = {0, 1, 2},
        !.attr = {1}, !.first_be = {2, 3}],
     [TLP_us EXCEPT !.kind = kinds[2], !.address = {2, 5}, !.length = 1, !.requester_id = {3},
        !.tag = {0}, !.completer_id = {1}, !.tc = {1}, !.attr = {0, 2}, !.first_be = {1},
        !.discontinue = TRUE, !.data = Data(1)],
     [TLP_us EXCEPT !.kind = kinds[3], !.address = {31, 63}, !.length = 13, !.requester_id = {},
        !.tag = {7}, !.attr = {2}, !.first_be = {3}, !.last_be = {0, 1}, !.data = Data(13)]}

Completions(lowers) ==
    {[TLP_us EXCEPT !.kind = "cpl", !.requester_id = 0..15, !.tag = 0..7, !.completer_id = {},
        !.byte_count = 4, !.status = {0}, !.tc = {2}]}
    \cup {[TLP_us EXCEPT !.kind = "cpl_data", !.requester_id = {4}, !.tag = {1},
             !.completer_id = 0..15, !.length = 1, !.byte_count = c.count,
             !.lower_address = c.lower, !.attr = {0, 1, 2}, !.data = Data(1)] :
            c \in lowers}
    \cup {[TLP_us EXCEPT !.kind = "cpl_data", !.requester_id = {}, !.tag = {0}, !.length = 14,
             !.byte_count = 4096, !.lower_address = 67, !.discontinue = TRUE, !.data = Data(14)]}

MCTraffic(p) ==
    CASE p.chan = "cq" ->
           {[t EXCEPT !.bar_id = {0, 2}, !.bar_aperture = {1, 5}] :
              t \in Requests(<<"mem_read_64", "io_write", "mem_write_64">>)}
      [] p.chan = "rq" ->
           {[t EXCEPT !.seq_num = {0, 3, 5}, !.requester_id_enable = t.discontinue] :
              t \in Requests(<<"mem_read_64", "mem_write", "mem_write_64">>)}
           \cup {[TLP_us EXCEPT !.kind = "cfg_write_1", !.register_number = 0..9, !.length = 1,
                    !.completer_id = 0..15, !.first_be = Nibble, !.seq_num = {4},
                    !.data = Data(1)]}
      [] p.chan = "cc" ->
           {[t EXCEPT !.at = {0}, !.completer_id_enable = (t.status = {})] :
              t \in Completions({[count |-> 3, lower |-> 125]})}
      [] p.chan = "rc" ->
           {[t EXCEPT !.error_code = {0, 3}] :
              t \in Completions([count : {1, 3, 4}, lower : {0, 61}] \cup {[count |-> 6, lower |-> 4095]})}

Dev == INSTANCE UsDevice WITH CreditLimit <- 2, MaxTraffic <- 3, MaxGrants <- 3, MaxMsi <- 1

MCSegCounts == {1, 2}
MCLengths == {0, 3}

Seg == INSTANCE IfStream WITH
  SegCounts <- MCSegCounts, SegDwords <- 1, Lengths <- MCLengths, Limit <- 1, MaxFrames <- 4,
  src <- ifsrc, snk <- ifsnk, failed <- iffailed

(***************************************************************************)
(* IfDevice: two DMA processes with two tags, a memory and an IO BAR.      *)
(***************************************************************************)
IfdProcs == {dma1, dma2}
IfdTimed == {"MEM_READ", "IO_READ", "IO_WRITE"}
IfdBarBase == [s \in {"MEM", "IO"} |-> IF s = "MEM" THEN 64 ELSE 128]
IfdBarSize == [s \in {"MEM", "IO"} |-> IF s = "MEM" THEN 32 ELSE 8]
IfdDmaOps == {<<"MEM_READ", 27, 13>>, <<"MEM_READ", 100, 4>>, <<"MEM_WRITE", 29, 9>>,
              <<"IO_READ", 6, 3>>, <<"IO_WRITE", 41, 1>>}
IfdHostOps == {<<"MEM_READ", 69, 12>>, <<"MEM_WRITE", 75, 6>>, <<"IO_READ", 129, 2>>,
               <<"IO_WRITE", 133, 2>>, <<"MEM_READ", 200, 1>>, <<"MEM_WRITE", 200, 1>>}

Ifd == INSTANCE IfDevice WITH
  Page <- 32, Rcb <- 8, DmaProcs <- IfdProcs, TagCount <- 2, MaxPayload <- 0, ReadReq <- 1,
  BarBase <- IfdBarBase, BarSize <- IfdBarSize, HostTop <- 63, DmaOps <- IfdDmaOps,
  HostOps <- IfdHostOps, Timed <- IfdTimed, MaxOps <- 2, MaxTimeouts <- 1

(***************************************************************************)
(* One part at a time.                                                     *)
(***************************************************************************)
devVars == <<core, cq_queue, cq_np_queue, cq_np_req_count, cq_source, cc_sink, rq_sink,
             rc_queue, rc_source, rq_seq_num, reported, fn, link, arrived, offered, grants>>
ifVars == <<segs, ifsrc, pending, drive_obj, bus, ready, ifsnk, frames, received, iffailed>>
ifdVars == <<dma, tag_active, current_tag, rx_cpl_queues, tx_rd, tx_wr, tx_cpl, rx_req,
             rx_cpl, up, down, hostMem, devMem, host, written, late, started, expired>>

Choose(u) == unit \in {"none", u} /\ unit' = u

DevicesInit == unit = "none" /\ UsInit /\ Dev!DevInit /\ Seg!IfInit /\ Ifd!IfdInit

UsStep  == Choose("us") /\ UsNext /\ UNCHANGED <<devVars, ifVars, ifdVars>>
DevStep == Choose("dev") /\ Dev!DevNext /\ UNCHANGED <<usVars, ifVars, ifdVars>>
IfStep  == Choose("if") /\ Seg!IfNext /\ UNCHANGED <<usVars, devVars, ifdVars>>
IfdStep == Choose("ifd") /\ Ifd!IfdNext /\ UNCHANGED <<usVars, devVars, ifVars>>

DevicesNext == UsStep \/ DevStep \/ IfStep \/ IfdStep
DevicesSpec ==
  DevicesInit /\ [][DevicesNext]_<<unit, usVars, devVars, ifVars, ifdVars>>

(***************************************************************************)
(* Properties, defined and explained in the modules of the parts.  A part  *)
(* that was not chosen stays in its initial state, so that its properties  *)
(* are evaluated only where it was.                                        *)
(***************************************************************************)
(* A TLP packed into a frame, sent over a stream of any width and unpacked *)
(* behind it is the TLP that was sent; frames arrive once and in order     *)
(* through pauses, the byte enables of a completion mark its bytes, no     *)
(* assertion of a sink or an unpack method fails, and the sink of the      *)
(* segmented stream overshoots its occupancy limit by at most the frames   *)
(* of two beats (pcie_us.py, CQSource to RCSink; pcie_if.py, PcieIfSource  *)
(* and PcieIfSink).                                                        *)
StreamsAreLossless ==
  FramesArriveIntact /\ NothingIsLost /\ CompletionBytesEnabled
  /\ Seg!IfFramesIntact /\ Seg!SinkOccupancy

(* Non-posted requests reach the user logic only against its credits, and  *)
(* a credit pays for one request, whatever resets and bursts come between  *)
(* (pcie_us.py and pcie_usp.py, logic).                                    *)
NonPostedPaid == unit = "dev" => Dev!NonPostedPaid

(* A request overtakes an older one at the completer interface only if it  *)
(* is posted and the older one is not, although non-posted requests wait   *)
(* in a queue of their own (pcie_us.py and pcie_usp.py, logic).            *)
CompleterOrder == unit = "dev" => Dev!CompleterOrder

(* A packet of the link has one outcome: a request is with the user logic, *)
(* on its way there or answered by the device, never lost, and is answered *)
(* at most once; the sequence numbers reported are those of the requests   *)
(* that went to the link, in their order (pcie_us.py and pcie_usp.py,      *)
(* upstream_recv and logic).                                               *)
OneOutcome == unit = "dev" => Dev!OneOutcome /\ Dev!SeqNumsFollowRequests

(* DMA behaves as on the host's memory, byte by byte: a read returns the   *)
(* bytes of its range or bytes written there meanwhile, and no byte is     *)
(* written that no DMA write was called for, except that an operation may  *)
(* take the late completion of an IO operation that timed out, which gave  *)
(* its tag back (pcie_if.py, dma_mem_read, dma_io_read, ...).              *)
DmaIsExact == unit = "ifd" => Ifd!DmaIsExact

(* An operation of the host on a BAR is answered once, with the bytes of   *)
(* the device's memory, and one that matches no BAR with one unsupported   *)
(* request; no two DMA operations wait with one tag, and only the late     *)
(* completion of an IO operation that timed out can meet an operation it   *)
(* does not answer (pcie_if.py, upstream_recv, _run_rx_req_tlp, alloc_tag, *)
(* release_tag).                                                           *)
HostIsServed == unit = "ifd" => Ifd!HostIsServed /\ Ifd!TagsAreOwned
=============================================================================
