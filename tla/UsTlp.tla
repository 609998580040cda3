------------------------------- MODULE UsTlp -------------------------------
(***************************************************************************)
(* The packet formats of the Xilinx UltraScale PCIe core                   *)
(* (lib/pcie/tb/pcie_us.py, class TLP_us): a TLP is packed into a frame of *)
(* dwords with sideband fields for one of the four AXI streams (completer  *)
(* request CQ, completer completion CC, requester request RQ, requester    *)
(* completion RC) and unpacked at the other side.                          *)
(*                                                                         *)
(* A word is the set of its one bits, so masks are intersections and       *)
(* shifts are translations; the length, byte count and lower address are   *)
(* numbers because the byte enables are computed from them.                *)
(***************************************************************************)
EXTENDS Integers, Sequences, FiniteSets, SequencesExt, FiniteSetsExt

Bits(n, w) == {i \in 0..(w - 1) : (n \div (2^i)) % 2 = 1}
Number(S) == MapThenSumSet(LAMBDA i : 2^i, S)
Shift(S, k) == {i + k : i \in S}
Field(D, k, w) == {i \in 0..(w - 1) : (i + k) \in D}
Mask(S, w) == S \cap 0..(w - 1)
Flag(b, k) == IF b THEN {k} ELSE {}
Nibble == 0..3

\* One parity bit per byte.
dword_parity(d) == {i \in 0..3 : Cardinality(d \cap (8 * i)..(8 * i + 7)) % 2 = 1}

update_parity(data) == [k \in DOMAIN data |-> Nibble \ dword_parity(data[k])]

USPcieFrame ==
    [data |-> <<>>, byte_en |-> <<>>, parity |-> <<>>, first_be |-> {}, last_be |-> {},
     discontinue |-> FALSE, seq_num |-> {}]

TLP_us ==
    [kind |-> "none", at |-> {}, address |-> {}, length |-> 0, requester_id |-> {}, tag |-> {},
     completer_id |-> {}, bar_id |-> {}, bar_aperture |-> {}, tc |-> {}, attr |-> {},
     first_be |-> {}, last_be |-> {}, discontinue |-> FALSE, seq_num |-> {},
     register_number |-> {}, lower_address |-> 0, byte_count |-> 0, status |-> {},
     error_code |-> {}, completer_id_enable |-> FALSE, requester_id_enable |-> FALSE,
     data |-> <<>>]

\* The result of a failed assert in an unpack method.
AssertionError == [kind |-> "assertion"]

ReqTypes == <<"mem_read", "mem_write", "io_read", "io_write", "fetch_add", "swap", "cas",
              "mem_read_locked", "cfg_read_0", "cfg_read_1", "cfg_write_0", "cfg_write_1">>

\* The 32- and the 64-bit format of a memory request have the same code.
ReqKind(kind) == CASE kind = "mem_read_64" -> "mem_read"
                   [] kind = "mem_write_64" -> "mem_write"
                   [] OTHER -> kind

ReqType(kind) == Bits((CHOOSE k \in DOMAIN ReqTypes : ReqTypes[k] = ReqKind(kind)) - 1, 4)

\* A request whose address has a high dword is given the 4-dword format.
KindOf(code, address) ==
    LET kind == ReqTypes[Number(code) + 1]
    IN  IF address \cap 32..63 # {} /\ kind \in {"mem_read", "mem_write"}
        THEN kind \o "_64" ELSE kind

\* Byte enables of a payload of n dwords after a descriptor of h dwords.
ByteEn(h, n, first, last) ==
    [i \in 1..h |-> {}] \o
    [i \in 1..n |-> IF i = 1 THEN first ELSE IF i = n THEN last ELSE Nibble]

Payload(pkt, h) == SubSeq(pkt.data, h + 1, Len(pkt.data))

----------------------------------------------------------------------------
\* Dword 2 of a request descriptor, and the fields its unpacking reads.
RequestDword(t) ==
    Bits(t.length, 11) \cup Shift(ReqType(t.kind), 11) \cup Shift(t.requester_id, 16)

Routing(t) == Shift(Mask(t.tc, 3), 25) \cup Shift(Mask(t.attr, 3), 28)

AddressDwords(t) ==
    <<Mask(t.at, 2) \cup (t.address \cap 2..31), Field(t.address, 32, 32)>>

AddressOf(pkt) == (pkt.data[1] \cap 2..31) \cup Shift(pkt.data[2], 32)

pack_us_cq(t) ==
    LET d3 == Mask(t.tag, 8) \cup Shift(Field(t.completer_id, 0, 3), 8)
              \cup Shift(Mask(t.bar_id, 3), 16) \cup Shift(Mask(t.bar_aperture, 6), 19)
              \cup Routing(t)
        data == AddressDwords(t) \o <<RequestDword(t), d3>> \o t.data
    IN  [USPcieFrame EXCEPT !.data = data, !.parity = update_parity(data),
            !.byte_en = ByteEn(4, Len(t.data), t.first_be, t.last_be),
            !.first_be = t.first_be, !.last_be = t.last_be, !.discontinue = t.discontinue]

unpack_us_cq(pkt) ==
    LET d2 == pkt.data[3]
        d3 == pkt.data[4]
        t  == [TLP_us EXCEPT
                 !.address = AddressOf(pkt), !.at = Field(pkt.data[1], 0, 2),
                 !.kind = KindOf(Field(d2, 11, 4), AddressOf(pkt)),
                 !.length = Number(Field(d2, 0, 11)), !.requester_id = Field(d2, 16, 16),
                 !.tag = Field(d3, 0, 8), !.completer_id = Field(d3, 8, 8),
                 !.bar_id = Field(d3, 16, 3), !.bar_aperture = Field(d3, 19, 6),
                 !.tc = Field(d3, 25, 3), !.attr = Field(d3, 28, 3),
                 !.first_be = pkt.first_be, !.last_be = pkt.last_be,
                 !.discontinue = pkt.discontinue, !.data = Payload(pkt, 4)]
    IN  IF /\ pkt.byte_en = ByteEn(4, Len(t.data), t.first_be, t.last_be)
           /\ pkt.parity = update_parity(pkt.data)
        THEN t ELSE AssertionError

pack_us_rq(t) ==
    LET cfg  == t.kind \in {"cfg_read_0", "cfg_read_1", "cfg_write_0", "cfg_write_1"}
        d3   == Mask(t.tag, 8) \cup Shift(t.completer_id, 8)
                \cup Flag(t.requester_id_enable, 24) \cup Routing(t)
        head == IF cfg THEN <<Shift(Mask(t.register_number, 10), 2), {}>> ELSE AddressDwords(t)
        data == head \o <<RequestDword(t), d3>> \o t.data
    IN  [USPcieFrame EXCEPT !.data = data, !.parity = update_parity(data),
            !.first_be = t.first_be, !.last_be = t.last_be,
            !.discontinue = t.discontinue, !.seq_num = t.seq_num]

unpack_us_rq(pkt) ==
    LET d2   == pkt.data[3]
        d3   == pkt.data[4]
        code == Field(d2, 11, 4)
        cfg  == Number(code) \in 8..11
        head == IF cfg
                THEN [TLP_us EXCEPT !.kind = KindOf(code, {}),
                        !.register_number = Field(pkt.data[1], 2, 10)]
                ELSE [TLP_us EXCEPT !.kind = KindOf(code, AddressOf(pkt)),
                        !.address = AddressOf(pkt), !.at = Field(pkt.data[1], 0, 2)]
    IN  IF pkt.parity # update_parity(pkt.data) THEN AssertionError
        ELSE [head EXCEPT
                !.length = Number(Field(d2, 0, 11)), !.requester_id = Field(d2, 16, 16),
                !.tag = Field(d3, 0, 8), !.completer_id = Field(d3, 8, 16),
                !.requester_id_enable = 24 \in d3, !.tc = Field(d3, 25, 3),
                !.attr = Field(d3, 28, 3), !.first_be = pkt.first_be, !.last_be = pkt.last_be,
                !.discontinue = pkt.discontinue, !.seq_num = pkt.seq_num,
                !.data = Payload(pkt, 4)]

----------------------------------------------------------------------------
Locked(t) == t.kind \in {"cpl_locked", "cpl_locked_data"}

CplKind(locked, length) ==
    (IF locked THEN "cpl_locked" ELSE "cpl") \o (IF length > 0 THEN "_data" ELSE "")

\* Dwords 1 and 2 of both completion descriptors.
CompletionDwords(t) ==
    <<Bits(t.length, 11) \cup Shift(Mask(t.status, 3), 11) \cup Shift(t.requester_id, 16),
      Mask(t.tag, 8) \cup Shift(t.completer_id, 8) \cup Routing(t)>>

CompletionOf(pkt) ==
    LET d0 == pkt.data[1]
        d1 == pkt.data[2]
        d2 == pkt.data[3]
        length == Number(Field(d1, 0, 11))
    IN  [TLP_us EXCEPT
           !.kind = CplKind(29 \in d0, length), !.byte_count = Number(Field(d0, 16, 13)),
           !.length = length, !.status = Field(d1, 11, 3), !.requester_id = Field(d1, 16, 16),
           !.tag = Field(d2, 0, 8), !.completer_id = Field(d2, 8, 16),
           !.tc = Field(d2, 25, 3), !.attr = Field(d2, 28, 3),
           !.discontinue = pkt.discontinue,
           !.data = IF length > 0 THEN SubSeq(pkt.data, 4, 3 + length) ELSE <<>>]

pack_us_cc(t) ==
    LET d0   == Bits(t.lower_address, 7) \cup Shift(Mask(t.at, 2), 8)
                \cup Shift(Bits(t.byte_count, 13), 16) \cup Flag(Locked(t), 29)
        c    == CompletionDwords(t)
        data == <<d0, c[1], c[2] \cup Flag(t.completer_id_enable, 24)>> \o t.data
    IN  [USPcieFrame EXCEPT !.data = data, !.parity = update_parity(data),
            !.discontinue = t.discontinue]

unpack_us_cc(pkt) ==
    IF pkt.parity # update_parity(pkt.data) THEN AssertionError
    ELSE [CompletionOf(pkt) EXCEPT
            !.lower_address = Number(Field(pkt.data[1], 0, 7)), !.at = Field(pkt.data[1], 8, 2),
            !.completer_id_enable = 24 \in pkt.data[3]]

\* The byte enables of a requester completion: the first dword starts at the lower
\* address; the last one is whole unless the request's last byte is in it.
RcByteEn(t) ==
    LET first == (t.lower_address % 4)..3
        last  == IF t.byte_count + (t.lower_address % 4) > t.length * 4 THEN Nibble
                 ELSE 0..(3 - ((4 - t.byte_count - t.lower_address) % 4))
    IN  IF Len(t.data) = 1 THEN ByteEn(3, 1, first \cap last, {})
        ELSE ByteEn(3, Len(t.data), first, last)

pack_us_rc(t) ==
    LET d0   == Bits(t.lower_address, 12) \cup Shift(Mask(t.error_code, 4), 12)
                \cup Shift(Bits(t.byte_count, 13), 16) \cup Flag(Locked(t), 29)
        data == <<d0>> \o CompletionDwords(t) \o t.data
    IN  [USPcieFrame EXCEPT !.data = data, !.parity = update_parity(data),
            !.byte_en = RcByteEn(t), !.discontinue = t.discontinue]

unpack_us_rc(pkt) ==
    LET t == [CompletionOf(pkt) EXCEPT
                !.lower_address = Number(Field(pkt.data[1], 0, 12)),
                !.error_code = Field(pkt.data[1], 12, 4)]
    IN  IF pkt.byte_en = RcByteEn(t) /\ pkt.parity = update_parity(pkt.data)
        THEN t ELSE AssertionError
=============================================================================
