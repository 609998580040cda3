-------------------------------- MODULE Tlp --------------------------------
(***************************************************************************)
(* Transaction layer packets of the PCIe model (lib/pcie/tb/pcie.py): how  *)
(* a byte address and length become a dword address, a dword length and    *)
(* byte enables, how they are read back, and what TLP.check accepts.       *)
(*                                                                         *)
(* A byte enable field is the set of the enabled bytes of its dword        *)
(* (0..3), a dword is the sequence of its four bytes, lowest first.        *)
(***************************************************************************)
EXTENDS Integers, Sequences, FiniteSets

CONSTANTS
  Page,        \* the boundary no request may cross (0x1000 in the code)
  Rcb,         \* read completion boundary (128 in the code)
  NoTag        \* None, in a tag field

(* Bytes a memory request may move at most, from its max_payload_size or *)
(* max_read_request_size field.                                          *)
Limit(size) == Rcb * 2^size

Least(a, b) == IF a <= b THEN a ELSE b

(* The constructor: every field zero or empty.  `id' is not in the code: *)
(* it says which request a packet belongs to.                            *)
TLP == [type |-> "none", tag |-> 0, status |-> "SC", byte_count |-> 0,
        lower_address |-> 0, address |-> 0, length |-> 0,
        first_be |-> {}, last_be |-> {}, data |-> <<>>, id |-> 0]

HasData(t) == t.type \in {"MEM_WRITE", "IO_WRITE", "CFG_WRITE", "CPL_DATA"}
IsCpl(t)   == t.type \in {"CPL", "CPL_DATA"}

(* Byte enables, dword address and dword length of `length' bytes at addr. *)
set_be(t, addr, length) ==
  LET first_pad == addr % 4
      last_pad  == 3 - ((addr + length - 1) % 4)
      len       == (length + first_pad + last_pad + 3) \div 4
      first     == first_pad..3
      last      == 0..(3 - last_pad)
  IN  [t EXCEPT !.address = addr - first_pad, !.length = len,
                !.first_be = IF len = 1 THEN first \cap last ELSE first,
                !.last_be  = IF len = 1 THEN {} ELSE last]

(* Bytes to dwords; the byte count is a multiple of four at every call. *)
set_data(t, bytes) ==
  LET dws == [k \in 1..(Len(bytes) \div 4) |-> SubSeq(bytes, 4*k - 3, 4*k)]
  IN  [t EXCEPT !.data = dws, !.length = Len(dws)]

Zeros(n) == [k \in 1..n |-> 0]

set_be_data(t, addr, bytes) ==
  LET first_pad == addr % 4
      last_pad  == 3 - ((addr + Len(bytes) - 1) % 4)
  IN  set_data(set_be(t, addr, Len(bytes)),
               Zeros(first_pad) \o bytes \o Zeros(last_pad))

get_data(t) ==
  [k \in 1..(4 * Len(t.data)) |-> t.data[((k - 1) \div 4) + 1][((k - 1) % 4) + 1]]

get_first_be_offset(t) ==
  CASE t.first_be \cap 0..2 = {} -> 3
    [] t.first_be \cap 0..2 # {} /\ t.first_be \cap 0..1 = {} -> 2
    [] t.first_be \cap 0..1 # {} /\ t.first_be \cap {0} = {} -> 1
    [] OTHER -> 0

get_last_be_offset(t) ==
  LET be == IF t.length = 1 THEN t.first_be ELSE t.last_be
  IN  CASE be = {0}            -> 3
        [] be \cap 1..3 = {1}  -> 2
        [] be \cap 2..3 = {2}  -> 1
        [] OTHER               -> 0

get_be_byte_count(t) ==
  t.length * 4 - get_first_be_offset(t) - get_last_be_offset(t)

(* TLP.check.  Its length test, `0 > length > 1024', never fires and adds *)
(* nothing here.                                                          *)
check(t) ==
  /\ HasData(t) => t.length = Len(t.data)
  /\ t.type \in {"MEM_READ", "MEM_WRITE"} => t.length * 4 <= Page - (t.address % Page)
  /\ t.type \in {"IO_READ", "IO_WRITE"} => t.length = 1 /\ t.last_be = {}
  /\ t.type = "CPL_DATA" => t.byte_count + (t.lower_address % 4) + 3 >= t.length * 4

set_completion(t, has_data, status) ==
  [TLP EXCEPT !.type = IF has_data THEN "CPL_DATA" ELSE "CPL",
              !.status = status, !.tag = t.tag, !.id = t.id]

set_completion_data(t) == set_completion(t, TRUE, "SC")
set_ur_completion(t)   == set_completion(t, FALSE, "UR")

(* The byte offsets, from the request's dword address, that its byte       *)
(* enables select: those of the first dword, all of the middle ones and    *)
(* those of the last.  The write handlers pass each run of them to         *)
(* write_region; the IO read handler reads each run of them.               *)
EnabledOffsets(t) ==
  {k \in t.first_be : t.length > 0}
    \cup {k \in 4..(4 * t.length - 5) : t.length > 2}
    \cup {4 * (t.length - 1) + k : k \in {j \in t.last_be : t.length > 1}}

(***************************************************************************)
(* Serving requests.  Definitions with a suffix after an underscore are    *)
(* faulty variants of the one they precede.                                *)
(***************************************************************************)
Completions_Unaligned(t, bytes, size) ==
  LET off   == get_first_be_offset(t)
      count == get_be_byte_count(t)
      most  == Limit(size) \div 4
      addr(m) == IF m = 0 THEN t.address + off ELSE t.address + 4 * m
      dws(m)  == IF t.length - m > most
                 THEN most ELSE t.length - m
      cpl(m)  == set_data([set_completion_data(t) EXCEPT
                             !.byte_count = count - (IF m = 0 THEN 0 ELSE 4 * m - off),
                             !.lower_address = addr(m) % Rcb],
                          SubSeq(bytes, 4 * m + 1, 4 * (m + dws(m))))
      cpls[m \in 0..t.length] ==
        IF m < t.length THEN <<cpl(m)>> \o cpls[m + dws(m)] ELSE <<>>
  IN  cpls[0]

(* The completions of a read of `bytes': each carries at most the maximum  *)
(* payload, and all but the last end at a read completion boundary.  m     *)
(* dwords have gone out when cpls[m] begins.                               *)
Completions(t, bytes, size) ==
  LET off   == get_first_be_offset(t)
      count == get_be_byte_count(t)
      most  == Limit(size) \div 4
      addr(m) == IF m = 0 THEN t.address + off ELSE t.address + 4 * m
      dws(m)  == IF t.length - m > most
                 THEN most - ((addr(m) % Rcb) \div 4) ELSE t.length - m
      cpl(m)  == set_data([set_completion_data(t) EXCEPT
                             !.byte_count = count - (IF m = 0 THEN 0 ELSE 4 * m - off),
                             !.lower_address = addr(m) % Rcb],
                          SubSeq(bytes, 4 * m + 1, 4 * (m + dws(m))))
      cpls[m \in 0..t.length] ==
        IF m < t.length THEN <<cpl(m)>> \o cpls[m + dws(m)] ELSE <<>>
  IN  cpls[0]

BytesAt(bytes, addr, n) == [k \in 1..n |-> bytes[addr + k - 1]]

(* The bytes after the enabled bytes of t are written. *)
Store(bytes, t) ==
  LET d == get_data(t)
  IN  [a \in DOMAIN bytes |->
         IF a - t.address \in EnabledOffsets(t) THEN d[a - t.address + 1] ELSE bytes[a]]

(* The enabled bytes of the one dword an IO read asks for, zero elsewhere. *)
IoDword(bytes, t) ==
  [k \in 1..4 |-> IF k - 1 \in t.first_be THEN bytes[t.address + k - 1] ELSE 0]

IoReadCpl(bytes, t) ==
  [set_data(set_completion_data(t), IoDword(bytes, t)) EXCEPT !.byte_count = 4]
=============================================================================
