----------------------------- MODULE PcieConfig -----------------------------
(***************************************************************************)
(* The configuration space of a function (pcie.py): the header registers of *)
(* an endpoint or a bridge, and the linked list of capabilities behind them *)
(* that the mixin constructors and the device models build with             *)
(* register_capability.  A register and an attribute are sets of bit        *)
(* numbers, a byte enable a set of byte numbers.  The read methods and the  *)
(* write methods place the attributes in the registers independently: each  *)
(* has a table of its own, and an attribute may have rows at two registers. *)
(***************************************************************************)
EXTENDS Integers, Sequences, FiniteSets, SequencesExt, FiniteSetsExt, TLC

CONSTANTS
    Mixins,         \* families of functions: header, order of constructors, explicit offsets
    Writes          \* bound: Writes[k] are the <<byte enable, data>> of the k-th
                    \* write; a behaviour writes one register so often

VARIABLES
    family,         \* which family the function belongs to, <<>> before it is built
    caps,           \* PcieCapList.list: id, offset, length, next
    cap_ptr,        \* register 13
    todo,           \* registrations still to come
    field,          \* value of every attribute: a set of bits
    last,           \* history: the last write, and all registers before it
    writes

configVars == <<family, caps, cap_ptr, todo, field, last, writes>>

-----------------------------------------------------------------------------
(* PcieCapList: offsets and lengths in double words *)

CapStart == 16
CapEnd == 63
CapLength == [PM |-> 2, MSI |-> 6, MSIX |-> 3, PCIE |-> 15]
None == -1

CapRange(c) == c.off..(c.off + c.len - 1)

(* register without an offset: behind every capability in the way. *)
AutoOffset(list, len) ==
    FoldLeft(LAMBDA off, c : IF c.off < off + len - 1 /\ off <= c.off + c.len - 1
                             THEN c.off + c.len ELSE off, CapStart, list)

Relink_KeepTail(list) ==
    LET s == SortSeq(list, LAMBDA c, d : c.off < d.off)
    IN  [k \in DOMAIN s |-> [s[k] EXCEPT !.next = IF k < Len(s) THEN s[k + 1].off * 4 ELSE @]]

(* Sort by offset and renew the next pointers; a list of one keeps the      *)
(* pointer that its element has.                                            *)
Relink(list) ==
    LET s == SortSeq(list, LAMBDA c, d : c.off < d.off)
    IN  IF Len(s) = 1 THEN s
        ELSE [k \in DOMAIN s |-> [s[k] EXCEPT !.next = IF k < Len(s) THEN s[k + 1].off * 4 ELSE 0]]

AddAuto(list, c) == Relink(Append(list, [c EXCEPT !.off = AutoOffset(list, c.len)]))

(* PcieCapList.register: an explicit offset displaces the capabilities in   *)
(* its way, which are then registered again without one.                    *)
register(list, id, off) ==
    LET old    == SelectSeq(list, LAMBDA c : c.id = id)
        others == SelectSeq(list, LAMBDA c : c.id # id)
        base   == IF old # <<>> THEN old[1]
                  ELSE [id |-> id, len |-> CapLength[id], off |-> None, next |-> None]
        new    == IF off # None THEN [base EXCEPT !.off = off] ELSE base
        inWay(c) == CapRange(c) \cap CapRange(new) # {}
    IN  IF new.off = None THEN AddAuto(others, new)
        ELSE FoldLeft(AddAuto, Relink(Append(SelectSeq(others, LAMBDA c : ~inWay(c)), new)),
                      SelectSeq(others, inWay))

find_by_reg(r) == SelectSeq(caps, LAMBDA c : r \in CapRange(c))

-----------------------------------------------------------------------------
(* Reads: bits bit.. of attribute name appear at pos.. of a register.       *)
(* Writes: they are taken from there, their first byte under byte enable    *)
(* byte, the next under the next.  Status bits that a write of one clears   *)
(* are never set by any code of the repository and have no row.             *)
Row(r, n, b, p, w) == [reg |-> r, name |-> n, bit |-> b, pos |-> p, width |-> w]
Flags(r, at) == {Row(r, at[i][1], 0, at[i][2], 1) : i \in DOMAIN at}
WRow(r, n, b, p, w, e) == [reg |-> r, name |-> n, bit |-> b, pos |-> p, width |-> w, byte |-> e]
WFlags(r, e, at) == {WRow(r, at[i][1], 0, at[i][2], 1, e) : i \in DOMAIN at}

(* read_pcie_cap_register *)
PcieCapReads ==
    {Row(0, "pcie_device_type", 0, 20, 4), Row(0, "pcie_slot_implemented", 0, 24, 1),
     Row(0, "interrupt_message_number", 0, 25, 5), Row(1, "max_payload_size_supported", 0, 0, 3),
     Row(1, "phantom_functions_supported", 0, 3, 2), Row(1, "extended_tag_supported", 0, 5, 1),
     Row(1, "endpoint_l0s_acceptable_latency", 0, 6, 3), Row(1, "endpoint_l1_acceptable_latency", 0, 9, 3),
     Row(1, "role_based_error_reporting", 0, 15, 1), Row(2, "max_payload_size", 0, 5, 3),
     Row(2, "max_read_request_size", 0, 12, 3), Row(3, "max_link_speed", 0, 0, 4),
     Row(3, "port_number", 0, 24, 8), Row(4, "aspm_control", 0, 0, 2),
     Row(4, "current_link_speed", 0, 16, 4), Row(4, "negotiated_link_width", 0, 20, 6),
     Row(5, "slot_power_limit_value", 0, 7, 8), Row(5, "slot_power_limit_scale", 0, 15, 2),
     Row(5, "physical_slot_number", 0, 19, 13), Row(6, "attention_indicator_control", 0, 6, 2),
     Row(6, "power_indicator_control", 0, 8, 2), Row(8, "pme_requester_id", 0, 0, 16),
     Row(9, "completion_timeout_ranges_supported", 0, 0, 4), Row(10, "completion_timeout_value", 0, 0, 4),
     Row(10, "obff_enable", 0, 13, 2), Row(11, "supported_link_speeds", 0, 1, 7),
     Row(12, "target_link_speed", 0, 0, 4), Row(12, "transmit_margin", 0, 7, 3),
     Row(12, "compliance_preset_de_emphasis", 0, 12, 4)}
    \cup Flags(2, <<<<"correctable_error_reporting_enable", 0>>, <<"non_fatal_error_reporting_enable", 1>>,
          <<"fatal_error_reporting_enable", 2>>, <<"unsupported_request_reporting_enable", 3>>,
          <<"enable_relaxed_ordering", 4>>, <<"extended_tag_field_enable", 8>>,
          <<"phantom_functions_enable", 9>>, <<"aux_power_pm_enable", 10>>, <<"enable_no_snoop", 11>>>>)
    \cup Flags(4, <<<<"read_completion_boundary", 3>>, <<"link_disable", 4>>,
          <<"common_clock_configuration", 6>>, <<"extended_synch", 7>>,
          <<"enable_clock_power_management", 8>>, <<"hardware_autonomous_width_disable", 9>>,
          <<"link_bandwidth_management_interrupt_enable", 10>>,
          <<"link_autonomous_bandwidth_interrupt_enable", 11>>>>)
    \cup Flags(6, <<<<"attention_button_pressed_enable", 0>>, <<"power_fault_detected_enable", 1>>,
          <<"mrl_sensor_changed_enable", 2>>, <<"presence_detect_changed_enable", 3>>,
          <<"command_completed_interrupt_enable", 4>>, <<"hot_plug_interrupt_enable", 5>>,
          <<"power_controller_control", 10>>, <<"electromechanical_interlock_control", 11>>,
          <<"data_link_layer_state_changed_enable", 12>>>>)
    \cup Flags(7, <<<<"system_error_on_correctable_error_enable", 0>>,
          <<"system_error_on_non_fatal_error_enable", 1>>, <<"system_error_on_fatal_error_enable", 2>>,
          <<"pme_interrupt_enable", 3>>, <<"crs_software_visibility_enable", 4>>>>)
    \cup Flags(10, <<<<"completion_timeout_disable", 4>>, <<"ari_forwarding_enable", 5>>,
          <<"atomic_op_requester_enable", 6>>, <<"atomic_op_egress_blocking", 7>>,
          <<"ido_request_enable", 8>>, <<"ido_completion_enable", 9>>, <<"ltr_mechanism_enable", 10>>,
          <<"end_end_tlp_prefix_blocking", 15>>>>)
    \cup Flags(12, <<<<"enter_compliance", 4>>, <<"hardware_autonomous_speed_disable", 5>>,
          <<"selectable_de_emphasis", 6>>, <<"enter_modified_compliance", 10>>, <<"compliance_sos", 11>>>>)

(* write_pcie_cap_register *)
PcieCapWrites ==
    {WRow(2, "max_payload_size", 0, 5, 3, 0), WRow(2, "max_read_request_size", 0, 12, 3, 1),
     WRow(4, "aspm_control", 0, 0, 2, 0), WRow(6, "attention_indicator_control", 0, 6, 2, 0),
     WRow(6, "power_indicator_control", 0, 8, 2, 1), WRow(10, "completion_timeout_value", 0, 0, 4, 0),
     WRow(10, "obff_enable", 0, 13, 2, 1), WRow(12, "target_link_speed", 0, 0, 4, 0),
     WRow(12, "transmit_margin", 0, 7, 1, 0), WRow(12, "transmit_margin", 1, 8, 2, 1),
     WRow(12, "compliance_preset_de_emphasis", 0, 12, 8, 1)}
    \cup WFlags(2, 0, <<<<"correctable_error_reporting_enable", 0>>,
          <<"non_fatal_error_reporting_enable", 1>>, <<"fatal_error_reporting_enable", 2>>,
          <<"unsupported_request_reporting_enable", 3>>, <<"enable_relaxed_ordering", 4>>>>)
    \cup WFlags(2, 1, <<<<"extended_tag_field_enable", 8>>, <<"phantom_functions_enable", 9>>,
          <<"aux_power_pm_enable", 10>>, <<"enable_no_snoop", 11>>>>)
    \cup WFlags(4, 0, <<<<"read_completion_boundary", 4>>, <<"common_clock_configuration", 6>>,
          <<"extended_synch", 7>>>>)
    \cup WFlags(4, 1, <<<<"enable_clock_power_management", 8>>, <<"hardware_autonomous_width_disable", 9>>,
          <<"link_bandwidth_management_interrupt_enable", 10>>,
          <<"link_autonomous_bandwidth_interrupt_enable", 11>>>>)
    \cup WFlags(6, 0, <<<<"attention_button_pressed_enable", 0>>, <<"power_fault_detected_enable", 1>>,
          <<"mrl_sensor_changed_enable", 2>>, <<"presence_detect_changed_enable", 3>>,
          <<"command_completed_interrupt_enable", 4>>, <<"hot_plug_interrupt_enable", 5>>>>)
    \cup WFlags(6, 1, <<<<"power_controller_control", 10>>, <<"electromechanical_interlock_control", 11>>,
          <<"data_link_layer_state_changed_enable", 12>>>>)
    \cup WFlags(7, 0, <<<<"system_error_on_correctable_error_enable", 0>>,
          <<"system_error_on_non_fatal_error_enable", 1>>, <<"system_error_on_fatal_error_enable", 2>>,
          <<"pme_interrupt_enable", 3>>, <<"crs_software_visibility_enable", 4>>>>)
    \cup WFlags(10, 0, <<<<"completion_timeout_disable", 4>>, <<"ari_forwarding_enable", 5>>,
          <<"atomic_op_requester_enable", 6>>, <<"atomic_op_egress_blocking", 7>>>>)
    \cup WFlags(10, 1, <<<<"ido_request_enable", 8>>, <<"ido_completion_enable", 9>>,
          <<"ltr_mechanism_enable", 10>>, <<"end_end_tlp_prefix_blocking", 15>>>>)
    \cup WFlags(12, 0, <<<<"enter_compliance", 4>>, <<"hardware_autonomous_speed_disable", 5>>>>)
    \cup WFlags(12, 1, <<<<"enter_modified_compliance", 10>>, <<"compliance_sos", 11>>>>)

(* PMCapability: a to-do in the code, nothing is written. *)
PmCapReads == {Row(0, "pm_capabilities", 0, 16, 16), Row(1, "pm_control_status", 0, 0, 16),
               Row(1, "pm_data", 0, 24, 8)}

(* MSICapability, 64-bit addresses and no per-vector masks. *)
MsiCapReads ==
    {Row(0, "msi_enable", 0, 16, 1), Row(0, "msi_multiple_message_capable", 0, 17, 3),
     Row(0, "msi_multiple_message_enable", 0, 20, 3), Row(0, "msi_64bit_address_capable", 0, 23, 1),
     Row(1, "msi_message_address", 2, 2, 30), Row(2, "msi_message_address", 32, 0, 32),
     Row(3, "msi_message_data", 0, 0, 16)}
MsiCapWrites ==
    {WRow(0, "msi_enable", 0, 16, 1, 2), WRow(0, "msi_multiple_message_enable", 0, 20, 3, 2),
     WRow(1, "msi_message_address", 2, 2, 30, 0), WRow(2, "msi_message_address", 32, 0, 32, 0),
     WRow(3, "msi_message_data", 0, 0, 16, 0)}

(* MSIXCapability *)
MsixCapReads ==
    {Row(0, "msix_table_size", 0, 16, 11), Row(0, "msix_function_mask", 0, 30, 1),
     Row(0, "msix_enable", 0, 31, 1), Row(1, "msix_table", 0, 0, 32), Row(2, "msix_pba", 0, 0, 32)}
MsixCapWrites == WFlags(0, 3, <<<<"msix_function_mask", 30>>, <<"msix_enable", 31>>>>)

CapReads(id) == CASE id = "PM" -> PmCapReads [] id = "MSI" -> MsiCapReads
                  [] id = "MSIX" -> MsixCapReads [] id = "PCIE" -> PcieCapReads
CapWrites(id) == CASE id = "PM" -> {} [] id = "MSI" -> MsiCapWrites
                   [] id = "MSIX" -> MsixCapWrites [] id = "PCIE" -> PcieCapWrites

(* Function.read_config_register and write_config_register, registers 0 to 15 *)
CommonReads ==
    {Row(0, "vendor_device_id", 0, 0, 32), Row(2, "class_rev", 0, 0, 32), Row(3, "cache_ln", 0, 0, 8),
     Row(3, "lat_timer", 0, 8, 8), Row(3, "header_type", 0, 16, 8), Row(3, "bist", 0, 24, 8),
     Row(15, "intr_line", 0, 0, 8), Row(15, "intr_pin", 0, 8, 8)}
    \cup Flags(1, <<<<"bus_master_enable", 2>>, <<"parity_error_response", 6>>, <<"serr_enable", 8>>,
                    <<"interrupt_disable", 10>>, <<"capabilities_list", 20>>>>)
CommonWrites ==
    {WRow(3, "cache_ln", 0, 0, 8, 0), WRow(3, "lat_timer", 0, 8, 8, 1), WRow(3, "bist", 0, 24, 8, 3),
     WRow(15, "intr_line", 0, 0, 8, 0), WRow(15, "intr_pin", 0, 8, 8, 1)}
    \cup WFlags(1, 0, <<<<"bus_master_enable", 2>>, <<"parity_error_response", 6>>>>)
    \cup WFlags(1, 1, <<<<"serr_enable", 8>>, <<"interrupt_disable", 10>>>>)

(* Endpoint.read_config_register and write_config_register: one BAR, of     *)
(* 64 KB, so that its mask leaves the lower bits at zero.                   *)
EndpointReads ==
    {Row(4, "bar0", 16, 16, 16), Row(10, "cardbus_cis", 0, 0, 32), Row(11, "subsystem", 0, 0, 32),
     Row(12, "expansion_rom_addr", 0, 0, 32)}
EndpointWrites == {WRow(4, "bar0", 16, 16, 16, 2), WRow(12, "expansion_rom_addr", 0, 0, 32, 0)}

(* Bridge.read_config_register and write_config_register.  The low bits of  *)
(* the limits, always ones, are read nowhere.  Register 15 is left out: its *)
(* write reads an attribute that bridges do not have.                       *)
BridgeReads ==
    {Row(6, "pri_bus_num", 0, 0, 8), Row(6, "sec_bus_num", 0, 8, 8), Row(6, "sub_bus_num", 0, 16, 8),
     Row(6, "sec_lat_timer", 0, 24, 8), Row(7, "io_base", 12, 4, 4), Row(7, "io_limit", 12, 12, 4),
     Row(8, "mem_base", 20, 4, 12), Row(8, "mem_limit", 20, 20, 12),
     Row(9, "prefetchable_mem_base", 20, 4, 12), Row(9, "prefetchable_mem_limit", 20, 20, 12),
     Row(10, "prefetchable_mem_base", 32, 0, 32), Row(11, "prefetchable_mem_limit", 32, 0, 32),
     Row(12, "io_base", 16, 0, 16), Row(12, "io_limit", 16, 16, 16), Row(14, "expansion_rom_addr", 0, 0, 32)}
BridgeWrites ==
    {WRow(6, "pri_bus_num", 0, 0, 8, 0), WRow(6, "sec_bus_num", 0, 8, 8, 1),
     WRow(6, "sub_bus_num", 0, 16, 8, 2), WRow(6, "sec_lat_timer", 0, 24, 8, 3),
     WRow(7, "io_base", 12, 4, 4, 0), WRow(7, "io_limit", 12, 12, 4, 1),
     WRow(8, "mem_base", 20, 4, 12, 0), WRow(8, "mem_limit", 20, 20, 12, 2),
     WRow(9, "prefetchable_mem_base", 20, 4, 12, 0), WRow(9, "prefetchable_mem_limit", 20, 20, 12, 2),
     WRow(10, "prefetchable_mem_base", 32, 0, 32, 0), WRow(11, "prefetchable_mem_limit", 32, 0, 32, 0),
     WRow(12, "io_base", 16, 0, 16, 0), WRow(12, "io_limit", 16, 16, 16, 2),
     WRow(14, "expansion_rom_addr", 0, 0, 32, 0)}

HeaderReads == CommonReads \cup (IF family.header = "endpoint" THEN EndpointReads ELSE BridgeReads)
HeaderWrites == CommonWrites \cup (IF family.header = "endpoint" THEN EndpointWrites ELSE BridgeWrites)

Attributes == {row.name : row \in UNION {CommonReads, EndpointReads, BridgeReads, PmCapReads, MsiCapReads,
                                        MsixCapReads, PcieCapReads}}

(* The rows at a register of the configuration space: the header's, or at   *)
(* the offset inside it those of the capability that find_by_reg finds.     *)
RowsOf(rows, reg) == {row \in rows : row.reg = reg}

ReadsAt(r) ==
    IF r < CapStart THEN RowsOf(HeaderReads, r)
    ELSE IF find_by_reg(r) = <<>> THEN {}
    ELSE LET c == Head(find_by_reg(r)) IN RowsOf(CapReads(c.id), r - c.off)
WritesAt(r) ==
    IF r < CapStart THEN RowsOf(HeaderWrites, r)
    ELSE IF find_by_reg(r) = <<>> THEN {}
    ELSE LET c == Head(find_by_reg(r)) IN RowsOf(CapWrites(c.id), r - c.off)

(* read_config_register *)
ReadReg(vals, r) ==
    UNION {{row.pos + b - row.bit : b \in vals[row.name] \cap (row.bit..(row.bit + row.width - 1))} :
             row \in ReadsAt(r)}

(* The byte enable that bit i of a written row is under. *)
EnableOf(row, i) == row.byte + ((row.bit + i) \div 8) - (row.bit \div 8)

NewValue_AllBytes(n, rows, data, mask) ==
    UNION {{row.bit + i : i \in {j \in 0..(row.width - 1) : row.pos + j \in data}} :
             row \in {w \in rows : w.name = n}}

(* write_config_register: the enabled bits of the attribute take the data   *)
(* (byte_mask_update), the others stay.                                     *)
NewValue(n, rows, data, mask) ==
    LET mine == {row \in rows : row.name = n}
        on(row) == {i \in 0..(row.width - 1) : EnableOf(row, i) \in mask}
    IN  (field[n] \ UNION {{row.bit + i : i \in on(row)} : row \in mine})
        \cup UNION {{row.bit + i : i \in {j \in on(row) : row.pos + j \in data}} : row \in mine}

-----------------------------------------------------------------------------
(* Values after the constructors: the attributes that are not 0 or False. *)
InitialValue(name) ==
    CASE name = "max_payload_size_supported" -> {0, 2}
      [] name = "endpoint_l0s_acceptable_latency" -> {0, 1, 2}
      [] name = "endpoint_l1_acceptable_latency" -> {0, 1, 2}
      [] name = "max_read_request_size" -> {1}
      [] name \in {"extended_tag_supported", "role_based_error_reporting", "enable_relaxed_ordering",
                   "enable_no_snoop", "capabilities_list", "msi_64bit_address_capable"} -> {0}
      [] OTHER -> {}

NoWrite == [reg |-> None]

ConfigInit ==
    /\ family = <<>> /\ caps = <<>> /\ cap_ptr = 0 /\ todo = <<>>
    /\ field = [n \in Attributes |-> InitialValue(n)]
    /\ last = NoWrite /\ writes = 0

(* A function is built: the constructors of its mixins register their       *)
(* capabilities, then its own constructor moves them to explicit offsets.   *)
Build ==
    /\ family = <<>>
    /\ \E m \in Mixins : family' = m /\ todo' = m.order
    /\ UNCHANGED <<caps, cap_ptr, field, last, writes>>

(* register_capability; after it cap_ptr points at the first capability. *)
register_capability ==
    /\ todo # <<>>
    /\ caps' = register(caps, Head(todo)[1], Head(todo)[2])
    /\ cap_ptr' = caps'[1].off * 4
    /\ todo' = Tail(todo)
    /\ UNCHANGED <<family, field, last, writes>>

Registers == {r \in 0..(CapEnd + 1) : ReadsAt(r) # {}} \ (IF family.header = "bridge" THEN {15} ELSE {})

(* handle_config_0_tlp with a configuration write *)
ConfigWrite ==
    /\ family # <<>> /\ todo = <<>> /\ writes < Len(Writes)
    /\ \E r \in Registers, w \in Writes[writes + 1] :
          /\ writes > 0 => r = last.reg
          /\ LET rows == WritesAt(r)
             IN  field' = [n \in {row.name : row \in rows} |-> NewValue(n, rows, w[2], w[1])] @@ field
          /\ last' = [reg |-> r, mask |-> w[1], data |-> w[2],
                      before |-> [q \in Registers |-> ReadReg(field, q)]]
    /\ writes' = writes + 1
    /\ UNCHANGED <<family, caps, cap_ptr, todo>>

ConfigNext == Build \/ register_capability \/ ConfigWrite
ConfigSpec == ConfigInit /\ [][ConfigNext]_configVars

-----------------------------------------------------------------------------
(* Properties *)

CapAt(ptr) == {c \in Range(caps) : c.off * 4 = ptr}

(* The capabilities that enumerate_segment's walk meets, from a pointer on: *)
(* a pointer has eight bits, the two lowest of them ignored.                *)
RECURSIVE Walk(_, _)
Walk(ptr, seen) ==
    IF ptr = 0 \/ Len(seen) > Len(caps) THEN seen
    ELSE IF CapAt(ptr) = {} THEN Append(seen, "lost")
    ELSE LET c == CHOOSE c \in CapAt(ptr) : TRUE IN Walk(c.next % 256, Append(seen, c.id))

(* Once a function is built, in whatever order its capabilities were moved  *)
(* and displaced one another, no two of them share a register, all stay     *)
(* inside the configuration space, and the walk that enumeration makes from *)
(* cap_ptr finds each of them exactly once.                                 *)
CapabilitiesFound ==
    family # <<>> /\ todo = <<>> =>
    /\ \A c, d \in Range(caps) : c # d => CapRange(c) \cap CapRange(d) = {}
    /\ \A c \in Range(caps) : CapRange(c) \subseteq CapStart..CapEnd
    /\ Walk(cap_ptr, <<>>) = [k \in DOMAIN caps |-> caps[k].id]

(* A configuration write is a write of that register alone: whatever the    *)
(* registers held, its writable bits under the byte enables read back as    *)
(* written, and every other bit of it and of all other registers reads as   *)
(* before, those that hold another part of the same attribute included.     *)
(* One bit is an exception: read_completion_boundary, read at bit 3 of the  *)
(* link control register, takes what was written to bit 4.                  *)
WriteReadsBack ==
    last # NoWrite =>
       LET writable == UNION {row.pos..(row.pos + row.width - 1) :
                          row \in {x \in ReadsAt(last.reg) : \E w \in WritesAt(last.reg) : w.name = x.name}}
           rcb == {row.pos : row \in {x \in ReadsAt(last.reg) : x.name = "read_completion_boundary"}}
           from(b) == IF b \in rcb THEN b + 1 ELSE b
       IN  \A r \in Registers :
             ReadReg(field, r) =
               IF r # last.reg THEN last.before[r]
               ELSE {b \in 0..31 : IF b \in writable /\ b \div 8 \in last.mask THEN from(b) \in last.data
                                   ELSE b \in last.before[r]}
=============================================================================
