------------------------------ MODULE Decoders ------------------------------
(***************************************************************************)
(* How the kernel takes the arguments of an invocation out of the calling  *)
(* thread's registers and IPC buffer.  A decoder returns a record of the   *)
(* arguments it read, under the names libsel4 gives them, or the error for *)
(* a message that is too short or a label the object does not know.  What  *)
(* the decoders check beyond that depends on the capabilities, and is left *)
(* to the caller of this module.                                           *)
(***************************************************************************)
EXTENDS Naturals, Sequences, TLC

\* The bytes that a structure maps, as the masks of the decoders have them.
CONSTANTS
    PageSpan,           \* BIT(PAGE_BITS) and BIT(EPT_PT_INDEX_OFFSET)
    PageTableSpan,      \* BIT(PT_INDEX_BITS + PAGE_BITS)
    IOPageTableSpan,    \* BIT(VTD_PT_INDEX_BITS + seL4_PageBits)
    EPTPTSpan,          \* BIT(EPT_PD_INDEX_OFFSET)
    EPTPDSpan,          \* BIT(EPT_PDPT_INDEX_OFFSET)
    EPTPDPTSpan,        \* BIT(EPT_PML4_INDEX_OFFSET), 2^39: beyond any word
    CONFIG_IRQ_IOAPIC   \* the kernel drives IO-APICs

ASSUME SpansAssumption ==
    /\ {PageSpan, PageTableSpan, IOPageTableSpan, EPTPTSpan, EPTPDSpan, EPTPDPTSpan}
         \subseteq Nat \ {0}
    /\ CONFIG_IRQ_IOAPIC \in BOOLEAN

n_msgRegisters == 2

frameRegisters ==
    <<"eip", "esp", "eflags", "eax", "ebx", "ecx", "edx", "esi", "edi", "ebp">>
gpRegisters == <<"tls_base", "fs", "gs">>
Registers == frameRegisters \o gpRegisters

IllegalOperation == [error |-> "IllegalOperation"]
TruncatedMessage == [error |-> "TruncatedMessage"]
Refused(args) == "error" \in DOMAIN args
NoArgs == <<>>

\* getSyscallArg, and the extra capability found by lookupExtraCaps.
Arg(m, i) == IF i < n_msgRegisters THEN m.reg[i] ELSE m.buf.mr[i]
Cap(m, i) == m.buf.cap[i]

\* The test on length and excaprefs at the head of most decoders.
Need(m, length, caps, args) ==
    IF m.length < length \/ m.extraCaps < caps THEN TruncatedMessage ELSE args

Down(address, span) == address - (address % span)
Bit(flags, n) == (flags \div 2^n) % 2

-----------------------------------------------------------------------------
(* Memory. *)

decodeIA32PageDirectoryInvocation(m) ==
    CASE m.label = "X86PageDirectoryGetStatusBits" ->
           Need(m, 1, 0, [vaddr |-> Arg(m, 0)])
      [] OTHER -> IllegalOperation

decodeX86PageTableInvocation(m) ==
    CASE m.label = "X86PageTableUnmap" -> NoArgs
      [] m.label = "X86PageTableMap" ->
           Need(m, 2, 1, [vaddr |-> Down(Arg(m, 0), PageTableSpan),
                          attr |-> Arg(m, 1), vroot |-> Cap(m, 0)])
      [] OTHER -> IllegalOperation

\* This one looks neither at the length nor for the extra capability.
decodeX86EPTPageMap(m) ==
    [vaddr |-> Down(Arg(m, 0), PageSpan), rights |-> Arg(m, 1),
     attr |-> Arg(m, 2), vroot |-> Cap(m, 0)]

decodeX86FrameInvocation(m) ==
    CASE m.label = "X86PageMap" ->
           Need(m, 3, 1, [vaddr |-> Arg(m, 0), rights |-> Arg(m, 1),
                          attr |-> Arg(m, 2), vroot |-> Cap(m, 0)])
      [] m.label = "X86PageMapEPT" -> decodeX86EPTPageMap(m)
      [] m.label = "X86PageRemap" ->
           Need(m, 2, 1, [rights |-> Arg(m, 0), attr |-> Arg(m, 1),
                          vroot |-> Cap(m, 0)])
      [] m.label = "X86PageMapIO" ->
           Need(m, 2, 1, [rights |-> Arg(m, 0), iospace |-> Cap(m, 0),
                          ioaddr |-> Down(Arg(m, 1), PageSpan)])
      [] m.label \in {"X86PageUnmap", "X86PageGetAddress"} -> NoArgs
      [] OTHER -> IllegalOperation

decodeX86IOPTInvocation(m) ==
    CASE m.label = "X86IOPageTableUnmap" -> NoArgs
      [] m.label = "X86IOPageTableMap" ->
           Need(m, 1, 1, [ioaddr |-> Down(Arg(m, 0), IOPageTableSpan),
                          iospace |-> Cap(m, 0)])
      [] OTHER -> IllegalOperation

\* The EPT structures: these decoders do not read attr.
decodeEPTStructure(m, map, unmap, span) ==
    CASE m.label = unmap -> NoArgs
      [] m.label = map ->
           Need(m, 2, 1, [gpa |-> Down(Arg(m, 0), span), pml4 |-> Cap(m, 0)])
      [] OTHER -> IllegalOperation

\* The mask has 64 bits here: of an address in a word it leaves nothing.
decodeX86EPTPDPTInvocation(m) ==
    decodeEPTStructure(m, "X86EPTPDPTMap", "X86EPTPDPTUnmap", EPTPDPTSpan)
decodeX86EPTPDInvocation(m) ==
    decodeEPTStructure(m, "X86EPTPDMap", "X86EPTPDUnmap", EPTPDSpan)
decodeX86EPTPTInvocation(m) ==
    decodeEPTStructure(m, "X86EPTPTMap", "X86EPTPTUnmap", EPTPTSpan)

decodeX86MMUInvocation(m) ==
    CASE m.object = "asid_control" /\ m.label = "X86ASIDControlMakePool" ->
           Need(m, 2, 2, [index |-> Arg(m, 0), depth |-> Arg(m, 1),
                          untyped |-> Cap(m, 0), root |-> Cap(m, 1)])
      [] m.object = "asid_pool" /\ m.label = "X86ASIDPoolAssign" ->
           Need(m, 0, 1, [vroot |-> Cap(m, 0)])
      [] OTHER -> IllegalOperation

decodeUntypedInvocation(m) ==
    IF m.label # "UntypedRetype" THEN IllegalOperation
    ELSE Need(m, 6, 1, [type |-> Arg(m, 0), size_bits |-> Arg(m, 1),
                        node_index |-> Arg(m, 2), node_depth |-> Arg(m, 3),
                        node_offset |-> Arg(m, 4), num_objects |-> Arg(m, 5),
                        root |-> Cap(m, 0)])

-----------------------------------------------------------------------------
(* Devices and interrupts. *)

decodeX86PortInvocation(m) ==
    LET data == [X86IOPortOut8 |-> 2^8, X86IOPortOut16 |-> 2^16]
        port == Arg(m, 0) % 2^16
    IN  CASE m.label \in {"X86IOPortIn8", "X86IOPortIn16", "X86IOPortIn32"} ->
               Need(m, 1, 0, [port |-> port])
          [] m.label = "X86IOPortOut32" ->
               Need(m, 2, 0, [port |-> port, data |-> Arg(m, 1)])
          [] m.label \in DOMAIN data ->
               Need(m, 2, 0, [port |-> port, data |-> Arg(m, 1) % data[m.label]])
          [] OTHER -> IllegalOperation

Arch_decodeIRQControlInvocation(m) ==
    LET common == [index |-> Arg(m, 0), depth |-> Arg(m, 1), root |-> Cap(m, 0),
                   vector |-> Arg(m, 6)]
    IN  IF ~ CONFIG_IRQ_IOAPIC THEN IllegalOperation
        ELSE Need(m, 7, 1,
          CASE m.label = "X86IRQIssueIRQHandlerIOAPIC" ->
                 common @@ [ioapic |-> Arg(m, 2), pin |-> Arg(m, 3),
                            level |-> Arg(m, 4), polarity |-> Arg(m, 5)]
            [] m.label = "X86IRQIssueIRQHandlerMSI" ->
                 common @@ [pci_bus |-> Arg(m, 2), pci_dev |-> Arg(m, 3),
                            pci_func |-> Arg(m, 4), handle |-> Arg(m, 5)]
            [] OTHER -> IllegalOperation)

decodeIRQControlInvocation(m) ==
    IF m.label = "IRQIssueIRQHandler"
    THEN Need(m, 3, 1, [irq |-> Arg(m, 0), index |-> Arg(m, 1),
                        depth |-> Arg(m, 2), root |-> Cap(m, 0)])
    ELSE Arch_decodeIRQControlInvocation(m)

decodeIRQHandlerInvocation(m) ==
    CASE m.label \in {"IRQAckIRQ", "IRQClearIRQHandler"} -> NoArgs
      [] m.label = "IRQSetIRQHandler" ->
           Need(m, 0, 1, [notification |-> Cap(m, 0)])
      [] OTHER -> IllegalOperation

-----------------------------------------------------------------------------
(* Capabilities: index and depth name the slot the CNode is invoked for.   *)

decodeCNodeInvocation(m) ==
    LET target == [dest_index |-> Arg(m, 0), dest_depth |-> Arg(m, 1)]
        source == [src_index |-> Arg(m, 2), src_depth |-> Arg(m, 3),
                   src_root |-> Cap(m, 0)]
    IN  CASE m.label \in {"CNodeRevoke", "CNodeDelete", "CNodeSaveCaller",
                          "CNodeCancelBadgedSends"} ->
               Need(m, 2, 0, [index |-> Arg(m, 0), depth |-> Arg(m, 1)])
          [] m.label = "CNodeCopy" ->
               Need(m, 5, 1, target @@ source @@ [rights |-> Arg(m, 4)])
          [] m.label = "CNodeMint" ->
               Need(m, 6, 1, target @@ source @@
                             [rights |-> Arg(m, 4), badge |-> Arg(m, 5)])
          [] m.label = "CNodeMove" -> Need(m, 4, 1, target @@ source)
          [] m.label = "CNodeMutate" ->
               Need(m, 5, 1, target @@ source @@ [badge |-> Arg(m, 4)])
          [] m.label = "CNodeRotate" ->
               Need(m, 8, 2, target @@
                 [dest_badge |-> Arg(m, 2), pivot_index |-> Arg(m, 3),
                  pivot_depth |-> Arg(m, 4), pivot_badge |-> Arg(m, 5),
                  src_index |-> Arg(m, 6), src_depth |-> Arg(m, 7),
                  pivot_root |-> Cap(m, 0), src_root |-> Cap(m, 1)])
          [] OTHER -> IllegalOperation

-----------------------------------------------------------------------------
(* Threads. *)

decodeReadRegisters(m) ==
    Need(m, 2, 0, [suspend_source |-> Bit(Arg(m, 0), 0), count |-> Arg(m, 1)])

\* The registers are read by invokeTCB_WriteRegisters.
decodeWriteRegisters(m) ==
    IF m.length < 2 \/ m.length - 2 < Arg(m, 1) THEN TruncatedMessage
    ELSE [resume_target |-> Bit(Arg(m, 0), 0), count |-> Arg(m, 1),
          regs |-> [r \in {Registers[k] : k \in 1..Arg(m, 1)} |->
             LET k == CHOOSE k \in 1..Len(Registers) : Registers[k] = r
             IN  Arg(m, k + 1)]]

decodeCopyRegisters(m) ==
    Need(m, 1, 1, [source |-> Cap(m, 0), suspend_source |-> Bit(Arg(m, 0), 0),
                   resume_target |-> Bit(Arg(m, 0), 1),
                   transfer_frame |-> Bit(Arg(m, 0), 2),
                   transfer_integer |-> Bit(Arg(m, 0), 3)])

decodeTCBConfigure(m) ==
    Need(m, 5, 3, [fault_ep |-> Arg(m, 0), priority |-> Arg(m, 1),
                   cspace_root_data |-> Arg(m, 2), vspace_root_data |-> Arg(m, 3),
                   buffer |-> Arg(m, 4), cspace_root |-> Cap(m, 0),
                   vspace_root |-> Cap(m, 1), bufferFrame |-> Cap(m, 2)])

decodeSetIPCBuffer(m) ==
    Need(m, 1, 1, [buffer |-> Arg(m, 0), bufferFrame |-> Cap(m, 0)])

decodeSetSpace(m) ==
    Need(m, 3, 2, [fault_ep |-> Arg(m, 0), cspace_root_data |-> Arg(m, 1),
                   vspace_root_data |-> Arg(m, 2), cspace_root |-> Cap(m, 0),
                   vspace_root |-> Cap(m, 1)])

\* The breakpoint decoders do not look at the length.
decodeTCBInvocation(m) ==
    CASE m.label = "TCBReadRegisters" -> decodeReadRegisters(m)
      [] m.label = "TCBWriteRegisters" -> decodeWriteRegisters(m)
      [] m.label = "TCBCopyRegisters" -> decodeCopyRegisters(m)
      [] m.label \in {"TCBSuspend", "TCBResume", "TCBUnbindNotification"} ->
           NoArgs
      [] m.label = "TCBConfigure" -> decodeTCBConfigure(m)
      [] m.label = "TCBSetPriority" -> Need(m, 1, 0, [priority |-> Arg(m, 0)])
      [] m.label = "TCBSetMCPriority" -> Need(m, 1, 0, [mcp |-> Arg(m, 0)])
      [] m.label = "TCBSetIPCBuffer" -> decodeSetIPCBuffer(m)
      [] m.label = "TCBSetSpace" -> decodeSetSpace(m)
      [] m.label = "TCBBindNotification" ->
           Need(m, 0, 1, [notification |-> Cap(m, 0)])
      [] m.label = "TCBSetAffinity" -> Need(m, 1, 0, [affinity |-> Arg(m, 0)])
      [] m.label = "TCBSetEPTRoot" -> Need(m, 0, 1, [vcpu |-> Cap(m, 0)])
      [] m.label = "TCBConfigureSingleStepping" ->
           [bp_num |-> Arg(m, 0) % 2^16, num_instructions |-> Arg(m, 1)]
      [] m.label = "TCBSetBreakpoint" ->
           [bp_num |-> Arg(m, 0) % 2^16, vaddr |-> Arg(m, 1), type |-> Arg(m, 2),
            size |-> Arg(m, 3), rw |-> Arg(m, 4)]
      [] m.label \in {"TCBGetBreakpoint", "TCBUnsetBreakpoint"} ->
           [bp_num |-> Arg(m, 0) % 2^16]
      [] OTHER -> IllegalOperation

decodeDomainInvocation(m) ==
    IF m.label # "DomainSetSet" THEN IllegalOperation
    ELSE Need(m, 1, 1, [domain |-> Arg(m, 0), thread |-> Cap(m, 0)])

\* WriteRegisters of a VCPU has no instruction pointer.
decodeX86VCPUInvocation(m) ==
    LET names == <<"eax", "ebx", "ecx", "edx", "esi", "edi", "ebp">>
    IN  CASE m.label = "X86VCPUSetTCB" -> Need(m, 0, 1, [tcb |-> Cap(m, 0)])
          [] m.label = "X86VCPUReadVMCS" -> Need(m, 1, 0, [field |-> Arg(m, 0)])
          [] m.label = "X86VCPUWriteVMCS" ->
               Need(m, 2, 0, [field |-> Arg(m, 0), value |-> Arg(m, 1)])
          [] m.label = "X86VCPUEnableIOPort" ->
               Need(m, 2, 1, [low |-> Arg(m, 0), high |-> Arg(m, 1),
                              ioPort |-> Cap(m, 0)])
          [] m.label = "X86VCPUDisableIOPort" ->
               Need(m, 2, 0, [low |-> Arg(m, 0), high |-> Arg(m, 1)])
          [] m.label = "X86VCPUWriteRegisters" ->
               Need(m, 7, 0, [regs |-> [r \in {names[k] : k \in 1..7} |->
                 Arg(m, (CHOOSE k \in 1..7 : names[k] = r) - 1)]])
          [] OTHER -> IllegalOperation

-----------------------------------------------------------------------------
\* decodeInvocation and Arch_decodeInvocation: by the capability invoked.
decodeInvocation(m) ==
    CASE m.object = "thread" -> decodeTCBInvocation(m)
      [] m.object = "domain" -> decodeDomainInvocation(m)
      [] m.object = "cnode" -> decodeCNodeInvocation(m)
      [] m.object = "untyped" -> decodeUntypedInvocation(m)
      [] m.object = "irq_control" -> decodeIRQControlInvocation(m)
      [] m.object = "irq_handler" -> decodeIRQHandlerInvocation(m)
      [] m.object \in {"asid_control", "asid_pool"} -> decodeX86MMUInvocation(m)
      [] m.object = "io_port" -> decodeX86PortInvocation(m)
      [] m.object = "io_page_table" -> decodeX86IOPTInvocation(m)
      [] m.object = "vcpu" -> decodeX86VCPUInvocation(m)
      [] m.object = "ept_pdpt" -> decodeX86EPTPDPTInvocation(m)
      [] m.object = "ept_pd" -> decodeX86EPTPDInvocation(m)
      [] m.object = "ept_pt" -> decodeX86EPTPTInvocation(m)
      [] m.object = "page_directory" -> decodeIA32PageDirectoryInvocation(m)
      [] m.object = "page_table" -> decodeX86PageTableInvocation(m)
      [] m.object = "frame" -> decodeX86FrameInvocation(m)
=============================================================================
