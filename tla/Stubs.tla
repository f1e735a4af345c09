------------------------------- MODULE Stubs -------------------------------
(***************************************************************************)
(* The system call stubs of libsel4, generated from its interface          *)
(* (interfaces/sel4_client.h): what each one puts in the tag, the capability *)
(* slots and the message registers of its call.  A stub's parameters are   *)
(* the fields of the record p.  The stubs that the configuration leaves    *)
(* out (CONFIG_VTX, CONFIG_HARDWARE_DEBUG_API, several cores) are here too. *)
(***************************************************************************)
EXTENDS Naturals, Sequences

\* Parameters narrower than a word are masked.
Bool(x) == x % 2
Uint8(x) == x % 2^8
Uint16(x) == x % 2^16

\* A call: the kind of object invoked, the tag (label, number of extra
\* capabilities, length), the capabilities set with seL4_SetCap, the message
\* words, and the fields the stub reads from the reply, in their order.
CallFor(object, label, extraCaps, length, caps, mrs, results) ==
    [object |-> object, label |-> label, extraCaps |-> extraCaps,
     length |-> length, caps |-> caps, mrs |-> mrs, results |-> results]
Call(object, label, extraCaps, length, caps, mrs) ==
    CallFor(object, label, extraCaps, length, caps, mrs, <<>>)

-----------------------------------------------------------------------------
\* Invocations of a seL4_X86_PageDirectory.
seL4_X86_PageDirectory_Map(p) ==
    Call("page_directory", "X86PageDirectoryMap", 1, 2, <<p.vroot>>,
         <<p.vaddr, p.attr>>)
seL4_X86_PageDirectory_Unmap(p) ==
    Call("page_directory", "X86PageDirectoryUnmap", 0, 0, <<>>, <<>>)
seL4_X86_PageDirectory_GetStatusBits(p) ==
    CallFor("page_directory", "X86PageDirectoryGetStatusBits", 0, 1, <<>>,
         <<p.vaddr>>, <<"accessed", "dirty">>)

\* Invocations of a seL4_X86_PageTable.
seL4_X86_PageTable_Map(p) ==
    Call("page_table", "X86PageTableMap", 1, 2, <<p.vroot>>,
         <<p.vaddr, p.attr>>)
seL4_X86_PageTable_Unmap(p) ==
    Call("page_table", "X86PageTableUnmap", 0, 0, <<>>, <<>>)

\* Invocations of a seL4_X86_IOPageTable.
seL4_X86_IOPageTable_Map(p) ==
    Call("io_page_table", "X86IOPageTableMap", 1, 1, <<p.iospace>>,
         <<p.ioaddr>>)
seL4_X86_IOPageTable_Unmap(p) ==
    Call("io_page_table", "X86IOPageTableUnmap", 0, 0, <<>>, <<>>)

\* Invocations of a seL4_X86_Page.
seL4_X86_Page_Map(p) ==
    Call("frame", "X86PageMap", 1, 3, <<p.vroot>>,
         <<p.vaddr, p.rights, p.attr>>)
seL4_X86_Page_Remap(p) ==
    Call("frame", "X86PageRemap", 1, 2, <<p.vroot>>, <<p.rights, p.attr>>)
seL4_X86_Page_Unmap(p) ==
    Call("frame", "X86PageUnmap", 0, 0, <<>>, <<>>)
seL4_X86_Page_MapIO(p) ==
    Call("frame", "X86PageMapIO", 1, 2, <<p.iospace>>, <<p.rights, p.ioaddr>>)
seL4_X86_Page_GetAddress(p) ==
    CallFor("frame", "X86PageGetAddress", 0, 0, <<>>, <<>>, <<"paddr">>)
seL4_X86_Page_MapEPT(p) ==
    Call("frame", "X86PageMapEPT", 1, 3, <<p.vroot>>,
         <<p.vaddr, p.rights, p.attr>>)

\* Invocations of a seL4_X86_ASIDControl.
seL4_X86_ASIDControl_MakePool(p) ==
    Call("asid_control", "X86ASIDControlMakePool", 2, 2, <<p.untyped, p.root>>,
         <<p.index, Uint8(p.depth)>>)

\* Invocations of a seL4_X86_ASIDPool.
seL4_X86_ASIDPool_Assign(p) ==
    Call("asid_pool", "X86ASIDPoolAssign", 1, 0, <<p.vroot>>, <<>>)

\* Invocations of a seL4_X86_IOPort.
seL4_X86_IOPort_In8(p) ==
    CallFor("io_port", "X86IOPortIn8", 0, 1, <<>>,
         <<Uint16(p.port)>>, <<"result">>)
seL4_X86_IOPort_In16(p) ==
    CallFor("io_port", "X86IOPortIn16", 0, 1, <<>>,
         <<Uint16(p.port)>>, <<"result">>)
seL4_X86_IOPort_In32(p) ==
    CallFor("io_port", "X86IOPortIn32", 0, 1, <<>>,
         <<Uint16(p.port)>>, <<"result">>)
seL4_X86_IOPort_Out8(p) ==
    Call("io_port", "X86IOPortOut8", 0, 2, <<>>, <<p.port, p.data>>)
seL4_X86_IOPort_Out16(p) ==
    Call("io_port", "X86IOPortOut16", 0, 2, <<>>, <<p.port, p.data>>)
seL4_X86_IOPort_Out32(p) ==
    Call("io_port", "X86IOPortOut32", 0, 2, <<>>, <<p.port, p.data>>)

\* Invocations of a seL4_IRQControl.
seL4_IRQControl_GetIOAPIC(p) ==
    Call("irq_control", "X86IRQIssueIRQHandlerIOAPIC", 1, 7, <<p.root>>,
         <<p.index, p.depth, p.ioapic, p.pin, p.level, p.polarity, p.vector>>)
seL4_IRQControl_GetMSI(p) ==
    Call("irq_control", "X86IRQIssueIRQHandlerMSI", 1, 7, <<p.root>>,
         <<p.index, p.depth, p.pci_bus, p.pci_dev, p.pci_func, p.handle,
           p.vector>>)

\* Invocations of a seL4_TCB.
seL4_TCB_SetEPTRoot(p) ==
    Call("thread", "TCBSetEPTRoot", 1, 0, <<p.vcpu>>, <<>>)

\* Invocations of a seL4_X86_VCPU.
seL4_X86_VCPU_SetTCB(p) ==
    Call("vcpu", "X86VCPUSetTCB", 1, 0, <<p.tcb>>, <<>>)
seL4_X86_VCPU_ReadVMCS(p) ==
    CallFor("vcpu", "X86VCPUReadVMCS", 0, 1, <<>>, <<p.field>>, <<"value">>)
seL4_X86_VCPU_WriteVMCS(p) ==
    CallFor("vcpu", "X86VCPUWriteVMCS", 0, 2, <<>>,
         <<p.field, p.value>>, <<"written">>)
seL4_X86_VCPU_EnableIOPort(p) ==
    Call("vcpu", "X86VCPUEnableIOPort", 1, 2, <<p.ioPort>>, <<p.low, p.high>>)
seL4_X86_VCPU_DisableIOPort(p) ==
    Call("vcpu", "X86VCPUDisableIOPort", 0, 2, <<>>, <<p.low, p.high>>)
seL4_X86_VCPU_WriteRegisters(p) ==
    Call("vcpu", "X86VCPUWriteRegisters", 0, 7, <<>>,
         <<p.regs.eax, p.regs.ebx, p.regs.ecx, p.regs.edx, p.regs.esi,
           p.regs.edi, p.regs.ebp>>)

\* Invocations of a seL4_X86_EPTPDPT.
seL4_X86_EPTPDPT_Map(p) ==
    Call("ept_pdpt", "X86EPTPDPTMap", 1, 2, <<p.pml4>>, <<p.gpa, p.attr>>)
seL4_X86_EPTPDPT_Unmap(p) ==
    Call("ept_pdpt", "X86EPTPDPTUnmap", 0, 0, <<>>, <<>>)

\* Invocations of a seL4_X86_EPTPD.
seL4_X86_EPTPD_Map(p) ==
    Call("ept_pd", "X86EPTPDMap", 1, 2, <<p.pml4>>, <<p.gpa, p.attr>>)
seL4_X86_EPTPD_Unmap(p) ==
    Call("ept_pd", "X86EPTPDUnmap", 0, 0, <<>>, <<>>)

\* Invocations of a seL4_X86_EPTPT.
seL4_X86_EPTPT_Map(p) ==
    Call("ept_pt", "X86EPTPTMap", 1, 2, <<p.pml4>>, <<p.gpa, p.attr>>)
seL4_X86_EPTPT_Unmap(p) ==
    Call("ept_pt", "X86EPTPTUnmap", 0, 0, <<>>, <<>>)

\* Invocations of a seL4_Untyped.
seL4_Untyped_Retype(p) ==
    Call("untyped", "UntypedRetype", 1, 6, <<p.root>>,
         <<p.type, p.size_bits, p.node_index, p.node_depth, p.node_offset,
           p.num_objects>>)

\* Invocations of a seL4_TCB.
seL4_TCB_ReadRegisters(p) ==
    CallFor("thread", "TCBReadRegisters", 0, 2, <<>>,
         <<Bool(p.suspend_source) + 256 * Uint8(p.arch_flags), p.count>>,
         <<"eip", "esp", "eflags", "eax", "ebx", "ecx", "edx", "esi", "edi",
           "ebp", "tls_base", "fs", "gs">>)
seL4_TCB_WriteRegisters(p) ==
    Call("thread", "TCBWriteRegisters", 0, 15, <<>>,
         <<Bool(p.resume_target) + 256 * Uint8(p.arch_flags), p.count,
           p.regs.eip, p.regs.esp, p.regs.eflags, p.regs.eax, p.regs.ebx,
           p.regs.ecx, p.regs.edx, p.regs.esi, p.regs.edi, p.regs.ebp,
           p.regs.tls_base, p.regs.fs, p.regs.gs>>)
seL4_TCB_CopyRegisters(p) ==
    Call("thread", "TCBCopyRegisters", 1, 1, <<p.source>>,
         <<Bool(p.suspend_source) + 2 * Bool(p.resume_target)
             + 4 * Bool(p.transfer_frame) + 8 * Bool(p.transfer_integer)
             + 256 * Uint8(p.arch_flags)>>)
seL4_TCB_Configure(p) ==
    Call("thread", "TCBConfigure", 3, 5,
         <<p.cspace_root, p.vspace_root, p.bufferFrame>>,
         <<p.fault_ep, p.priority, p.cspace_root_data, p.vspace_root_data,
           p.buffer>>)
seL4_TCB_SetPriority(p) ==
    Call("thread", "TCBSetPriority", 0, 1, <<>>, <<Uint8(p.priority)>>)
seL4_TCB_SetMCPriority(p) ==
    Call("thread", "TCBSetMCPriority", 0, 1, <<>>, <<Uint8(p.mcp)>>)
seL4_TCB_SetIPCBuffer(p) ==
    Call("thread", "TCBSetIPCBuffer", 1, 1, <<p.bufferFrame>>, <<p.buffer>>)
seL4_TCB_SetSpace(p) ==
    Call("thread", "TCBSetSpace", 2, 3, <<p.cspace_root, p.vspace_root>>,
         <<p.fault_ep, p.cspace_root_data, p.vspace_root_data>>)
seL4_TCB_Suspend(p) ==
    Call("thread", "TCBSuspend", 0, 0, <<>>, <<>>)
seL4_TCB_Resume(p) ==
    Call("thread", "TCBResume", 0, 0, <<>>, <<>>)
seL4_TCB_BindNotification(p) ==
    Call("thread", "TCBBindNotification", 1, 0, <<p.notification>>, <<>>)
seL4_TCB_UnbindNotification(p) ==
    Call("thread", "TCBUnbindNotification", 0, 0, <<>>, <<>>)
seL4_TCB_SetAffinity(p) ==
    Call("thread", "TCBSetAffinity", 0, 1, <<>>, <<p.affinity>>)
seL4_TCB_SetBreakpoint(p) ==
    Call("thread", "TCBSetBreakpoint", 0, 5, <<>>,
         <<Uint16(p.bp_num), p.vaddr, p.type, p.size, p.rw>>)
seL4_TCB_GetBreakpoint(p) ==
    CallFor("thread", "TCBGetBreakpoint", 0, 1, <<>>,
         <<Uint16(p.bp_num)>>, <<"vaddr", "type", "size", "rw", "is_enabled">>)
seL4_TCB_UnsetBreakpoint(p) ==
    Call("thread", "TCBUnsetBreakpoint", 0, 1, <<>>, <<Uint16(p.bp_num)>>)
seL4_TCB_ConfigureSingleStepping(p) ==
    CallFor("thread", "TCBConfigureSingleStepping", 0, 2, <<>>,
         <<Uint16(p.bp_num), p.num_instructions>>, <<"bp_was_consumed">>)

\* Invocations of a seL4_CNode.
seL4_CNode_Revoke(p) ==
    Call("cnode", "CNodeRevoke", 0, 2, <<>>, <<p.index, Uint8(p.depth)>>)
seL4_CNode_Delete(p) ==
    Call("cnode", "CNodeDelete", 0, 2, <<>>, <<p.index, Uint8(p.depth)>>)
seL4_CNode_CancelBadgedSends(p) ==
    Call("cnode", "CNodeCancelBadgedSends", 0, 2, <<>>,
         <<p.index, Uint8(p.depth)>>)
seL4_CNode_Copy(p) ==
    Call("cnode", "CNodeCopy", 1, 5, <<p.src_root>>,
         <<p.dest_index, Uint8(p.dest_depth), p.src_index, Uint8(p.src_depth),
           p.rights>>)

\* Mutant: the depth and the index of the source are swapped.
MintSwapped(p) ==
    Call("cnode", "CNodeMint", 1, 6, <<p.src_root>>,
         <<p.dest_index, Uint8(p.dest_depth), Uint8(p.src_depth), p.src_index,
           p.rights, p.badge>>)
seL4_CNode_Mint(p) ==
    Call("cnode", "CNodeMint", 1, 6, <<p.src_root>>,
         <<p.dest_index, Uint8(p.dest_depth), p.src_index, Uint8(p.src_depth),
           p.rights, p.badge>>)
seL4_CNode_Move(p) ==
    Call("cnode", "CNodeMove", 1, 4, <<p.src_root>>,
         <<p.dest_index, Uint8(p.dest_depth), p.src_index,
           Uint8(p.src_depth)>>)
seL4_CNode_Mutate(p) ==
    Call("cnode", "CNodeMutate", 1, 5, <<p.src_root>>,
         <<p.dest_index, Uint8(p.dest_depth), p.src_index, Uint8(p.src_depth),
           p.badge>>)
seL4_CNode_Rotate(p) ==
    Call("cnode", "CNodeRotate", 2, 8, <<p.pivot_root, p.src_root>>,
         <<p.dest_index, Uint8(p.dest_depth), p.dest_badge, p.pivot_index,
           Uint8(p.pivot_depth), p.pivot_badge, p.src_index,
           Uint8(p.src_depth)>>)
seL4_CNode_SaveCaller(p) ==
    Call("cnode", "CNodeSaveCaller", 0, 2, <<>>, <<p.index, Uint8(p.depth)>>)

\* Invocations of a seL4_IRQControl.
seL4_IRQControl_Get(p) ==
    Call("irq_control", "IRQIssueIRQHandler", 1, 3, <<p.root>>,
         <<p.irq, p.index, Uint8(p.depth)>>)

\* Invocations of a seL4_IRQHandler.
seL4_IRQHandler_Ack(p) ==
    Call("irq_handler", "IRQAckIRQ", 0, 0, <<>>, <<>>)
seL4_IRQHandler_SetNotification(p) ==
    Call("irq_handler", "IRQSetIRQHandler", 1, 0, <<p.notification>>, <<>>)
seL4_IRQHandler_Clear(p) ==
    Call("irq_handler", "IRQClearIRQHandler", 0, 0, <<>>, <<>>)

\* Invocations of a seL4_DomainSet.
seL4_DomainSet_Set(p) ==
    Call("domain", "DomainSetSet", 1, 1, <<p.thread>>, <<Uint8(p.domain)>>)

-----------------------------------------------------------------------------
\* What a stub makes of a word of the reply.
Unmarshal(label, field, word) ==
    CASE label = "X86IOPortIn8" -> word % 2^8
      [] label = "X86IOPortIn16" -> word % 2^16
      [] field \in {"is_enabled", "bp_was_consumed"} -> word % 2
      [] OTHER -> word

\* The calls that the stubs make for the parameters p.
Calls(p) ==
    {seL4_X86_PageDirectory_Map(p), seL4_X86_PageDirectory_Unmap(p),
     seL4_X86_PageDirectory_GetStatusBits(p), seL4_X86_PageTable_Map(p),
     seL4_X86_PageTable_Unmap(p), seL4_X86_IOPageTable_Map(p),
     seL4_X86_IOPageTable_Unmap(p), seL4_X86_Page_Map(p),
     seL4_X86_Page_Remap(p), seL4_X86_Page_Unmap(p), seL4_X86_Page_MapIO(p),
     seL4_X86_Page_GetAddress(p), seL4_X86_Page_MapEPT(p),
     seL4_X86_ASIDControl_MakePool(p), seL4_X86_ASIDPool_Assign(p),
     seL4_X86_IOPort_In8(p), seL4_X86_IOPort_In16(p), seL4_X86_IOPort_In32(p),
     seL4_X86_IOPort_Out8(p), seL4_X86_IOPort_Out16(p),
     seL4_X86_IOPort_Out32(p), seL4_IRQControl_GetIOAPIC(p),
     seL4_IRQControl_GetMSI(p), seL4_TCB_SetEPTRoot(p),
     seL4_X86_VCPU_SetTCB(p), seL4_X86_VCPU_ReadVMCS(p),
     seL4_X86_VCPU_WriteVMCS(p), seL4_X86_VCPU_EnableIOPort(p),
     seL4_X86_VCPU_DisableIOPort(p), seL4_X86_VCPU_WriteRegisters(p),
     seL4_X86_EPTPDPT_Map(p), seL4_X86_EPTPDPT_Unmap(p),
     seL4_X86_EPTPD_Map(p), seL4_X86_EPTPD_Unmap(p), seL4_X86_EPTPT_Map(p),
     seL4_X86_EPTPT_Unmap(p), seL4_Untyped_Retype(p),
     seL4_TCB_ReadRegisters(p), seL4_TCB_WriteRegisters(p),
     seL4_TCB_CopyRegisters(p), seL4_TCB_Configure(p),
     seL4_TCB_SetPriority(p), seL4_TCB_SetMCPriority(p),
     seL4_TCB_SetIPCBuffer(p), seL4_TCB_SetSpace(p), seL4_TCB_Suspend(p),
     seL4_TCB_Resume(p), seL4_TCB_BindNotification(p),
     seL4_TCB_UnbindNotification(p), seL4_TCB_SetAffinity(p),
     seL4_TCB_SetBreakpoint(p), seL4_TCB_GetBreakpoint(p),
     seL4_TCB_UnsetBreakpoint(p), seL4_TCB_ConfigureSingleStepping(p),
     seL4_CNode_Revoke(p), seL4_CNode_Delete(p),
     seL4_CNode_CancelBadgedSends(p), seL4_CNode_Copy(p), seL4_CNode_Mint(p),
     seL4_CNode_Move(p), seL4_CNode_Mutate(p), seL4_CNode_Rotate(p),
     seL4_CNode_SaveCaller(p), seL4_IRQControl_Get(p), seL4_IRQHandler_Ack(p),
     seL4_IRQHandler_SetNotification(p), seL4_IRQHandler_Clear(p),
     seL4_DomainSet_Set(p)}
=============================================================================
