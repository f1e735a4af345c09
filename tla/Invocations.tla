---------------------------- MODULE Invocations ----------------------------
(***************************************************************************)
(* A thread invokes kernel objects through the stubs of libsel4.  A stub   *)
(* leaves words 2 and up and the capabilities in the IPC buffer and hands  *)
(* the first two words to seL4_CallWithMRs, which passes them in           *)
(* registers; the kernel answers in the same places.  The buffer keeps     *)
(* what earlier calls and messages left in it.                             *)
(***************************************************************************)
EXTENDS Stubs, Decoders, FiniteSetsExt

CONSTANTS
    PPTR_USER_TOP,          \* the highest address a thread may use as TLS_BASE
    SEL_TLS, SEL_IPCBUF,    \* the segment selectors a thread may have
    Counts,                 \* values tried for the parameter count
    ErrorLengths,           \* numbers of words of the errors that are tried
    MaxCalls                \* bound on the number of calls

VARIABLES
    ipc,        \* the thread's IPC buffer: message words and capabilities
    target,     \* the registers of the thread that TCB invocations name
    last,       \* the last call: parameters, what the kernel read and answered
    calls

vars == <<ipc, target, last, calls>>

MRs == 0..14
Caps == 0..2

\* The names of the parameters of the stubs.
Params ==
    <<"index", "depth", "attr", "rights", "vroot", "vaddr", "src_root",
      "src_index", "src_depth", "port", "dest_index", "dest_depth", "root",
      "bp_num", "pml4", "gpa", "data", "badge", "arch_flags", "vector",
      "vspace_root_data", "vspace_root", "type", "priority", "notification",
      "low", "iospace", "ioaddr", "high", "field", "fault_ep",
      "cspace_root_data", "cspace_root", "bufferFrame", "buffer", "vcpu",
      "value", "untyped", "thread", "tcb", "source", "size_bits", "size", "rw",
      "polarity", "pivot_root", "pivot_index", "pivot_depth", "pivot_badge",
      "pin", "pci_func", "pci_dev", "pci_bus", "num_objects",
      "num_instructions", "node_offset", "node_index", "node_depth", "mcp",
      "level", "irq", "ioapic", "ioPort", "handle", "domain", "dest_badge",
      "affinity">>
Flags == [suspend_source |-> <<1, 1>>, resume_target |-> <<0, 1>>,
          transfer_frame |-> <<1, 0>>, transfer_integer |-> <<0, 0>>]

\* The parameters of the call: all different, within the narrowest width the
\* stubs mask them to, and other values in the next call.  The low bits of an
\* address are ones, so that every mask of a decoder shows.
Addresses == {"vaddr", "gpa", "ioaddr"}
Place(s, x) == CHOOSE k \in 1..Len(s) : s[k] = x
Value(name, b) ==
    LET k == Place(Params, name)
    IN  IF name \in Addresses THEN 1024 * k + 512 * b + 511 ELSE k + 128 * b
RegisterValue(r, b) == 300 + 20 * b + Place(Registers, r)
Given(b, count) ==
    [n \in {Params[k] : k \in 1..Len(Params)} |-> Value(n, b)]
      @@ [f \in DOMAIN Flags |-> Flags[f][b + 1]]
      @@ [count |-> count,
          regs |-> [r \in {Registers[k] : k \in 1..13} |-> RegisterValue(r, b)]]

-----------------------------------------------------------------------------
(* The user's side. *)

\* seL4_SetMR and seL4_SetCap, for all that the stub stores in the buffer.
Marshal(c) ==
    [mr |-> [j \in MRs |-> IF j \in 2..(c.length - 1) THEN c.mrs[j + 1]
                                                      ELSE ipc.mr[j]],
     cap |-> [j \in Caps |-> IF j < Len(c.caps) THEN c.caps[j + 1]
                                                ELSE ipc.cap[j]]]

\* seL4_CallWithMRs up to the system call: words beyond the length are zero.
seL4_CallWithMRs(c) ==
    [object |-> c.object, label |-> c.label, extraCaps |-> c.extraCaps,
     length |-> c.length, buf |-> Marshal(c),
     reg |-> [j \in 0..1 |-> IF j < c.length THEN c.mrs[j + 1] ELSE 0]]

\* Mutants: the registers are not stored after an error; they always are.
UnstoredErrors(reply, error) == reply.buf
StoredAlways(reply, error) ==
    [reply.buf EXCEPT !.mr[0] = reply.reg[0], !.mr[1] = reply.reg[1]]

\* "Unmarshal registers into IPC buffer on error."
AfterCall(reply, error) ==
    IF error THEN [reply.buf EXCEPT !.mr[0] = reply.reg[0],
                                    !.mr[1] = reply.reg[1]]
             ELSE reply.buf

\* "Unmarshal result": the first two words come from the registers.
Results(c, reply) ==
    [k \in 1..Len(c.results) |->
       Unmarshal(c.label, c.results[k],
                 IF k <= n_msgRegisters THEN reply.reg[k - 1]
                                        ELSE reply.buf.mr[k - 1])]

-----------------------------------------------------------------------------
(* The kernel's side. *)

\* setMR, once for each word of the answer.
setMRs(m, words) ==
    [reg |-> [j \in 0..1 |-> IF j < Len(words) THEN words[j + 1] ELSE m.reg[j]],
     buf |-> [m.buf EXCEPT !.mr =
                [j \in MRs |-> IF n_msgRegisters <= j /\ j < Len(words)
                               THEN words[j + 1] ELSE @[j]]]]

\* FLAGS: bits 1 and 9 are set, 3, 5 and 8 cleared, and 12 of them kept.
sanitiseFlags(v) ==
    MapThenSumSet(LAMBDA n : 2^n,
                  {n \in (0..11) \ {3, 5, 8} : n \in {1, 9} \/ Bit(v, n) = 1})
sanitiseRegister(r, v) ==
    CASE r = "eflags" -> sanitiseFlags(v)
      [] r = "tls_base" -> IF v > PPTR_USER_TOP THEN PPTR_USER_TOP ELSE v
      [] r \in {"fs", "gs"} -> IF v \in {SEL_TLS, SEL_IPCBUF} THEN v ELSE 0
      [] OTHER -> v

invokeTCB_WriteRegisters(regs) ==
    [r \in DOMAIN target |->
       IF r \in DOMAIN regs THEN sanitiseRegister(r, regs[r]) ELSE target[r]]

\* The registers in the order that both sides use.
invokeTCB_ReadRegisters(n) == [k \in 1..n |-> target[Registers[k]]]

\* The words the kernel answers with: registers, or some result of its own
\* of the width that the object delivers.
Answer(c, args) ==
    IF c.label = "TCBReadRegisters" THEN invokeTCB_ReadRegisters(args.count)
    ELSE [k \in 1..Len(c.results) |->
            CASE c.label = "X86IOPortIn8" -> 200 + calls
              [] c.label = "X86IOPortIn16" -> 60000 + calls
              [] c.results[k] \in {"is_enabled", "bp_was_consumed"} -> 1
              [] OTHER -> 70000 + 10 * calls + k]

\* decodeReadRegisters: between one register and all of them.
OutOfRange(c, args) ==
    c.label = "TCBReadRegisters" /\ args.count \notin 1..Len(Registers)

-----------------------------------------------------------------------------
NoCall == [label |-> "none"]

Init ==
    /\ ipc = [mr |-> [j \in MRs |-> 40000 + j], cap |-> [j \in Caps |-> 50000 + j]]
    /\ target = [r \in {Registers[k] : k \in 1..13} |->
                   IF r = "eflags" THEN sanitiseFlags(0) ELSE 0]
    /\ last = NoCall
    /\ calls = 0

\* The call c with count registers, answered with words.
Return(c, count, words, error) ==
    LET m == seL4_CallWithMRs(c)
        reply == setMRs(m, words)
    IN  /\ ipc' = AfterCall(reply, error)
        /\ last' = [label |-> c.label, length |-> c.length, count |-> count,
                    args |-> decodeInvocation(m), words |-> words,
                    error |-> error, results |-> Results(c, reply)]
        /\ calls' = calls + 1

\* The message is too short, or the object does not know the label.
Refuse(c, count) ==
    /\ Refused(decodeInvocation(seL4_CallWithMRs(c)))
    /\ Return(c, count, <<>>, TRUE)
    /\ UNCHANGED target

\* decodeReadRegisters answers the range with the error.
Range_Error(c, count) ==
    LET args == decodeInvocation(seL4_CallWithMRs(c))
    IN  /\ ~ Refused(args) /\ OutOfRange(c, args)
        /\ Return(c, count, <<1, Len(Registers)>>, TRUE)
        /\ UNCHANGED target

\* Another check fails: setMRs_syscall_error answers up to five words.
Fail(c, count) ==
    /\ ~ Refused(decodeInvocation(seL4_CallWithMRs(c)))
    /\ \E n \in ErrorLengths :
         Return(c, count, [k \in 1..n |-> 90000 + 10 * calls + k], TRUE)
    /\ UNCHANGED target

Succeed(c, count) ==
    LET args == decodeInvocation(seL4_CallWithMRs(c))
    IN  /\ ~ Refused(args) /\ ~ OutOfRange(c, args)
        /\ Return(c, count, Answer(c, args), FALSE)
        /\ target' = IF c.label = "TCBWriteRegisters"
                     THEN invokeTCB_WriteRegisters(args.regs) ELSE target

\* A call of some stub; count matters to two of them only.
Next ==
    /\ calls < MaxCalls
    /\ \E count \in Counts : \E c \in Calls(Given(calls % 2, count)) :
         /\ count = 1 \/ c.label \in {"TCBReadRegisters", "TCBWriteRegisters"}
         /\ \/ Refuse(c, count) \/ Range_Error(c, count)
            \/ Fail(c, count) \/ Succeed(c, count)

Spec == Init /\ [][Next]_vars

-----------------------------------------------------------------------------
Called == last # NoCall
Passed == Given((calls - 1) % 2, last.count)

\* The bytes that the structure mapped by a call covers.
Covered ==
    [X86PageTableMap |-> PageTableSpan, X86PageMapIO |-> PageSpan,
     X86PageMapEPT |-> PageSpan, X86IOPageTableMap |-> IOPageTableSpan,
     X86EPTPTMap |-> EPTPTSpan, X86EPTPDMap |-> EPTPDSpan,
     X86EPTPDPTMap |-> EPTPDPTSpan]

\* An address arrives as the start of the structure that covers it.
Arriving(a) ==
    IF a \in Addresses /\ last.label \in DOMAIN Covered
    THEN Down(Passed[a], Covered[last.label]) ELSE Passed[a]

\* What a decoder of the kernel reads is what the caller passed to the stub,
\* whatever the registers and the buffer held before: each argument comes
\* under its own name, an address rounded down to what is mapped there (so
\* that gpa is always 0 for an EPT PDPT, which covers more than a word can
\* address), and no stub sends too short a message.  Refused are only
\* registers beyond the last one, the two invocations of a page directory
\* that IA-32 does not have, and the interrupts of an IO-APIC or by message in
\* a kernel without IO-APICs.  The kernel does not read arch_flags, nor attr
\* for the EPT structures.
ArgumentsArrive ==
    Called =>
      IF Refused(last.args)
      THEN \/ last.label \in {"X86PageDirectoryMap", "X86PageDirectoryUnmap"}
           \/ last.label = "TCBWriteRegisters" /\ last.count > Len(Registers)
           \/ /\ ~ CONFIG_IRQ_IOAPIC
              /\ last.label \in {"X86IRQIssueIRQHandlerIOAPIC", "X86IRQIssueIRQHandlerMSI"}
      ELSE /\ \A a \in DOMAIN last.args \ {"regs"} : last.args[a] = Arriving(a)
           /\ "regs" \in DOMAIN last.args =>
                \A r \in DOMAIN last.args.regs :
                  last.args.regs[r] = Passed.regs[r]

\* The stub hands on every word that the kernel answered, and nothing that the
\* buffer held before in its place.  After a failed call the words of the
\* error are in the buffer, where seL4_GetMR finds them, although the first
\* two came in registers; after a successful one they are the results.
AnswersArrive ==
    Called => \A k \in 1..Len(last.words) :
                last.words[k] = IF last.error THEN ipc.mr[k - 1] ELSE last.results[k]

\* A call that succeeds leaves words 0 and 1 of the buffer alone: the message
\* that a server has received, or is putting together, survives the
\* invocations it makes in between.
MessageKept ==
    [][Called' /\ ~ last'.error => ipc'.mr[0] = ipc.mr[0] /\ ipc'.mr[1] = ipc.mr[1]]_vars
=============================================================================
