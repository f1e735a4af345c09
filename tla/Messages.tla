------------------------------ MODULE Messages ------------------------------
(***************************************************************************)
(* The words of a message on their way from one thread to another: the     *)
(* system-call functions of libsel4, which put the first two words into    *)
(* registers and leave the others in the buffer; the kernel, which copies  *)
(* both; and the faults of a thread, which the kernel turns into messages. *)
(* A client sends, calls or faults; a server receives and answers.  Each   *)
(* function comes in two forms: the plain one uses words 0 and 1 of the    *)
(* buffer, the one with MRs two variables of the caller, either of which   *)
(* may be left out.                                                        *)
(***************************************************************************)
EXTENDS Naturals, Sequences, FiniteSets

CONSTANTS
    Lengths,        \* lengths of the messages the program sends
    Pointers,       \* which of mr0 and mr1 it passes: a set of subsets of {0, 1}
    MaxMessages     \* bound on messages sent and faults taken

Threads == {"client", "server"}
n_msgRegisters == 2
Regs == 0..(n_msgRegisters - 1)
Words == 0..10                  \* as many as the longest message has

\* The registers of a fault message, as fault_messages lists them.
Syscall_Message ==
    <<"EAX", "EBX", "ECX", "EDX", "ESI", "EDI", "EBP", "FaultIP", "ESP", "FLAGS">>
Exception_Message == <<"FaultIP", "ESP", "FLAGS">>
Registers == {Syscall_Message[k] : k \in 1..Len(Syscall_Message)}

VARIABLES
    buf,        \* the message words of each thread's buffer
    local,      \* the variables it passes to the functions with MRs
    regs,       \* its message registers
    call,       \* the system call it is in or the last it made
    frame,      \* the client's registers, as a fault sees them
    fault,      \* the client's fault, or none
    info,       \* label and length of the message received last
    sent,       \* the words of the last message meant for each thread
    count       \* messages and faults so far

vars == <<buf, local, regs, call, frame, fault, info, sent, count>>

\* A word is known by the message that it was written for.
Word(k, name) == <<k, name>>
Zero == Word(0, "zero")
Junk == Word(0, "junk")
MR == <<"mr0", "mr1", "mr2", "mr3", "mr4", "mr5", "mr6", "mr7", "mr8", "mr9", "mr10">>

NoFault == [kind |-> "NullFault", luf |-> "none", values |-> <<>>]
Entered(fn, ptrs, both, state) ==
    [fn |-> fn, ptrs |-> ptrs, both |-> both, state |-> state]
Other(t) == IF t = "client" THEN "server" ELSE "client"

Init ==
    /\ buf = [t \in Threads |-> [i \in Words |-> Junk]]
    /\ local = [t \in Threads |-> [i \in Regs |-> Junk]]
    /\ regs = [t \in Threads |-> [i \in Regs |-> Junk]]
    /\ call = [t \in Threads |-> Entered("plain", {}, FALSE, "user")]
    /\ frame = [r \in Registers |-> Word(0, r)]
    /\ fault = NoFault
    /\ info = [t \in Threads |-> [label |-> "none", length |-> 0]]
    /\ sent = [t \in Threads |-> <<>>]
    /\ count = 0

-----------------------------------------------------------------------------
(* The functions of libsel4 before the system call.  The program has put   *)
(* its words where the form of the call wants them.                        *)

\* What the program means to send: a pointer left out stands for a zero.
Meant(t, k, fn, ptrs, len) ==
    [i \in 0..(len - 1) |->
       IF fn = "MRs" /\ i \in Regs \ ptrs THEN Zero ELSE Word(k, MR[i + 1])]

\* seL4_SetMR for the words that travel in the buffer ...
Filled(t, k, fn, len) ==
    [i \in Words |-> IF i < len /\ (fn = "plain" \/ i \notin Regs)
                       THEN Word(k, MR[i + 1]) ELSE buf[t][i]]
\* ... and assignments to the variables for the others.
Assigned(t, k, fn, len) ==
    [i \in Regs |-> IF i < len /\ fn = "MRs" THEN Word(k, MR[i + 1]) ELSE local[t][i]]

\* Mutant: with MRs, the words are taken from the buffer.
LoadBuffer(b, l, fn, ptrs, len, both) == [i \in Regs |-> b[i]]

\* The registers at the system call.  The functions that also receive load a
\* variable only if the message is long enough.
Load(b, l, fn, ptrs, len, both) ==
    [i \in Regs |->
       IF fn = "plain" THEN b[i]
       ELSE IF i \in ptrs /\ (both => i < len) THEN l[i] ELSE Zero]

\* Common to all functions that send: both is TRUE for those that receive too.
Sending(t, fn, ptrs, len, both, state) ==
    LET k == count + 1
        b == Filled(t, k, fn, len)
        l == Assigned(t, k, fn, len)
    IN  /\ call[t].state = "user" /\ k <= MaxMessages
        /\ buf' = [buf EXCEPT ![t] = b]
        /\ local' = [local EXCEPT ![t] = l]
        /\ regs' = [regs EXCEPT ![t] = Load(b, l, fn, ptrs, len, both)]
        /\ call' = [call EXCEPT ![t] = Entered(fn, ptrs, both, state)]
        /\ info' = [info EXCEPT ![t] = [label |-> "message", length |-> len]]
        /\ sent' = [sent EXCEPT ![Other(t)] = Meant(t, k, fn, ptrs, len)]
        /\ count' = k

\* seL4_Send, seL4_SendWithMRs: block until the server receives.
seL4_Send(fn, ptrs, len) ==
    /\ Sending("client", fn, ptrs, len, FALSE, "sending")
    /\ UNCHANGED <<frame, fault>>

\* seL4_NBSend, seL4_NBSendWithMRs: nothing is sent unless the server waits.
seL4_NBSend(fn, ptrs, len) ==
    /\ Sending("client", fn, ptrs, len, FALSE,
               IF call["server"].state = "receiving" THEN "sending" ELSE "user")
    /\ UNCHANGED <<frame, fault>>

\* seL4_Call, seL4_CallWithMRs.
seL4_Call(fn, ptrs, len) ==
    /\ Sending("client", fn, ptrs, len, TRUE, "calling")
    /\ UNCHANGED <<frame, fault>>

\* seL4_Recv, seL4_RecvWithMRs: the message registers are not set before.
seL4_Recv(fn, ptrs) ==
    /\ call["server"].state = "user"
    /\ regs' = [regs EXCEPT !["server"] = [i \in Regs |-> Junk]]
    /\ call' = [call EXCEPT !["server"] = Entered(fn, ptrs, FALSE, "receiving")]
    /\ UNCHANGED <<buf, local, frame, fault, info, sent, count>>

\* seL4_NBRecv: as seL4_Recv if a sender waits.  If not, the function returns
\* and stores registers that nobody set.
seL4_NBRecv ==
    /\ call["server"].state = "user"
    /\ call["client"].state \notin {"sending", "calling", "faulting"}
    /\ regs' = [regs EXCEPT !["server"] = [i \in Regs |-> Junk]]
    /\ buf' = [buf EXCEPT !["server"] =
                 [i \in Words |-> IF i \in Regs THEN Junk ELSE @[i]]]
    /\ call' = [call EXCEPT !["server"] = Entered("plain", {}, FALSE, "user")]
    /\ info' = [info EXCEPT !["server"] = [label |-> "none", length |-> 0]]
    /\ UNCHANGED <<local, frame, fault, sent, count>>

\* seL4_Reply, seL4_ReplyWithMRs, and with both the functions that go on to
\* receive.
seL4_Reply(fn, ptrs, len, both) ==
    /\ Sending("server", fn, ptrs, len, both, IF both THEN "replyrecv" ELSE "reply")
    /\ UNCHANGED <<frame, fault>>

-----------------------------------------------------------------------------
(* The kernel. *)

\* The arguments of a fault, which the kernel keeps in the thread's tcbFault
\* and tcbLookupFailure.
LookupFailures ==
    [InvalidRoot |-> <<>>, MissingCapability |-> <<"bitsLeft">>,
     DepthMismatch |-> <<"bitsLeft", "bitsFound">>,
     GuardMismatch |-> <<"bitsLeft", "guardFound", "bitsFound">>]
Arguments ==
    [CapFault |-> <<"address", "inReceivePhase", "lufType">>,
     UnknownSyscall |-> <<"syscallNumber">>,
     UserException |-> <<"number", "code">>,
     VMFault |-> <<"address", "instructionFault", "FSR">>]

\* handleFault and sendFaultIPC: the program has run with new contents of its
\* registers until it faults.
Fault(kind, luf) ==
    LET k == count + 1
        names == Arguments[kind]
                   \o IF kind = "CapFault" THEN LookupFailures[luf] ELSE <<>>
    IN  /\ call["client"].state = "user" /\ k <= MaxMessages
        /\ frame' = [r \in Registers |-> Word(k, r)]
        /\ fault' = [kind |-> kind, luf |-> luf,
                     values |-> [n \in 1..Len(names) |-> Word(k, names[n])]]
        /\ call' = [call EXCEPT !["client"].state = "faulting"]
        /\ count' = k
        /\ UNCHANGED <<buf, local, regs, info, sent>>

\* The registers that a fault message starts with.
FaultRegisters(kind) ==
    CASE kind = "UnknownSyscall" -> Syscall_Message
      [] kind = "UserException" -> Exception_Message
      [] OTHER -> <<"FaultIP">>

\* Mutant: the lookup failure is sent without its type.
setMRs_faultUntyped ==
    LET r == FaultRegisters(fault.kind)
        v == fault.values
    IN  [n \in 1..Len(r) |-> frame[r[n]]]
          \o IF fault.kind = "CapFault" THEN SubSeq(v, 1, 2) \o SubSeq(v, 4, Len(v)) ELSE v

\* setMRs_fault, with copyMRsFault and setMRs_lookup_failure: its words.
setMRs_fault ==
    LET r == FaultRegisters(fault.kind)
    IN  [n \in 1..Len(r) |-> frame[r[n]]] \o fault.values

\* The tail of the functions that receive, in thread t: the registers are
\* stored in the buffer or in the variables.
Stored(t, b, r) ==
    [i \in Words |-> IF i \in Regs /\ call[t].fn = "plain" THEN r[i] ELSE b[i]]
Returned(t, r) ==
    [i \in Regs |-> IF call[t].fn = "MRs" /\ i \in call[t].ptrs THEN r[i] ELSE local[t][i]]

\* copyMRs and setMR: n words arrive in registers and buffer of t, which
\* returns from its system call.
copyMRs(words, n, t) ==
    /\ regs' = [regs EXCEPT ![t] = [i \in Regs |-> IF i < n THEN words[i] ELSE @[i]]]
    /\ buf' = [buf EXCEPT ![t] =
                 Stored(t, [i \in Words |-> IF i \notin Regs /\ i < n
                                             THEN words[i] ELSE @[i]], regs'[t])]

\* The words of the message that t is sending.
Outgoing(t) == [i \in Words |-> IF i \in Regs THEN regs[t][i] ELSE buf[t][i]]

Deliver(words, n, label, t) ==
    /\ copyMRs(words, n, t)
    /\ local' = [local EXCEPT ![t] = Returned(t, regs'[t])]
    /\ info' = [info EXCEPT ![t] = [label |-> label, length |-> n]]

\* doNormalTransfer from the client to the server.
doNormalTransfer ==
    /\ call["client"].state \in {"sending", "calling"}
    /\ call["server"].state = "receiving"
    /\ Deliver(Outgoing("client"), info["client"].length, "message", "server")
    /\ call' = [call EXCEPT !["server"].state = "user",
                  !["client"].state = IF @ = "calling" THEN "waiting" ELSE "user"]
    /\ UNCHANGED <<frame, fault, sent, count>>

\* doFaultTransfer: the client waits for a reply.
doFaultTransfer ==
    /\ call["client"].state = "faulting"
    /\ call["server"].state = "receiving"
    /\ LET m == setMRs_fault
       IN  Deliver([i \in 0..(Len(m) - 1) |-> m[i + 1]], Len(m), fault.kind, "server")
    /\ call' = [call EXCEPT !["server"].state = "user", !["client"].state = "waiting"]
    /\ UNCHANGED <<frame, fault, sent, count>>

Answering == {"reply", "replyrecv"}
AfterReply == IF call["server"].state = "replyrecv" THEN "receiving" ELSE "user"

\* doReplyTransfer to a thread that called.
doReplyTransfer ==
    /\ call["server"].state \in Answering
    /\ call["client"].state = "waiting" /\ fault = NoFault
    /\ Deliver(Outgoing("server"), info["server"].length, "message", "client")
    /\ call' = [call EXCEPT !["server"].state = AfterReply, !["client"].state = "user"]
    /\ UNCHANGED <<frame, fault, sent, count>>

\* The same with no caller: nothing is sent.
NoCaller ==
    /\ call["server"].state \in Answering
    /\ call["client"].state # "waiting"
    /\ call' = [call EXCEPT !["server"].state = AfterReply]
    /\ UNCHANGED <<buf, local, regs, frame, fault, info, sent, count>>

Least(a, b) == IF a < b THEN a ELSE b

\* sanitiseRegister: of these registers only FLAGS has bits a thread may not
\* choose; which ones is not told apart here.
sanitiseRegister(r, word) == IF r = "FLAGS" THEN Word(word[1], "sanitised") ELSE word

\* copyMRsFaultReply: the reply's words become the thread's registers.
copyMRsFaultReply(message, words, length) ==
    [r \in Registers |->
       LET new == {i \in 0..(Least(length, Len(message)) - 1) : message[i + 1] = r}
       IN  IF new = {} THEN frame[r]
           ELSE sanitiseRegister(r, words[CHOOSE i \in new : TRUE])]

\* handleFaultReply: only a reply with label 0 restarts the thread, except
\* after a capability or a page fault, which are always retried.
handleFaultReply(zeroLabel) ==
    LET always == fault.kind \in {"CapFault", "VMFault"}
    IN  /\ call["server"].state \in Answering
        /\ call["client"].state = "waiting" /\ fault # NoFault
        /\ frame' = IF always THEN frame
                    ELSE copyMRsFaultReply(FaultRegisters(fault.kind),
                                           Outgoing("server"), info["server"].length)
        /\ fault' = NoFault
        /\ call' = [call EXCEPT !["server"].state = AfterReply,
                      !["client"].state =
                        IF always \/ zeroLabel THEN "user" ELSE "inactive"]
        /\ UNCHANGED <<buf, local, regs, info, sent, count>>

Forms == {<<"plain", {}>>} \cup ({"MRs"} \X Pointers)

Next ==
    \/ \E f \in Forms, len \in Lengths :
         \/ seL4_Send(f[1], f[2], len)
         \/ seL4_NBSend(f[1], f[2], len)
         \/ seL4_Call(f[1], f[2], len)
         \/ \E both \in BOOLEAN : seL4_Reply(f[1], f[2], len, both)
    \/ \E f \in Forms : seL4_Recv(f[1], f[2])
    \/ \E luf \in DOMAIN LookupFailures : Fault("CapFault", luf)
    \/ \E kind \in DOMAIN Arguments \ {"CapFault"} : Fault(kind, "none")
    \/ seL4_NBRecv
    \/ doNormalTransfer
    \/ doFaultTransfer
    \/ doReplyTransfer
    \/ NoCaller
    \/ \E zeroLabel \in BOOLEAN : handleFaultReply(zeroLabel)

Spec == Init /\ [][Next]_vars

-----------------------------------------------------------------------------
(* seL4_getFault, with seL4_getArchFault: the fields of a fault message by *)
(* the positions that the enumerations of libsel4 give them.               *)

seL4_getFault(label, b) ==
    CASE label = "CapFault" ->
           [FaultIP |-> b[0], address |-> b[1], inReceivePhase |-> b[2], lufType |-> b[3]]
      [] label = "UnknownSyscall" ->
           [EAX |-> b[0], EBX |-> b[1], ECX |-> b[2], EDX |-> b[3], ESI |-> b[4],
            EDI |-> b[5], EBP |-> b[6], FaultIP |-> b[7], ESP |-> b[8],
            FLAGS |-> b[9], syscallNumber |-> b[10]]
      [] label = "UserException" ->
           [FaultIP |-> b[0], ESP |-> b[1], FLAGS |-> b[2], number |-> b[3], code |-> b[4]]
      [] label = "VMFault" ->
           [FaultIP |-> b[0], address |-> b[1], instructionFault |-> b[2], FSR |-> b[3]]

\* The words MR4 to MR6 of a capability fault, by the kind of lookup failure.
seL4_CapFault(luf, b) ==
    CASE luf = "InvalidRoot" -> <<>>
      [] luf = "MissingCapability" -> [bitsLeft |-> b[4]]
      [] luf = "DepthMismatch" -> [bitsLeft |-> b[4], bitsFound |-> b[5]]
      [] luf = "GuardMismatch" ->
           [bitsLeft |-> b[4], guardFound |-> b[5], bitsFound |-> b[6]]

-----------------------------------------------------------------------------
\* Where the program of thread t finds word i after a call of its form.
Seen(t, i) == IF call[t].fn = "MRs" /\ i \in Regs THEN local[t][i] ELSE buf[t][i]

Returns(t) ==
    call[t].state \in {"receiving", "waiting"} /\ call'[t].state = "user"

\* Every word of a message arrives as it was meant, in either form of the
\* functions on either side: a word that the sender passed in a register is
\* found in the receiver's buffer, and the other way round.  The words that
\* answer a fault reach the registers that its message reported, in the same
\* order.
MessageArrives ==
    [][/\ \A t \in Threads :
            Returns(t) /\ info'[t].label = "message" /\ fault = NoFault =>
              \A i \in 0..(info'[t].length - 1) :
                (i \in Regs /\ call[t].fn = "MRs" => i \in call[t].ptrs)
                  => Seen(t, i)' = sent[t][i]
       /\ LET r == FaultRegisters(fault.kind)
          IN  fault.kind \in {"UnknownSyscall", "UserException"} /\ fault' = NoFault =>
                \A i \in DOMAIN sent["client"] \cap 0..(Len(r) - 1) :
                  frame'[r[i + 1]] = sanitiseRegister(r[i + 1], sent["client"][i])]_vars

\* A fault handler that received with a plain function finds every field of
\* the fault where the enumerations of libsel4 place it: kernel and library
\* agree on four layouts, one of which depends on the lookup failure.
FaultReported ==
    /\ call["server"].state = "user" /\ call["server"].fn = "plain"
    /\ info["server"].label \in DOMAIN Arguments
    /\ fault # NoFault /\ call["client"].state = "waiting"
    => LET k == fault.values[1][1]
           fields == seL4_getFault(fault.kind, buf["server"])
           more == IF fault.kind = "CapFault"
                     THEN seL4_CapFault(fault.luf, buf["server"]) ELSE <<>>
       IN  /\ info["server"].label = fault.kind
           /\ \A f \in DOMAIN fields : fields[f] = Word(k, f)
           /\ \A f \in DOMAIN more : more[f] = Word(k, f)
=============================================================================
