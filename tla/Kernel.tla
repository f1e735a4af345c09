-------------------------------- MODULE Kernel --------------------------------
(***************************************************************************)
(* The kernel as its user threads and interrupts drive it: one action per  *)
(* system call or invocation of the current thread, per fault and per      *)
(* interrupt (handleSyscall, handleInvocation, fastpath.c, the decode and  *)
(* invoke functions of tcb.c, cnode.c and objecttype.c).                   *)
(*                                                                         *)
(* Any thread may hold any capability, so a call chooses its arguments     *)
(* freely; a call the kernel refuses changes nothing and is left out.      *)
(* Preemption points inside long deletions are left out: a deletion is one *)
(* step.  A program is the set of kernel entries that its threads, and the *)
(* interrupts it lives with, make.                                         *)
(***************************************************************************)
EXTENDS KernelIPC

CONSTANTS Root,      \* the initial thread
          Programs   \* the programs explored: sets of kernel entries

VARIABLES k,        \* the kernel state
          raised,   \* queued threads whose priority another thread has set
          program   \* the kernel entries of the program that runs

vars == <<k, raised, program>>

Entries == {"Send", "Call", "Recv", "Reply", "ReplyRecv", "ReplyWait", "Fault", "Slots",
           "SendReply", "Signal", "Wait", "Bind", "Yield", "Suspend", "Resume",
           "Priority", "DeleteThread", "DeleteObject", "CancelBadged", "Tick", "Irq"}

ASSUME ProgramsAssumption == Root \in Threads /\ Programs \subseteq SUBSET Entries

Tcbs == Threads \cup {Idle}

\* The initial thread has top priority; the others are set up and not resumed.
Init ==
    /\ raised = {} /\ program \in Programs
    /\ \E prio \in [Tcbs -> Prios], caps \in SUBSET (Threads \ {Root}) :
         /\ prio[Idle] = 0 /\ prio[Root] = NumPrios - 1
         /\ k = [ts     |-> [t \in Tcbs |-> CASE t = Root -> Ts("Running")
                                              [] t = Idle -> Ts("IdleThreadState")
                                              [] OTHER    -> Ts("Inactive")],
                 ready  |-> [p \in Prios |-> <<>>],
                 queued |-> [t \in Tcbs |-> FALSE],
                 l1     |-> {}, l2 |-> [i \in L1Indexes |-> {}],
                 prio   |-> prio,
                 mcp    |-> [t \in Threads |-> IF t \in caps \cup {Root} THEN NumPrios - 1
                                                                       ELSE 0],
                 slice  |-> [t \in Tcbs |-> TimeSlice],
                 cur    |-> Root, action |-> "ResumeCurrentThread",
                 ep     |-> [e \in Endpoints |-> EpIdle],
                 ntfn   |-> [n \in Ntfns |-> NtfnIdle(NULL)],
                 bound  |-> [t \in Threads |-> NULL],
                 fault  |-> [t \in Threads |-> FALSE],
                 master |-> [t \in Threads |-> t = Root],
                 caller |-> [t \in Threads |-> NULL],
                 saved  |-> [s \in Slots |-> NULL],
                 child  |-> [t \in Threads |-> NULL],
                 ok     |-> TRUE]

-----------------------------------------------------------------------------
(* The frame of a kernel entry. *)

\* The kernel returns to user mode from state kk.
Return(kk) ==
    /\ k' = kk
    /\ raised' = {t \in raised : kk.queued[t]}

\* A system call of the current thread.
Syscall(op, kk) == op \in program /\ Return(Exit(kk)) /\ UNCHANGED program

\* decodeInvocation marks the current thread; handleInvocation unmarks it.
Decoded == setThreadState(k, k.cur, "Restart")

Invoked(kk) ==
    IF kk.ts[k.cur].type = "Restart" THEN setThreadState(kk, k.cur, "Running") ELSE kk

-----------------------------------------------------------------------------
(* Messages. *)

Send ==
    \E e \in Endpoints, badge \in Badges, grant, blocking \in BOOLEAN :
        Syscall("Send", Invoked(sendIPC(Decoded, blocking, FALSE, badge, grant, k.cur, e)))

SlowCall(e, badge, grant) ==
    Exit(Invoked(sendIPC(Decoded, TRUE, TRUE, badge, grant, k.cur, e)))

FastCallEnabled(e, grant) ==
    /\ grant /\ ~ k.fault[k.cur]
    /\ k.ep[e].state = "Recv"
    /\ k.prio[Head(k.ep[e].queue)] >= k.prio[k.cur]

\* fastpath_call: the receiver takes over without entering a ready queue.
FastCall(e) ==
    LET dest == Head(k.ep[e].queue)
        kk   == EpLeave(k, e, dest)
    IN  [kk EXCEPT !.ts[k.cur] = Ts("BlockedOnReply"), !.ts[dest] = Ts("Running"),
                   !.caller[dest] = k.cur, !.child[k.cur] = CallerSlot(dest),
                   !.cur = dest]

\* A short message without capabilities may go the fast way.
Call ==
    \E e \in Endpoints, badge \in Badges, grant, short \in BOOLEAN :
        /\ "Call" \in program
        /\ Return(IF short /\ FastCallEnabled(e, grant) THEN FastCall(e)
                  ELSE SlowCall(e, badge, grant))
        /\ UNCHANGED program

\* handleRecv on an endpoint.
RecvOn(kk, e, blocking) == receiveIPC(deleteCallerCap(kk, k.cur), k.cur, e, blocking)

Recv ==
    \E e \in Endpoints, blocking \in BOOLEAN : Syscall("Recv", RecvOn(k, e, blocking))

\* handleReply
Replied(goOn) ==
    LET caller == k.caller[k.cur]
    IN  IF caller = NULL THEN k
        ELSE doReplyTransfer(Check(k, caller # k.cur), caller, CallerSlot(k.cur), goOn)

Reply == \E goOn \in BOOLEAN : Syscall("Reply", Replied(goOn))

SlowReplyRecv(e, goOn) == Exit(RecvOn(Replied(goOn), e, TRUE))

\* Mutant: a pending signal of the bound notification is not looked for.
FastReplyRecvEnabledDeaf(e) ==
    LET caller == k.caller[k.cur]
    IN  /\ ~ k.fault[k.cur] /\ k.ep[e].state # "Send" /\ caller # NULL
        /\ ~ k.fault[caller] /\ k.prio[caller] >= k.prio[k.cur]

FastReplyRecvEnabled(e) ==
    LET caller == k.caller[k.cur]
        n      == k.bound[k.cur]
    IN  /\ ~ k.fault[k.cur]
        /\ n # NULL => k.ntfn[n].state # "Active"
        /\ k.ep[e].state # "Send"
        /\ caller # NULL
        /\ ~ k.fault[caller] /\ k.prio[caller] >= k.prio[k.cur]

\* fastpath_reply_recv
FastReplyRecv(e) ==
    LET caller == k.caller[k.cur]
    IN  [k EXCEPT !.ts[k.cur] = [Ts("BlockedOnReceive") EXCEPT !.obj = e],
                  !.ts[caller] = Ts("Running"),
                  !.ep[e] = [state |-> "Recv", queue |-> Append(@.queue, k.cur)],
                  !.child[caller] = NULL, !.caller[k.cur] = NULL, !.cur = caller]

ReplyRecv ==
    \E e \in Endpoints, goOn, short \in BOOLEAN :
        /\ "ReplyRecv" \in program
        /\ Return(IF short /\ FastReplyRecvEnabled(e) THEN FastReplyRecv(e)
                  ELSE SlowReplyRecv(e, goOn))
        /\ UNCHANGED program

\* A fault of the current thread.  Which endpoint its handler is, if any,
\* is left open.
Fault ==
    \E h \in Endpoints \cup {NULL}, badge \in Badges :
        Syscall("Fault", handleFault(k, k.cur, h, badge))

\* ReplyRecv of a capability that cannot be received from: the reply, then a
\* fault.
ReplyFault ==
    \E h \in Endpoints \cup {NULL}, goOn \in BOOLEAN :
        /\ {"ReplyRecv", "Fault"} \subseteq program
        /\ Syscall("Fault", handleFault(Replied(goOn), k.cur, h, 0))

\* Sending on a reply capability that was saved.
SendReply ==
    \E s \in Slots, goOn \in BOOLEAN :
        /\ k.saved[s] # NULL
        /\ Syscall("SendReply",
                   Invoked(doReplyTransfer(Decoded, k.saved[s], SavedSlot(s), goOn)))

SaveCaller ==
    \E s \in Slots :
        /\ k.saved[s] = NULL /\ k.caller[k.cur] # NULL
        /\ Syscall("Slots", Invoked(cteMove(Decoded, CallerSlot(k.cur), SavedSlot(s))))

MoveSlot ==
    \E s, d \in Slots :
        /\ k.saved[s] # NULL /\ k.saved[d] = NULL
        /\ Syscall("Slots", Invoked(cteMove(Decoded, SavedSlot(s), SavedSlot(d))))

DeleteSlot ==
    \E s \in Slots :
        /\ k.saved[s] # NULL
        /\ Syscall("Slots", Invoked(cteDeleteOne(Decoded, SavedSlot(s))))

-----------------------------------------------------------------------------
(* Notifications. *)

Signal == \E n \in Ntfns : Syscall("Signal", Invoked(sendSignal(Decoded, n)))

\* handleRecv on a notification; one bound to another thread is refused with
\* a fault.
WaitOn(kk, n, blocking, h) ==
    IF kk.ntfn[n].bound \in {NULL, k.cur} THEN receiveSignal(kk, k.cur, n, blocking)
                                          ELSE handleFault(kk, k.cur, h, 0)

Wait ==
    \E n \in Ntfns, blocking \in BOOLEAN, h \in Endpoints \cup {NULL} :
        Syscall("Wait", WaitOn(k, n, blocking, h))

\* ReplyRecv of a notification.
ReplyWait ==
    \E n \in Ntfns, goOn \in BOOLEAN, h \in Endpoints \cup {NULL} :
        Syscall("ReplyWait", WaitOn(Replied(goOn), n, TRUE, h))

Bind ==
    \E t \in Threads, n \in Ntfns :
        /\ k.bound[t] = NULL /\ k.ntfn[n].bound = NULL /\ k.ntfn[n].queue = <<>>
        /\ Syscall("Bind", Invoked(bindNotification(Decoded, t, n)))

Unbind ==
    \E t \in Threads :
        /\ k.bound[t] # NULL
        /\ Syscall("Bind", Invoked(unbindNotification(Decoded, t)))

-----------------------------------------------------------------------------
(* Threads. *)

Yield == Syscall("Yield", handleYield(k))

Suspend == \E t \in Threads : Syscall("Suspend", Invoked(suspend(Decoded, t)))

Resume == \E t \in Threads : Syscall("Resume", Invoked(restart(Decoded, t)))

\* checkPrio bounds the new priority by the caller's.
SetPriority ==
    \E t \in Threads, p \in 0..k.mcp[k.cur] :
        /\ "Priority" \in program
        /\ LET kk == Exit(Invoked(setPriority(Decoded, t, p)))
           IN  /\ k' = kk
               /\ raised' = {u \in raised \cup ({t} \ {k.cur}) : kk.queued[u]}
        /\ UNCHANGED program

SetMCPriority ==
    \E t \in Threads, p \in 0..k.mcp[k.cur] :
        Syscall("Priority", Invoked([Decoded EXCEPT !.mcp[t] = p]))

\* The last capability to a thread is deleted and a new thread takes its
\* memory: finaliseCap, the slots of the TCB, and createObject.
Deleted(kk, t) ==
    LET gone == deleteCallerCap(suspend(unbindNotification(kk, t), t), t)
    IN  [gone EXCEPT !.prio[t] = 0, !.mcp[t] = 0, !.slice[t] = TimeSlice,
                     !.fault[t] = FALSE, !.master[t] = FALSE]

DeleteThread ==
    \E t \in Threads : Syscall("DeleteThread", Invoked(Deleted(Decoded, t)))

\* The last capability to an endpoint goes; a new endpoint takes its memory.
DeleteEndpoint ==
    \E e \in Endpoints : Syscall("DeleteObject", Invoked(cancelAllIPC(Decoded, e)))

DeleteNtfn ==
    \E n \in Ntfns :
        Syscall("DeleteObject",
                Invoked([cancelAllSignals(unbindMaybeNotification(Decoded, n), n)
                         EXCEPT !.ntfn[n] = NtfnIdle(NULL)]))

CancelBadgedSends ==
    \E e \in Endpoints, badge \in Badges \ {0} :
        Syscall("CancelBadged", Invoked(cancelBadgedSends(Decoded, e, badge)))

-----------------------------------------------------------------------------
(* Interrupts. *)

Tick == "Tick" \in program /\ Return(Exit(timerTick(k))) /\ UNCHANGED program

Irq == \E n \in Ntfns : "Irq" \in program /\ Return(Exit(sendSignal(k, n))) /\ UNCHANGED program

\* The entries of the current thread; the idle thread makes none.
UserEntry ==
    \/ Send \/ Call \/ Recv \/ Reply \/ ReplyRecv \/ Fault \/ ReplyFault
    \/ SendReply \/ SaveCaller \/ MoveSlot \/ DeleteSlot
    \/ Signal \/ Wait \/ ReplyWait \/ Bind \/ Unbind
    \/ Yield \/ Suspend \/ Resume \/ SetPriority \/ SetMCPriority
    \/ DeleteThread \/ DeleteEndpoint \/ DeleteNtfn \/ CancelBadgedSends

Next == (k.cur # Idle /\ UserEntry) \/ Tick \/ Irq

Spec == Init /\ [][Next]_vars

-----------------------------------------------------------------------------
(* Properties. *)

Blocking == {"BlockedOnSend", "BlockedOnReceive", "BlockedOnNotification"}
Runnable(t) == isRunnable(k, t)

\* No assert and no fail of the kernel is reached, whatever its threads do.
AssertsHold == k.ok

\* The ready queues hold exactly the runnable threads other than the current
\* one, each once and at its own priority; the queued flags and the two
\* levels of bitmaps that chooseThread trusts agree with them.
ReadyExact ==
    /\ \A p \in Prios :
         /\ IsInjective(k.ready[p])
         /\ ToSet(k.ready[p]) = {t \in Threads : Runnable(t) /\ t # k.cur /\ k.prio[t] = p}
    /\ \A t \in Tcbs : k.queued[t] = (t # k.cur /\ Runnable(t))
    /\ \A i \in L1Indexes : k.l2[i] = {p % WordBits : p \in {q \in Prios :
                                         L1Index(q) = i /\ k.ready[q] # <<>>}}
    /\ k.l1 = {i \in L1Indexes : k.l2[i] # {}}

\* A thread is in the queue of an endpoint or notification exactly when its
\* state says it is blocked there in that direction, and an object's state
\* says idle, or active, exactly when nobody waits.  Threads and notifications
\* are bound to each other in pairs, and only the bound thread waits on a
\* bound notification.
BlockedExact ==
    /\ \A e \in Endpoints :
         /\ IsInjective(k.ep[e].queue)
         /\ (k.ep[e].state = "Idle") = (k.ep[e].queue = <<>>)
         /\ \A t \in Threads :
              LET in == t \in ToSet(k.ep[e].queue)
              IN  /\ (in /\ k.ep[e].state = "Send")
                       = (k.ts[t].type = "BlockedOnSend" /\ k.ts[t].obj = e)
                  /\ (in /\ k.ep[e].state = "Recv")
                       = (k.ts[t].type = "BlockedOnReceive" /\ k.ts[t].obj = e)
    /\ \A n \in Ntfns :
         /\ IsInjective(k.ntfn[n].queue)
         /\ (k.ntfn[n].state = "Waiting") = (k.ntfn[n].queue # <<>>)
         /\ ToSet(k.ntfn[n].queue)
              = {t \in Threads : k.ts[t].type = "BlockedOnNotification" /\ k.ts[t].obj = n}
         /\ k.ntfn[n].bound # NULL => ToSet(k.ntfn[n].queue) \subseteq {k.ntfn[n].bound}
         /\ \A t \in Threads : (k.bound[t] = n) = (k.ntfn[n].bound = t)

\* A reply capability exists only for a thread that waits for a reply, there
\* is at most one for each, and the mapping database leads from the caller's
\* reply master to it, so that cancelIPC can always find and delete it.
RepliesExact ==
    \A t \in Threads :
        LET places == {x \in Places : CapAt(k, x) = t}
        IN  /\ places = (IF k.child[t] = NULL THEN {} ELSE {k.child[t]})
            /\ places # {} => k.ts[t].type = "BlockedOnReply" /\ k.master[t]

\* Whenever the checks of a fast path pass, it leaves the kernel in the very
\* state the slow path would have left it in.
FastpathExact ==
    k.cur # Idle =>
        \A e \in Endpoints :
            /\ FastCallEnabled(e, TRUE) =>
                 \A badge \in Badges : FastCall(e) = SlowCall(e, badge, TRUE)
            /\ FastReplyRecvEnabled(e) =>
                 \A goOn \in BOOLEAN : FastReplyRecv(e) = SlowReplyRecv(e, goOn)

\* Strict priorities: a thread that could run and has a higher priority than
\* the current one is one whose priority another thread has set since it was
\* queued (setPriority reschedules only for the current thread).
HighestRuns ==
    \A t \in Threads : k.queued[t] /\ k.prio[t] > k.prio[k.cur] => t \in raised
=============================================================================
