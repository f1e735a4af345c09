---------------------------- MODULE KernelThreads ----------------------------
(***************************************************************************)
(* Threads and the scheduler of the kernel the program runs on (thread.c   *)
(* and the queue functions of tcb.c; one core, one domain).                *)
(*                                                                         *)
(* The kernel is sequential code that runs to completion, so its state is  *)
(* a record k and each of its functions is an operator from k to k, named  *)
(* after the function.  Doubly linked queues are sequences.  The fields of *)
(* a thread state that only a blocked state uses are dropped in the other  *)
(* states.  k.ok turns FALSE when an assert or fail of the code would      *)
(* stop the kernel.                                                        *)
(***************************************************************************)
EXTENDS Naturals, SequencesExt

CONSTANTS
    Threads,     \* the TCBs
    Idle,        \* the idle thread
    NULL,        \* the null pointer
    Endpoints,   \* the endpoint objects
    Ntfns,       \* the notification objects
    Slots,       \* slots of a CNode that reply capabilities are saved in
    Badges,      \* badges of endpoint capabilities; 0 is no badge
    NumPrios,    \* CONFIG_NUM_PRIORITIES
    WordBits,    \* priorities per word of the second-level bitmap
    TimeSlice    \* CONFIG_TIME_SLICE

Prios == 0..(NumPrios - 1)
L1Index(p) == p \div WordBits
L1Indexes == {L1Index(p) : p \in Prios}

ASSUME KernelConstants ==
    /\ Idle \notin Threads /\ NULL \notin Threads \cup {Idle}
    /\ NULL \notin Endpoints \cup Ntfns
    /\ Badges \subseteq Nat
    /\ NumPrios \in Nat \ {0} /\ WordBits \in Nat \ {0} /\ TimeSlice \in Nat \ {0}

\* A thread state without a blocking object.
Ts(type) == [type |-> type, obj |-> NULL, badge |-> 0, canGrant |-> FALSE,
             isCall |-> FALSE]

\* assert(cond)
Check(k, cond) == [k EXCEPT !.ok = @ /\ cond]

-----------------------------------------------------------------------------
(* Queues. *)

isRunnable(k, t) == k.ts[t].type \in {"Running", "Restart"}

isBlocked(k, t) ==
    k.ts[t].type \in {"Inactive", "BlockedOnReceive", "BlockedOnSend",
                      "BlockedOnNotification", "BlockedOnReply"}

addToBitmap(k, p) ==
    [k EXCEPT !.l1 = @ \cup {L1Index(p)}, !.l2[L1Index(p)] = @ \cup {p % WordBits}]

removeFromBitmap(k, p) ==
    LET rest == k.l2[L1Index(p)] \ {p % WordBits}
    IN  [k EXCEPT !.l2[L1Index(p)] = rest,
                  !.l1 = IF rest = {} THEN @ \ {L1Index(p)} ELSE @]

\* Thread t, not yet queued, enters the ready queue q of its priority.
Enter(k, t, q) ==
    LET p  == k.prio[t]
        kk == IF k.ready[p] = <<>> THEN addToBitmap(k, p) ELSE k
    IN  [kk EXCEPT !.ready[p] = q, !.queued[t] = TRUE]

tcbSchedEnqueue(k, t) ==
    IF k.queued[t] THEN k ELSE Enter(k, t, <<t>> \o k.ready[k.prio[t]])

tcbSchedAppend(k, t) ==
    IF k.queued[t] THEN k ELSE Enter(k, t, Append(k.ready[k.prio[t]], t))

tcbSchedDequeue(k, t) ==
    IF ~ k.queued[t] THEN k
    ELSE LET p  == k.prio[t]
             kk == IF k.ready[p] = <<t>> THEN removeFromBitmap(k, p) ELSE k
         IN  [kk EXCEPT !.ready[p] = SelectSeq(@, LAMBDA u : u # t), !.queued[t] = FALSE]

-----------------------------------------------------------------------------
(* Decisions of the scheduler.  k.action is ResumeCurrentThread,            *)
(* ChooseNewThread or the thread to switch to.                              *)

IsSwitch(k) == k.action \notin {"ResumeCurrentThread", "ChooseNewThread"}

rescheduleRequired(k) ==
    LET kk == IF IsSwitch(k) THEN tcbSchedEnqueue(k, k.action) ELSE k
    IN  [kk EXCEPT !.action = "ChooseNewThread"]

scheduleTCB(k, t) ==
    IF t = k.cur /\ k.action = "ResumeCurrentThread" /\ ~ isRunnable(k, t)
    THEN rescheduleRequired(k) ELSE k

setThreadState(k, t, type) == scheduleTCB([k EXCEPT !.ts[t] = Ts(type)], t)

\* A thread state with a blocking object.
Block(k, t, state) == scheduleTCB([k EXCEPT !.ts[t] = state], t)

\* Mutant: a pending switch is dropped instead of being queued.
possibleSwitchToDropped(k, target, onSamePriority) ==
    LET curPrio    == k.prio[k.cur]
        targetPrio == k.prio[target]
        first      == k.action = "ResumeCurrentThread"
    IN  IF first /\ (targetPrio > curPrio \/ (targetPrio = curPrio /\ onSamePriority))
        THEN [k EXCEPT !.action = target]
        ELSE tcbSchedEnqueue(k, target)

\* Run target at once if it outranks the current thread and no other
\* decision is pending; otherwise queue it.
possibleSwitchTo(k, target, onSamePriority) ==
    LET curPrio    == k.prio[k.cur]
        targetPrio == k.prio[target]
        first      == k.action = "ResumeCurrentThread"
    IN  IF first /\ (targetPrio > curPrio \/ (targetPrio = curPrio /\ onSamePriority))
        THEN [k EXCEPT !.action = target]
        ELSE IF IsSwitch(k) THEN rescheduleRequired(tcbSchedEnqueue(k, target))
             ELSE tcbSchedEnqueue(k, target)

attemptSwitchTo(k, target) == possibleSwitchTo(k, target, TRUE)
switchIfRequiredTo(k, target) == possibleSwitchTo(k, target, FALSE)

-----------------------------------------------------------------------------
(* The end of every kernel entry. *)

switchToThread(k, t) == [tcbSchedDequeue(k, t) EXCEPT !.cur = t]

MaxOf(S) == CHOOSE x \in S : \A y \in S : y <= x

\* The head of the highest queue the bitmaps know of, or the idle thread.
chooseThread(k) ==
    IF k.l1 = {} THEN [k EXCEPT !.cur = Idle]
    ELSE LET i == MaxOf(k.l1)
             p == i * WordBits + MaxOf(k.l2[i])
         IN  IF k.ready[p] = <<>> THEN Check(k, FALSE)
             ELSE switchToThread(Check(k, isRunnable(k, Head(k.ready[p]))),
                                 Head(k.ready[p]))

schedule(k) ==
    LET kk == IF isRunnable(k, k.cur) THEN tcbSchedEnqueue(k, k.cur) ELSE k
    IN  IF k.action = "ResumeCurrentThread" THEN k
        ELSE [IF IsSwitch(k) THEN switchToThread(kk, k.action) ELSE chooseThread(kk)
              EXCEPT !.action = "ResumeCurrentThread"]

activateThread(k) ==
    CASE k.ts[k.cur].type = "Restart" -> setThreadState(k, k.cur, "Running")
      [] k.ts[k.cur].type \in {"Running", "IdleThreadState"} -> k
      [] OTHER -> Check(k, FALSE)

Exit(k) == activateThread(schedule(k))

-----------------------------------------------------------------------------
(* Timer, yield and priorities. *)

timerTick(k) ==
    IF k.ts[k.cur].type # "Running" THEN k
    ELSE IF k.slice[k.cur] > 1 THEN [k EXCEPT !.slice[k.cur] = @ - 1]
         ELSE rescheduleRequired(tcbSchedAppend(
                [k EXCEPT !.slice[k.cur] = TimeSlice], k.cur))

handleYield(k) ==
    rescheduleRequired(tcbSchedAppend(tcbSchedDequeue(k, k.cur), k.cur))

\* Mutant: the thread stays in the queue of its old priority.
setPriorityQueued(k, t, p) ==
    LET kk == [k EXCEPT !.prio[t] = p]
    IN  IF t = k.cur THEN rescheduleRequired(tcbSchedEnqueue(kk, t)) ELSE kk

setPriority(k, t, p) ==
    LET off == [tcbSchedDequeue(k, t) EXCEPT !.prio[t] = p]
        on  == IF isRunnable(k, t) THEN tcbSchedEnqueue(off, t) ELSE off
    IN  IF t = k.cur THEN rescheduleRequired(on) ELSE on
=============================================================================
