------------------------------ MODULE KernelIPC ------------------------------
(***************************************************************************)
(* Endpoints, notifications, reply capabilities and faults (endpoint.c,    *)
(* notification.c, faulthandler.c and the parts of tcb.c, cnode.c and      *)
(* thread.c they call), as operators on the kernel state of KernelThreads. *)
(*                                                                         *)
(* A reply capability is in the caller slot of the thread that received    *)
(* the call (k.caller) or in a slot it was saved in (k.saved).  The        *)
(* mapping database links the reply master of the caller to it (k.child).  *)
(* Message contents are left out; k.fault says whether tcbFault is set.    *)
(***************************************************************************)
EXTENDS KernelThreads

CallerSlot(t) == <<"caller", t>>
SavedSlot(s) == <<"saved", s>>
Places == {CallerSlot(t) : t \in Threads} \cup {SavedSlot(s) : s \in Slots}

EpIdle == [state |-> "Idle", queue |-> <<>>]
NtfnIdle(bound) == [state |-> "Idle", queue |-> <<>>, bound |-> bound]

Without(q, t) == SelectSeq(q, LAMBDA u : u # t)

-----------------------------------------------------------------------------
(* Reply capabilities. *)

CapAt(k, place) == IF place[1] = "caller" THEN k.caller[place[2]] ELSE k.saved[place[2]]

SetCap(k, place, cap) ==
    IF place[1] = "caller" THEN [k EXCEPT !.caller[place[2]] = cap]
                           ELSE [k EXCEPT !.saved[place[2]] = cap]

\* Mutant: the reply master keeps its link.
cteDeleteOneLinked(k, place) == SetCap(k, place, NULL)

\* cteDeleteOne of a reply capability: emptySlot unlinks it from its master.
cteDeleteOne(k, place) ==
    LET t == CapAt(k, place)
    IN  IF t = NULL THEN k ELSE SetCap([k EXCEPT !.child[t] = NULL], place, NULL)

\* cteMove of a reply capability into an empty slot.
cteMove(k, from, to) ==
    LET t == CapAt(k, from)
    IN  SetCap(SetCap([Check(k, CapAt(k, to) = NULL) EXCEPT !.child[t] = to],
                      from, NULL), to, t)

\* The sender waits for the receiver's reply.
setupCallerCap(k, sender, receiver) ==
    LET blocked == setThreadState(k, sender, "BlockedOnReply")
        checked == Check(blocked, /\ k.master[sender] /\ k.child[sender] = NULL
                                  /\ k.caller[receiver] = NULL)
    IN  [checked EXCEPT !.caller[receiver] = sender,
                        !.child[sender] = CallerSlot(receiver)]

\* Mutant: the caller slot is not emptied.
deleteCallerCapNot(k, receiver) == k

deleteCallerCap(k, receiver) == cteDeleteOne(k, CallerSlot(receiver))

setupReplyMaster(k, t) == [k EXCEPT !.master[t] = TRUE]

-----------------------------------------------------------------------------
(* Cancelling what a thread waits for. *)

\* t leaves the queue of its endpoint.
EpLeave(k, e, t) ==
    LET q == Without(k.ep[e].queue, t)
    IN  [k EXCEPT !.ep[e] = IF q = <<>> THEN EpIdle ELSE [@ EXCEPT !.queue = q]]

NtfnLeave(k, n, t) ==
    LET q == Without(k.ntfn[n].queue, t)
    IN  [k EXCEPT !.ntfn[n] = IF q = <<>> THEN NtfnIdle(@.bound)
                                          ELSE [@ EXCEPT !.queue = q]]

cancelSignal(k, t, n) ==
    setThreadState(NtfnLeave(Check(k, k.ntfn[n].state = "Waiting"), n, t), t, "Inactive")

\* A fault is forgotten only if the thread already waits for the reply.
cancelIPC(k, t) ==
    CASE k.ts[t].type \in {"BlockedOnSend", "BlockedOnReceive"} ->
           LET e == k.ts[t].obj
           IN  setThreadState(EpLeave(Check(k, k.ep[e].state # "Idle"), e, t), t, "Inactive")
      [] k.ts[t].type = "BlockedOnNotification" -> cancelSignal(k, t, k.ts[t].obj)
      [] k.ts[t].type = "BlockedOnReply" ->
           LET kk == [k EXCEPT !.fault[t] = FALSE]
           IN  IF k.child[t] = NULL THEN kk ELSE cteDeleteOne(kk, k.child[t])
      [] OTHER -> k

\* Every thread of q restarts its system call, in the order of the queue.
RestartAll(k, q) ==
    rescheduleRequired(
      FoldLeft(LAMBDA kk, t : tcbSchedEnqueue(setThreadState(kk, t, "Restart"), t), k, q))

cancelAllIPC(k, e) ==
    IF k.ep[e].state = "Idle" THEN k
    ELSE RestartAll([k EXCEPT !.ep[e] = EpIdle], k.ep[e].queue)

cancelAllSignals(k, n) ==
    IF k.ntfn[n].state # "Waiting" THEN k
    ELSE RestartAll([k EXCEPT !.ntfn[n] = NtfnIdle(@.bound)], k.ntfn[n].queue)

\* The senders with the badge restart, the others stay in their order.
cancelBadgedSends(k, e, badge) ==
    LET q == k.ep[e].queue
        Sent(t) == k.ts[t].badge = badge
        rest == SelectSeq(q, LAMBDA t : ~ Sent(t))
    IN  IF k.ep[e].state # "Send" THEN k
        ELSE RestartAll([k EXCEPT !.ep[e] = IF rest = <<>> THEN EpIdle
                                            ELSE [@ EXCEPT !.queue = rest]],
                        SelectSeq(q, Sent))

suspend(k, t) == tcbSchedDequeue(setThreadState(cancelIPC(k, t), t, "Inactive"), t)

restart(k, t) ==
    IF ~ isBlocked(k, t) THEN k
    ELSE switchIfRequiredTo(
           tcbSchedEnqueue(
             setThreadState(setupReplyMaster(cancelIPC(k, t), t), t, "Restart"), t), t)

-----------------------------------------------------------------------------
(* Sending and receiving. *)

\* What becomes of the sender once its message is delivered.
AfterSend(k, sender, receiver, isCall, canGrant) ==
    IF isCall \/ k.fault[sender]
    THEN IF canGrant THEN setupCallerCap(k, sender, receiver)
                     ELSE setThreadState(k, sender, "Inactive")
    ELSE k

\* To a waiting receiver at once, or the sender waits if it may.
sendIPC(k, blocking, isCall, badge, canGrant, t, e) ==
    IF k.ep[e].state = "Recv"
    THEN LET dest == Head(k.ep[e].queue)
             run  == attemptSwitchTo(setThreadState(EpLeave(k, e, dest), dest, "Running"), dest)
         IN  AfterSend(run, t, dest, isCall, canGrant)
    ELSE IF ~ blocking THEN k
    ELSE [Block(k, t, [type |-> "BlockedOnSend", obj |-> e, badge |-> badge,
                       canGrant |-> canGrant, isCall |-> isCall])
          EXCEPT !.ep[e] = [state |-> "Send", queue |-> Append(@.queue, t)]]

\* A sender that does not wait for a reply goes on; a call, or a fault, waits.
receiveIPC(k, t, e, isBlocking) ==
    IF k.bound[t] # NULL /\ k.ntfn[k.bound[t]].state = "Active"
    THEN [k EXCEPT !.ntfn[k.bound[t]].state = "Idle"]
    ELSE IF k.ep[e].state = "Send"
    THEN LET sender == Head(k.ep[e].queue)
             st     == k.ts[sender]
             kk     == EpLeave(k, e, sender)
         IN  IF st.isCall \/ k.fault[sender]
             THEN AfterSend(kk, sender, t, st.isCall, st.canGrant)
             ELSE switchIfRequiredTo(setThreadState(kk, sender, "Running"), sender)
    ELSE IF ~ isBlocking THEN k
    ELSE [Block(k, t, [Ts("BlockedOnReceive") EXCEPT !.obj = e])
          EXCEPT !.ep[e] = [state |-> "Recv", queue |-> Append(@.queue, t)]]

\* Mutant: the bound thread is woken where it stands in the endpoint queue.
sendSignalNoCancel(k, n) ==
    LET tcb == k.ntfn[n].bound
    IN  CASE k.ntfn[n].state = "Active" -> k
          [] k.ntfn[n].state = "Waiting" ->
               LET dest == Head(k.ntfn[n].queue)
               IN  switchIfRequiredTo(setThreadState(NtfnLeave(k, n, dest), dest, "Running"),
                                      dest)
          [] OTHER ->
               IF tcb # NULL /\ k.ts[tcb].type = "BlockedOnReceive"
               THEN switchIfRequiredTo(setThreadState(k, tcb, "Running"), tcb)
               ELSE [k EXCEPT !.ntfn[n].state = "Active"]

\* A signal wakes the first waiter, or the bound thread if it waits on an
\* endpoint, or is kept.
sendSignal(k, n) ==
    LET tcb == k.ntfn[n].bound
    IN  CASE k.ntfn[n].state = "Active" -> k
          [] k.ntfn[n].state = "Waiting" ->
               LET dest == Head(k.ntfn[n].queue)
               IN  switchIfRequiredTo(setThreadState(NtfnLeave(k, n, dest), dest, "Running"),
                                      dest)
          [] OTHER ->
               IF tcb # NULL /\ k.ts[tcb].type = "BlockedOnReceive"
               THEN switchIfRequiredTo(setThreadState(cancelIPC(k, tcb), tcb, "Running"), tcb)
               ELSE [k EXCEPT !.ntfn[n].state = "Active"]

receiveSignal(k, t, n, isBlocking) ==
    IF k.ntfn[n].state = "Active" THEN [k EXCEPT !.ntfn[n].state = "Idle"]
    ELSE IF ~ isBlocking THEN k
    ELSE [Block(k, t, [Ts("BlockedOnNotification") EXCEPT !.obj = n])
          EXCEPT !.ntfn[n].state = "Waiting", !.ntfn[n].queue = Append(@, t)]

\* The sender answers the receiver through the reply capability at place.
\* The answer to a fault says whether the thread goes on.
doReplyTransfer(k, receiver, place, goOn) ==
    LET kk == cteDeleteOne(Check(k, k.ts[receiver].type = "BlockedOnReply"), place)
        un == [kk EXCEPT !.fault[receiver] = FALSE]
    IN  IF ~ k.fault[receiver]
        THEN attemptSwitchTo(setThreadState(kk, receiver, "Running"), receiver)
        ELSE IF goOn
             THEN attemptSwitchTo(setThreadState(un, receiver, "Restart"), receiver)
             ELSE setThreadState(un, receiver, "Inactive")

\* sendFaultIPC to the fault handler, or handleDoubleFault if there is none.
handleFault(k, t, handler, badge) ==
    IF handler = NULL THEN setThreadState(k, t, "Inactive")
    ELSE sendIPC([k EXCEPT !.fault[t] = TRUE], TRUE, FALSE, badge, TRUE, t, handler)

-----------------------------------------------------------------------------
(* Binding notifications. *)

bindNotification(k, t, n) == [k EXCEPT !.ntfn[n].bound = t, !.bound[t] = n]

unbindNotification(k, t) ==
    IF k.bound[t] = NULL THEN k
    ELSE [k EXCEPT !.ntfn[k.bound[t]].bound = NULL, !.bound[t] = NULL]

unbindMaybeNotification(k, n) ==
    IF k.ntfn[n].bound = NULL THEN k ELSE unbindNotification(k, k.ntfn[n].bound)
=============================================================================
