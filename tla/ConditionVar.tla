---------------------------- MODULE ConditionVar ----------------------------
(***************************************************************************)
(* The condition variable of libsel4sync, composed with the mutex that     *)
(* BinSem models.  Kernel threads may be preempted between any two steps;  *)
(* waiters and broadcasting are only touched under the lock, so a step     *)
(* takes all the accesses to them up to the next call on a kernel object.  *)
(***************************************************************************)
EXTENDS Notifications, Integers, FiniteSets, Functions

VARIABLES
    value, ntfn, at,  \* the lock, as in BinSem
    notification,     \* cv->notification
    waiters,          \* cv->waiters
    broadcasting,     \* cv->broadcasting
    pc                \* where each thread is in the calls on cv

lockVars == <<value, ntfn, at>>
cvVars == <<notification, waiters, broadcasting>>
vars == <<lockVars, cvVars, pc>>

Lock == INSTANCE BinSem

\* sync_bin_sem_init and sync_cv_init.
Init ==
    /\ Lock!Init
    /\ notification = NtfnIdle
    /\ waiters = 0
    /\ broadcasting = FALSE
    /\ pc = [t \in Threads |-> "out"]

Goto(t, where) == pc' = [pc EXCEPT ![t] = where]
HoldsAt(t, where) == pc[t] = where /\ Lock!Holds(t)
Asleep(t) == t \in Range(notification.queue)

-----------------------------------------------------------------------------
(* The lock. *)

Enter(t) == pc[t] = "out" /\ Lock!Decrement(t) /\ Goto(t, "in") /\ UNCHANGED cvVars
LockWait(t) == Lock!Wait(t) /\ UNCHANGED <<cvVars, pc>>
LockSignal(t) == Lock!Signal(t) /\ UNCHANGED <<cvVars, pc>>
Leave(t) == pc[t] = "in" /\ Lock!Increment(t) /\ Goto(t, "out") /\ UNCHANGED cvVars

-----------------------------------------------------------------------------
(* sync_cv_wait. *)

CvWait(t) ==
    /\ HoldsAt(t, "in")
    /\ waiters' = waiters + 1
    /\ broadcasting' = FALSE
    /\ Goto(t, "post")
    /\ UNCHANGED <<lockVars, notification>>

CvPost(t) == pc[t] = "post" /\ Lock!Increment(t) /\ Goto(t, "sleep") /\ UNCHANGED cvVars

\* seL4_Wait: the thread is at "relock", and goes on once it is not queued.
CvSleep(t) ==
    /\ pc[t] = "sleep" /\ at[t] = "out"
    /\ notification' = ReceiveSignal(notification, t)
    /\ Goto(t, "relock")
    /\ UNCHANGED <<lockVars, waiters, broadcasting>>

CvRelock(t) ==
    pc[t] = "relock" /\ ~ Asleep(t) /\ Lock!Decrement(t) /\ Goto(t, "woken") /\ UNCHANGED cvVars

\* The end of sync_cv_wait: last is the count at which the broadcast is over.
Wake(t, left, last) ==
    /\ HoldsAt(t, "woken")
    /\ waiters' = left
    /\ broadcasting' = (broadcasting /\ left > last)
    /\ Goto(t, IF broadcasting /\ left > last THEN "chain" ELSE "in")
    /\ UNCHANGED <<lockVars, notification>>

\* Mutant: the thread stays counted.
CvWokenCounted(t) == Wake(t, waiters, 0)
\* Mutants: the broadcast is not passed on; it is never over.
CvWokenSilent(t) ==
    /\ HoldsAt(t, "woken")
    /\ waiters' = waiters - 1
    /\ Goto(t, "in")
    /\ broadcasting' = (broadcasting /\ waiters - 1 > 0)
    /\ UNCHANGED <<lockVars, notification>>
CvWokenForever(t) ==
    /\ HoldsAt(t, "woken")
    /\ waiters' = waiters - 1
    /\ Goto(t, IF broadcasting /\ waiters - 1 > 0 THEN "chain" ELSE "in")
    /\ UNCHANGED <<lockVars, notification, broadcasting>>

CvWoken(t) == Wake(t, waiters - 1, 0)

\* A thread woken by a broadcast wakes the next.
CvChain(t) ==
    /\ pc[t] = "chain"
    /\ notification' = SendSignal(notification)
    /\ Goto(t, "in")
    /\ UNCHANGED <<lockVars, waiters, broadcasting>>

-----------------------------------------------------------------------------
(* sync_cv_signal, sync_cv_broadcast and sync_cv_broadcast_release. *)

CvSignal(t) ==
    /\ HoldsAt(t, "in")
    /\ waiters > 0
    /\ notification' = SendSignal(notification)
    /\ UNCHANGED <<lockVars, waiters, broadcasting, pc>>

CvBroadcast(t) ==
    /\ HoldsAt(t, "in")
    /\ waiters > 0
    /\ broadcasting' = TRUE
    /\ notification' = SendSignal(notification)
    /\ UNCHANGED <<lockVars, waiters, pc>>

\* The release of the lock comes between the flag and the signal; without
\* waiters the call is Leave.
CvBroadcastRelease(t) ==
    /\ HoldsAt(t, "in")
    /\ waiters > 0
    /\ broadcasting' = TRUE
    /\ Goto(t, "release")
    /\ UNCHANGED <<lockVars, notification, waiters>>

CvRelease(t) ==
    pc[t] = "release" /\ Lock!Increment(t) /\ Goto(t, "released") /\ UNCHANGED cvVars

CvReleased(t) ==
    /\ pc[t] = "released" /\ at[t] = "out"
    /\ notification' = SendSignal(notification)
    /\ Goto(t, "out")
    /\ UNCHANGED <<lockVars, waiters, broadcasting>>

-----------------------------------------------------------------------------
\* The steps inside a call.
InCall(t) ==
    \/ LockWait(t) \/ LockSignal(t)
    \/ CvPost(t) \/ CvSleep(t) \/ CvRelock(t) \/ CvWoken(t) \/ CvChain(t)
    \/ CvRelease(t) \/ CvReleased(t)

\* The calls that release the lock.
LetGo(t) == Leave(t) \/ CvWait(t) \/ CvBroadcastRelease(t)

Next == \E t \in Threads :
    Enter(t) \/ LetGo(t) \/ CvSignal(t) \/ CvBroadcast(t) \/ InCall(t)

Spec == Init /\ [][Next]_vars

\* The kernel runs every thread that is inside a call, and a thread that holds
\* the lock releases it in the end.
Fairness == \A t \in Threads : WF_vars(InCall(t)) /\ WF_vars(LetGo(t))
FairSpec == Spec /\ Fairness

-----------------------------------------------------------------------------
(* Properties. *)

InWait(t) == pc[t] \in {"post", "sleep", "relock", "woken"}

\* The type invariant.
TypeOK ==
    /\ Lock!TypeOK
    /\ notification \in [active : BOOLEAN, queue : Seq(Threads)]
    /\ waiters \in 0..Cardinality(Threads)
    /\ broadcasting \in BOOLEAN
    /\ pc \in [Threads -> {"out", "in", "post", "sleep", "relock", "woken", "chain",
                           "release", "released"}]

\* waiters counts the threads inside sync_cv_wait, although a thread adds and
\* removes itself under two different holds of the lock.
WaitersExact == waiters = Cardinality({t \in Threads : InWait(t)})

\* A broadcast that is not over is on its way: the bit is set, or somebody
\* has been woken and not yet passed it on, or is about to signal.
BroadcastAlive ==
    broadcasting =>
      \/ notification.active
      \/ \E t \in Threads :
           \/ pc[t] = "relock" /\ ~ Asleep(t)
           \/ pc[t] \in {"woken", "chain", "release", "released"}

\* Every broadcast is over in the end.
BroadcastEnds == broadcasting ~> ~ broadcasting

\* "notifies all waiters": a thread that sleeps on the condition variable
\* during a broadcast is woken.
BroadcastNotifiesAll ==
    \A t \in Threads : broadcasting /\ Asleep(t) ~> ~ Asleep(t)
=============================================================================
