------------------------------- MODULE BinSem -------------------------------
(***************************************************************************)
(* The binary semaphore of libsel4sync as a mutex: sync_bin_sem_bare_wait  *)
(* and sync_bin_sem_bare_post on a count and a notification, called by     *)
(* kernel threads that may be preempted between any two steps.  The CAS    *)
(* loop of the decrement is one step: it changes nothing until it          *)
(* succeeds.  Its underflow return needs 2^31 threads and is left out.     *)
(***************************************************************************)
EXTENDS Notifications, Integers, FiniteSets, Functions

VARIABLES
    value,  \* sem->value
    ntfn,   \* sem->notification
    at      \* "out", "wait" (before seL4_Wait), "in", "post" (before seL4_Signal)

vars == <<value, ntfn, at>>

\* sync_mutex_init.
Init ==
    /\ value = 1
    /\ ntfn = NtfnIdle
    /\ at = [t \in Threads |-> "out"]

Asleep(t) == t \in Range(ntfn.queue)
Goto(t, where) == at' = [at EXCEPT ![t] = where]

\* sync_bin_sem_bare_wait up to seL4_Wait.
Decrement(t) ==
    /\ at[t] = "out"
    /\ value' = value - 1
    /\ Goto(t, IF value <= 0 THEN "wait" ELSE "in")
    /\ UNCHANGED ntfn

\* seL4_Wait: the thread is in once it is not queued any more.
Wait(t) ==
    /\ at[t] = "wait"
    /\ ntfn' = ReceiveSignal(ntfn, t)
    /\ Goto(t, "in")
    /\ UNCHANGED value

\* sync_bin_sem_bare_post up to seL4_Signal.
Increment(t) ==
    /\ at[t] = "in" /\ ~ Asleep(t)
    /\ value' = value + 1
    /\ Goto(t, IF value + 1 <= 0 THEN "post" ELSE "out")
    /\ UNCHANGED ntfn

\* seL4_Signal.
Signal(t) ==
    /\ at[t] = "post"
    /\ ntfn' = SendSignal(ntfn)
    /\ Goto(t, "out")
    /\ UNCHANGED value

Step(t) == Decrement(t) \/ Wait(t) \/ Increment(t) \/ Signal(t)
Next == \E t \in Threads : Step(t)

Spec == Init /\ [][Next]_vars

\* A thread inside a call or holding the mutex goes on; one outside need not
\* ask for it.
Fairness == \A t \in Threads : WF_vars(Wait(t) \/ Increment(t) \/ Signal(t))
FairSpec == Spec /\ Fairness

-----------------------------------------------------------------------------
(* Properties. *)

Holds(t) == at[t] = "in" /\ ~ Asleep(t)

\* Threads whose decrement counts: they hold the mutex or wait for it.
Counted == {t \in Threads : at[t] \in {"wait", "in"}}

\* The type invariant.
TypeOK ==
    /\ value \in Int
    /\ ntfn \in [active : BOOLEAN, queue : Seq(Threads)]
    /\ at \in [Threads -> {"out", "wait", "in", "post"}]

\* At most one thread is between the two calls, although the count and the
\* notification are changed by separate steps.
MutualExclusion == \A s, t \in Threads : Holds(s) /\ Holds(t) => s = t

\* The count says how many threads hold the mutex or wait for it; so the
\* assertion of sync_bin_sem_bare_post, *value <= 1, holds whenever another
\* thread's step comes between its increment and its second read.
CountExact == value = 1 - Cardinality(Counted)

\* The notification never holds a signal that is not on its way to a waiter:
\* a stale bit would let a later waiter in beside the holder.
NoStaleSignal ==
    ntfn.active => /\ \E t \in Threads : at[t] = "wait"
                   /\ \A t \in Threads : ~ Holds(t) /\ at[t] # "post"

\* Every thread that waits gets the mutex: no signal is lost between the
\* decrement of a waiter and its seL4_Wait.
WaiterEnters == \A t \in Threads : at[t] = "wait" ~> Holds(t)
=============================================================================
