----------------------------- MODULE Semaphore -----------------------------
(***************************************************************************)
(* The counting semaphore of libsel4sync: sync_sem_bare_wait, _trywait and *)
(* _post on a count and an endpoint, called by kernel threads that may be  *)
(* preempted between any two steps.  seL4_Signal on an endpoint is a send  *)
(* without a message, and blocks until a receiver comes.  A thread posts   *)
(* what it has acquired, as the comment in sync_sem_bare_post presumes.    *)
(***************************************************************************)
EXTENDS Integers, Sequences, FiniteSets, Functions

CONSTANTS
    Callers,  \* the threads that use the semaphore
    units,    \* the initial value of the count
    INT_MIN, INT_MAX

ASSUME SemAssumption ==
    /\ IsFiniteSet(Callers)
    /\ INT_MIN \in Int /\ INT_MAX \in Int /\ units \in 0..INT_MAX /\ INT_MIN < 0

VARIABLES
    sem_value,
    ep,      \* the endpoint: the threads blocked on it and what they do
    sem_at,  \* "out", "wait" (before seL4_Wait), "try", "in", "post" (after the
             \* assertion), "signal" (before seL4_Signal), "done" (in seL4_Signal)
    val      \* local of sync_sem_bare_trywait

semVars == <<sem_value, ep, sem_at, val>>

EpIdle == [role |-> "idle", queue |-> <<>>]

\* sync_sem_init.
SemInit ==
    /\ sem_value = units
    /\ ep = EpIdle
    /\ sem_at = [t \in Callers |-> "out"]
    /\ val = [t \in Callers |-> 0]

Blocked(t) == t \in Range(ep.queue)
At(t, where) == sem_at[t] = where /\ ~ Blocked(t)
SemGoto(t, where) == sem_at' = [sem_at EXCEPT ![t] = where]

\* A thread meets the first one of the other role, or joins its own.
Meet(t, role) ==
    LET other == IF role = "recv" THEN "send" ELSE "recv"
    IN  ep' = IF ep.role = other
              THEN IF Len(ep.queue) = 1 THEN EpIdle ELSE [ep EXCEPT !.queue = Tail(@)]
              ELSE [role |-> role, queue |-> Append(ep.queue, t)]

-----------------------------------------------------------------------------
\* sync_sem_bare_wait up to seL4_Wait.  At INT_MIN it returns -1 and changes
\* nothing.
Wait(t) ==
    /\ At(t, "out") /\ sem_value # INT_MIN
    /\ sem_value' = sem_value - 1
    /\ SemGoto(t, IF sem_value <= 0 THEN "wait" ELSE "in")
    /\ UNCHANGED <<ep, val>>

\* seL4_Wait: the thread is in once it is not blocked any more.
WaitRecv(t) ==
    /\ At(t, "wait")
    /\ Meet(t, "recv")
    /\ SemGoto(t, "in")
    /\ UNCHANGED <<sem_value, val>>

\* sync_sem_bare_trywait: the read of the loop.  An empty semaphore returns -1.
TryRead(t) ==
    /\ At(t, "out") /\ sem_value > 0
    /\ val' = [val EXCEPT ![t] = sem_value]
    /\ SemGoto(t, "try")
    /\ UNCHANGED <<sem_value, ep>>

\* Mutant: a store in place of the compare and exchange.
TryStore(t) ==
    /\ At(t, "try")
    /\ sem_value' = val[t] - 1
    /\ SemGoto(t, "in")
    /\ val' = [val EXCEPT ![t] = 0]
    /\ UNCHANGED ep

\* The compare and exchange succeeds, or the thread is back at the read; it
\* may fail without a reason.
TryCas(t) ==
    /\ At(t, "try")
    /\ \/ sem_value = val[t] /\ sem_value' = val[t] - 1 /\ SemGoto(t, "in")
       \/ SemGoto(t, "out") /\ UNCHANGED sem_value
    /\ val' = [val EXCEPT ![t] = 0]
    /\ UNCHANGED ep

\* sync_sem_bare_post: the assertion reads the count, the increment follows.
Post(t) ==
    /\ At(t, "in")
    /\ SemGoto(t, "post")
    /\ UNCHANGED <<sem_value, ep, val>>

\* Mutant: a signal in every case.
PostIncrementLoud(t) ==
    /\ At(t, "post")
    /\ sem_value' = sem_value + 1
    /\ SemGoto(t, "signal")
    /\ UNCHANGED <<ep, val>>

PostIncrement(t) ==
    /\ At(t, "post")
    /\ sem_value' = sem_value + 1
    /\ SemGoto(t, IF sem_value + 1 <= 0 THEN "signal" ELSE "out")
    /\ UNCHANGED <<ep, val>>

\* seL4_Signal, and its return once a receiver has come.
PostSend(t) ==
    /\ At(t, "signal")
    /\ Meet(t, "send")
    /\ SemGoto(t, "done")
    /\ UNCHANGED <<sem_value, val>>

PostReturn(t) == At(t, "done") /\ SemGoto(t, "out") /\ UNCHANGED <<sem_value, ep, val>>

SemInCall(t) ==
    WaitRecv(t) \/ TryCas(t) \/ Post(t) \/ PostIncrement(t) \/ PostSend(t) \/ PostReturn(t)
SemNext == \E t \in Callers : Wait(t) \/ TryRead(t) \/ SemInCall(t)

SemSpec == SemInit /\ [][SemNext]_semVars

\* A thread inside a call or holding a unit goes on.
SemFairness == \A t \in Callers : WF_semVars(SemInCall(t))
SemFairSpec == SemSpec /\ SemFairness

-----------------------------------------------------------------------------
(* Properties. *)

Holds(t) == sem_at[t] \in {"in", "post"} /\ ~ Blocked(t)
Holders == {t \in Callers : Holds(t)}

\* The type invariant.
SemTypeOK ==
    /\ sem_value \in INT_MIN..INT_MAX
    /\ ep \in [role : {"idle", "send", "recv"}, queue : Seq(Callers)]
    /\ sem_at \in [Callers -> {"out", "wait", "try", "in", "post", "signal", "done"}]
    /\ val \in [Callers -> 0..INT_MAX]

\* Never more threads than units are past their wait, whichever of the two
\* waits they used and wherever the count and the endpoint were read.
UnitsBound == Cardinality(Holders) <= units

\* The units are with the holders, on their way to a waiter, or in the count.
UnitsKept ==
    Cardinality(Holders)
      + Cardinality({t \in Callers : sem_at[t] = "signal" \/ (sem_at[t] = "done" /\ Blocked(t))})
      + (IF sem_value > 0 THEN sem_value ELSE 0) = units

\* The assertion in sync_sem_bare_post: nobody holds a unit of a full
\* semaphore.
AssertHolds == \A t \in Callers : Holds(t) => sem_value < INT_MAX

\* Nobody is left at the endpoint, although a poster and a waiter may reach it
\* in either order: every waiter gets a unit, and a poster that found the
\* count at zero or below meets the waiter it signals.
NobodyLeft ==
    \A t \in Callers : /\ sem_at[t] = "wait" ~> Holds(t)
                       /\ sem_at[t] = "signal" ~> sem_at[t] = "out"
=============================================================================
