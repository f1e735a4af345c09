------------------------------- MODULE MCSync -------------------------------
(* A bounded instance of Semaphore and ConditionVar for TLC: the threads of  *)
(* a behaviour use one of the two, which is chosen at the start.             *)
EXTENDS Semaphore, ConditionVar

VARIABLE used   \* "semaphore" or "condition_var"; never changes

syncVars == <<used, semVars, vars>>

SyncInit == used \in {"semaphore", "condition_var"} /\ SemInit /\ Init

SyncNext ==
    /\ \/ used = "semaphore" /\ SemNext /\ UNCHANGED vars
       \/ used = "condition_var" /\ Next /\ UNCHANGED semVars
    /\ UNCHANGED used

SyncFairSpec ==
    /\ SyncInit /\ [][SyncNext]_syncVars
    /\ used = "semaphore" => SemFairness
    /\ used = "condition_var" => Fairness

\* A count that four threads can drive to its minimum.
MinInt == -1
=============================================================================
