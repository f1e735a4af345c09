---------------------------- MODULE BinSemProofs ----------------------------
(***************************************************************************)
(* The mutex excludes, for every finite set of threads.  The permission to *)
(* enter is one token: it is with the holder, with a thread about to       *)
(* signal, or in the notification, and it exists unless the count is 1.    *)
(***************************************************************************)
EXTENDS BinSem, QueueLemmas, FiniteSetTheorems

\* The token is in one place, and in none while the mutex is free.
OneToken ==
    /\ MutualExclusion
    /\ \A s, t \in Threads : at[s] = "post" /\ at[t] = "post" => s = t
    /\ \A s, t \in Threads : Holds(s) => at[t] # "post"
    /\ ntfn.active => \A t \in Threads : ~ Holds(t) /\ at[t] # "post"
    /\ value = 1 => ~ ntfn.active /\ \A t \in Threads : at[t] # "post"

\* A queued thread is at "in" and queued once.
QueueInv ==
    /\ IsInjective(ntfn.queue)
    /\ \A t \in Range(ntfn.queue) : at[t] = "in"

IInv == TypeOK /\ QueueInv /\ CountExact /\ OneToken

\* The count and the set of threads it counts.
LEMMA CountFacts ==
    ASSUME NEW A \in SUBSET Threads
    PROVE  /\ Cardinality(A) \in Nat
           /\ Cardinality(A) = 0 => A = {}
           /\ \A x \in Threads \ A : Cardinality(A \cup {x}) = Cardinality(A) + 1
           /\ \A x \in A : Cardinality(A \ {x}) = Cardinality(A) - 1
<1>1. IsFiniteSet(A)
  BY ThreadsAssumption, FS_Subset
<1>2. QED
  BY <1>1, FS_CardinalityType, FS_EmptySet, FS_AddElement, FS_RemoveElement, Zenon

\* The mutex is counted as soon as somebody holds it or waits for it.
LEMMA ValueFacts ==
    ASSUME TypeOK, CountExact
    PROVE  /\ value <= 1
           /\ value = 1 <=> Counted = {}
           /\ \A t \in Threads : at[t] \in {"wait", "in"} => value <= 0
<1>1. Counted \in SUBSET Threads
  BY DEF Counted
<1>2. Cardinality(Counted) \in Nat /\ (Cardinality(Counted) = 0 => Counted = {})
  BY <1>1, CountFacts
<1>3. Cardinality({}) = 0
  BY FS_EmptySet
<1>4. value <= 1 /\ (value = 1 <=> Cardinality(Counted) = 0)
  BY <1>2 DEF TypeOK, CountExact
<1>5. value = 1 <=> Counted = {}
  BY <1>2, <1>3, <1>4
<1>6. \A t \in Threads : at[t] \in {"wait", "in"} => t \in Counted
  BY DEF Counted
<1>7. value # 1 => value <= 0
  BY <1>4 DEF TypeOK
<1>8. QED
  BY <1>4, <1>5, <1>6, <1>7

\* A new mutex is free and nobody waits.
LEMMA InitInv == Init => IInv
<1> SUFFICES ASSUME Init PROVE IInv
  OBVIOUS
<1>1. /\ ntfn.queue = <<>> /\ ntfn.active = FALSE /\ <<>> \in Seq(Threads)
      /\ ntfn \in [active : BOOLEAN, queue : Seq(Threads)]
  BY DEF Init, NtfnIdle
<1>2. TypeOK
  BY <1>1 DEF Init, TypeOK
<1>3. QueueInv
  BY <1>1, EmptyFacts DEF QueueInv
<1>4. Counted = {}
  BY DEF Init, Counted
<1>5. CountExact
  BY <1>4, FS_EmptySet DEF Init, CountExact
<1>6. OneToken
  BY DEF Init, OneToken, MutualExclusion, Holds, NtfnIdle
<1>7. QED
  BY <1>5, <1>6, <1>2, <1>3 DEF IInv

\* Taking the mutex, or counting oneself as a waiter.
LEMMA DecrementInv == ASSUME IInv, NEW t \in Threads, Decrement(t) PROVE IInv'
<1> USE DEF IInv
<1>1. TypeOK'
  BY DEF TypeOK, Decrement, Goto
<1>2. t \notin Range(ntfn.queue)
  BY DEF QueueInv, Decrement
<1>3. QueueInv'
  BY <1>2, RangeFacts DEF QueueInv, Decrement, Goto, TypeOK
<1>4. t \in Threads \ Counted /\ Counted' = Counted \cup {t}
  BY DEF Counted, Decrement, Goto, TypeOK
<1>5. CountExact'
  <2>1. Counted \in SUBSET Threads
    BY DEF Counted
  <2>2. Cardinality(Counted') = Cardinality(Counted) + 1 /\ Cardinality(Counted) \in Nat
    BY <1>4, <2>1, CountFacts
  <2>3. QED
    BY <2>2 DEF CountExact, Decrement, TypeOK
<1>6. OneToken'
  <2>1. value <= 1 /\ (value = 1 => Counted = {})
    BY ValueFacts
  <2>2. \A s \in Threads : Holds(s)' => Holds(s) \/ s = t
    BY DEF Holds, Asleep, Decrement, Goto, TypeOK
  <2>3. Holds(t)' => value = 1
    BY <2>1 DEF Holds, Decrement, Goto, TypeOK
  <2>4. \A s \in Threads : at'[s] = "post" <=> at[s] = "post"
    BY DEF Decrement, Goto, TypeOK
  <2>5. value = 1 => \A s \in Threads : ~ Holds(s)
    BY <2>1 DEF Counted, Holds
  <2>6. value' # 1
    BY <2>1 DEF Decrement, TypeOK
  <2>7. ntfn' = ntfn
    BY DEF Decrement
  <2>8. QED
    BY <2>2, <2>3, <2>4, <2>5, <2>6, <2>7 DEF OneToken, MutualExclusion
<1>7. QED
  BY <1>1, <1>3, <1>5, <1>6

\* Giving the mutex up; whoever is counted still has to be signalled.
LEMMA IncrementInv == ASSUME IInv, NEW t \in Threads, Increment(t) PROVE IInv'
<1> USE DEF IInv
<1>1. TypeOK'
  BY DEF TypeOK, Increment, Goto
<1>2. Holds(t) /\ t \notin Range(ntfn.queue)
  BY DEF Increment, Holds, Asleep
<1>3. QueueInv'
  BY <1>2, RangeFacts DEF QueueInv, Increment, Goto, TypeOK
<1>4. t \in Counted /\ Counted' = Counted \ {t}
  BY DEF Counted, Increment, Goto, TypeOK
<1>5. CountExact'
  <2>1. Counted \in SUBSET Threads
    BY DEF Counted
  <2>2. Cardinality(Counted') = Cardinality(Counted) - 1 /\ Cardinality(Counted) \in Nat
    BY <1>4, <2>1, CountFacts
  <2>3. QED
    BY <2>2 DEF CountExact, Increment, TypeOK
<1>6. OneToken'
  <2>1. \A s \in Threads : ~ Holds(s)'
    BY <1>2 DEF OneToken, MutualExclusion, Holds, Asleep, Increment, Goto, TypeOK
  <2>2. \A s \in Threads : at'[s] = "post" => s = t /\ value' <= 0
    BY <1>2 DEF OneToken, Increment, Goto, TypeOK
  <2>3. ~ ntfn.active /\ ntfn' = ntfn
    BY <1>2 DEF OneToken, Increment
  <2>4. value' \in Int
    BY <1>1 DEF TypeOK
  <2>5. QED
    BY <2>1, <2>2, <2>3, <2>4 DEF OneToken, MutualExclusion
<1>7. QED
  BY <1>1, <1>3, <1>5, <1>6

\* Taking the signal, or queueing on the notification.
LEMMA WaitInv == ASSUME IInv, NEW t \in Threads, Wait(t) PROVE IInv'
<1> USE DEF IInv
<1>1. /\ ntfn.queue \in Seq(Threads) /\ ntfn.active \in BOOLEAN
      /\ ntfn' = ReceiveSignal(ntfn, t)
      /\ at' = [at EXCEPT ![t] = "in"] /\ value' = value
  BY DEF TypeOK, Wait, Goto
<1>2. /\ ntfn'.queue = IF ntfn.active THEN ntfn.queue ELSE Append(ntfn.queue, t)
      /\ ntfn'.active = FALSE
      /\ ntfn' \in [active : BOOLEAN, queue : Seq(Threads)]
  <2>1. Append(ntfn.queue, t) \in Seq(Threads)
    BY <1>1, AppendFacts
  <2>2. CASE ntfn.active
    BY <1>1, <2>2, Zenon DEF TypeOK, ReceiveSignal
  <2>3. CASE ~ ntfn.active
    BY <1>1, <2>1, <2>3, Zenon DEF TypeOK, ReceiveSignal
  <2>4. QED
    BY <2>2, <2>3, Zenon
<1>3. TypeOK'
  BY <1>1, <1>2 DEF TypeOK
<1>4. t \notin Range(ntfn.queue)
  BY DEF QueueInv, Wait
<1>5. /\ Range(ntfn'.queue) = IF ntfn.active THEN Range(ntfn.queue)
                                             ELSE Range(ntfn.queue) \cup {t}
      /\ IsInjective(ntfn'.queue)
  <2>1. CASE ntfn.active
    BY <1>2, <2>1 DEF QueueInv
  <2>2. CASE ~ ntfn.active
    <3>1. IsInjective(ntfn.queue) /\ ntfn'.queue = Append(ntfn.queue, t)
      BY <1>2, <2>2 DEF QueueInv
    <3>2. QED
      BY <1>1, <1>4, <2>2, <3>1, AppendFacts
  <2>3. QED
    BY <2>1, <2>2
<1>6. \A x \in Range(ntfn.queue) : x \in Threads
  BY <1>1, RangeFacts
<1>7. QueueInv'
  BY <1>1, <1>4, <1>5, <1>6 DEF QueueInv, TypeOK
<1>8. Counted' = Counted
  BY <1>1 DEF Counted, Wait, TypeOK
<1>9. CountExact'
  BY <1>1, <1>8 DEF CountExact
<1>10. OneToken'
  <2>1. \A s \in Threads : Holds(s)' => Holds(s) \/ (s = t /\ ntfn.active)
    BY <1>1, <1>5 DEF Holds, Asleep, TypeOK
  <2>2. \A s \in Threads : at'[s] = "post" => at[s] = "post"
    BY <1>1 DEF TypeOK
  <2>3. QED
    BY <1>1, <1>2, <2>1, <2>2 DEF OneToken, MutualExclusion
<1>11. QED
  BY <1>3, <1>7, <1>9, <1>10

\* Waking the first waiter, or leaving the signal for one yet to wait.
LEMMA SignalInv == ASSUME IInv, NEW t \in Threads, Signal(t) PROVE IInv'
<1> USE DEF IInv
<1>1. /\ ntfn.queue \in Seq(Threads) /\ ntfn.active \in BOOLEAN
      /\ ntfn' = SendSignal(ntfn)
      /\ at[t] = "post" /\ at' = [at EXCEPT ![t] = "out"] /\ value' = value
  BY DEF TypeOK, Signal, Goto
<1>2. CASE ntfn.queue = <<>>
  <2>1. ntfn'.queue = ntfn.queue /\ ntfn'.active = TRUE
    BY <1>1, <1>2 DEF TypeOK, SendSignal
  <2>2. TypeOK'
    BY <1>1, <1>2, Zenon DEF TypeOK, SendSignal
  <2>3. QueueInv'
    BY <1>2, <2>1, EmptyFacts, <1>1 DEF QueueInv
  <2>4. Counted' = Counted
    BY <1>1 DEF Counted, TypeOK
  <2>5. CountExact'
    BY <1>1, <2>4 DEF CountExact
  <2>6. \A s \in Threads : Holds(s)' => Holds(s)
    BY <1>1, <2>1 DEF Holds, Asleep, TypeOK
  <2>7. \A s \in Threads : at'[s] # "post"
    BY <1>1 DEF OneToken, TypeOK
  <2>8. OneToken'
    BY <1>1, <2>6, <2>7 DEF OneToken, MutualExclusion
  <2>9. QED
    BY <2>2, <2>3, <2>5, <2>8
<1>3. CASE ntfn.queue # <<>>
  <2>1. ntfn'.queue = Tail(ntfn.queue) /\ ntfn'.active = ntfn.active
    BY <1>1, <1>3 DEF TypeOK, SendSignal
  <2>2. /\ Head(ntfn.queue) \in Threads
        /\ Tail(ntfn.queue) \in Seq(Threads)
        /\ Range(ntfn.queue) = Range(Tail(ntfn.queue)) \cup {Head(ntfn.queue)}
        /\ IsInjective(Tail(ntfn.queue))
    BY <1>1, <1>3, TailFacts DEF QueueInv
  <2>3. TypeOK'
    BY <1>1, <1>3, <2>2, Zenon DEF TypeOK, SendSignal
  <2>4. \A x \in Range(ntfn.queue) : x \in Threads /\ x # t
    BY <1>1, RangeFacts DEF QueueInv
  <2>5. QueueInv'
    BY <1>1, <2>1, <2>2, <2>4 DEF QueueInv, TypeOK
  <2>6. Counted' = Counted
    BY <1>1 DEF Counted, TypeOK
  <2>7. CountExact'
    BY <1>1, <2>6 DEF CountExact
  <2>8. \A s \in Threads : Holds(s)' => Holds(s) \/ s = Head(ntfn.queue)
    BY <1>1, <2>1, <2>2 DEF Holds, Asleep, TypeOK
  <2>9. \A s \in Threads : at'[s] # "post" /\ ~ Holds(s)
    BY <1>1 DEF OneToken, TypeOK
  <2>10. ~ ntfn.active /\ value # 1
    BY <1>1 DEF OneToken
  <2>11. OneToken'
    BY <1>1, <2>1, <2>8, <2>9, <2>10 DEF OneToken, MutualExclusion
  <2>12. QED
    BY <2>3, <2>5, <2>7, <2>11
<1>4. QED
  BY <1>2, <1>3

\* The invariant is inductive.
THEOREM MutexInvariant == Spec => []IInv
<1>1. IInv /\ [Next]_vars => IInv'
  <2> SUFFICES ASSUME IInv, [Next]_vars PROVE IInv'
    OBVIOUS
  <2>1. ASSUME NEW t \in Threads, Step(t) PROVE IInv'
    BY <2>1, DecrementInv, WaitInv, IncrementInv, SignalInv DEF Step
  <2>2. CASE UNCHANGED vars
    BY <2>2 DEF vars, IInv, TypeOK, QueueInv, CountExact, Counted, OneToken,
                MutualExclusion, Holds, Asleep
  <2>3. QED
    BY <2>1, <2>2 DEF Next
<1>2. QED
  BY InitInv, <1>1, PTL DEF Spec

\* The mutex of libsel4sync excludes, whatever the number of threads.
THEOREM MutexExcludes == Spec => []MutualExclusion
<1>1. IInv => MutualExclusion
  BY DEF IInv, OneToken
<1>2. QED
  BY <1>1, MutexInvariant, PTL

\* The count is exact, so the assertion in sync_bin_sem_bare_post holds.
THEOREM MutexCountExact == Spec => []CountExact
<1>1. IInv => CountExact
  BY DEF IInv
<1>2. QED
  BY <1>1, MutexInvariant, PTL
=============================================================================
