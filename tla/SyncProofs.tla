----------------------------- MODULE SyncProofs -----------------------------
(***************************************************************************)
(* The counting semaphore and the condition variable of libsel4sync, for   *)
(* every finite set of threads.  The semaphore keeps its units: the count  *)
(* is the initial value less the threads that hold a unit or want one, and *)
(* below zero it says by how many the waiters exceed the posts under way.  *)
(* The condition variable counts its waiters exactly and never loses a     *)
(* broadcast; and its lock is a behaviour of BinSem, so that the accesses  *)
(* ConditionVar takes as one step exclude each other.                      *)
(***************************************************************************)
EXTENDS Semaphore, ConditionVar, QueueLemmas, FiniteSetTheorems

\* How the size of a set follows its elements.
LEMMA CountFacts ==
    ASSUME NEW S, IsFiniteSet(S), NEW A \in SUBSET S
    PROVE  /\ IsFiniteSet(A)
           /\ Cardinality(A) \in Nat
           /\ \A x \in S \ A : Cardinality(A \cup {x}) = Cardinality(A) + 1
           /\ \A x \in A : Cardinality(A \ {x}) = Cardinality(A) - 1
           /\ \A x \in A : Cardinality(A) > 0
           /\ Cardinality(A) <= Cardinality(S)
<1>1. IsFiniteSet(A)
  BY FS_Subset
<1>2. /\ Cardinality(A) \in Nat
      /\ Cardinality(A) = 0 <=> A = {}
      /\ Cardinality(A) <= Cardinality(S)
  BY <1>1, FS_CardinalityType, FS_EmptySet, FS_Subset
<1>3. QED
  BY <1>1, <1>2, FS_AddElement, FS_RemoveElement

-----------------------------------------------------------------------------
(* The semaphore. *)

EpType == [role : {"idle", "send", "recv"}, queue : Seq(Callers)]

\* The threads whose decrement counts, the ones among them without a unit,
\* and the ones that have a unit for somebody else.
Counted == {t \in Callers : sem_at[t] \in {"wait", "in", "post"}}
Waiters == {t \in Callers : sem_at[t] = "wait" \/ (sem_at[t] = "in" /\ Blocked(t))}
Posters == {t \in Callers : sem_at[t] = "signal" \/ (sem_at[t] = "done" /\ Blocked(t))}

\* The endpoint's queue holds threads of one role, each one once.
EpInv ==
    /\ IsInjective(ep.queue)
    /\ ep.role = "idle" <=> ep.queue = <<>>
    /\ ep.role = "recv" => \A t \in Range(ep.queue) : sem_at[t] = "in"
    /\ ep.role = "send" => \A t \in Range(ep.queue) : sem_at[t] = "done"

\* trywait exchanges only a positive count.
TryInv == \A t \in Callers : sem_at[t] = "try" => val[t] > 0

CountExact == sem_value = units - Cardinality(Counted)
Balance ==
    Cardinality(Waiters) = Cardinality(Posters) + (IF sem_value < 0 THEN 0 - sem_value ELSE 0)

SemIInv == SemTypeOK /\ EpInv /\ TryInv /\ CountExact /\ Balance

-----------------------------------------------------------------------------
(* The endpoint and the count. *)

\* A thread meets the first of the other role and takes it off the endpoint.
LEMMA MeetOther ==
    ASSUME ep \in EpType, EpInv, NEW t, NEW role \in {"recv", "send"}, Meet(t, role),
           ep.role = IF role = "recv" THEN "send" ELSE "recv"
    PROVE  /\ ep' \in EpType
           /\ IsInjective(ep'.queue)
           /\ ep'.role = "idle" <=> ep'.queue = <<>>
           /\ ep'.role \in {"idle", ep.role}
           /\ \E h \in Range(ep.queue) : Range(ep'.queue) = Range(ep.queue) \ {h}
<1>1. ep.queue \in Seq(Callers) /\ ep.queue # <<>> /\ ep.role \in {"send", "recv"}
  BY DEF EpType, EpInv
<1>2. /\ Tail(ep.queue) \in Seq(Callers)
      /\ Range(ep.queue) = Range(Tail(ep.queue)) \cup {Head(ep.queue)}
      /\ IsInjective(Tail(ep.queue))
      /\ Head(ep.queue) \notin Range(Tail(ep.queue))
  BY <1>1, TailFacts DEF EpInv
<1>3. Len(ep.queue) = 1 <=> Tail(ep.queue) = <<>>
  <2>1. Len(ep.queue) \in Nat \ {0} /\ Len(Tail(ep.queue)) = Len(ep.queue) - 1
    BY <1>1
  <2>2. Tail(ep.queue) = <<>> <=> Len(Tail(ep.queue)) = 0
    <3>1. Len(<<>>) = 0
      OBVIOUS
    <3>2. Len(Tail(ep.queue)) = 0 => Range(Tail(ep.queue)) = {}
      BY <1>2 DEF Range
    <3>3. QED
      BY <1>2, <3>1, <3>2, EmptyFacts, Zenon
  <2>3. QED
    BY <2>1, <2>2
<1>4. /\ ep'.queue = Tail(ep.queue)
      /\ ep'.role = IF Tail(ep.queue) = <<>> THEN "idle" ELSE ep.role
      /\ ep' \in EpType
  <2>1. CASE Len(ep.queue) = 1
    BY <1>1, <1>2, <1>3, <2>1 DEF Meet, EpIdle, EpType
  <2>2. CASE Len(ep.queue) # 1
    BY <1>1, <1>2, <1>3, <2>2, Zenon DEF Meet, EpType
  <2>3. QED
    BY <2>1, <2>2
<1>5. Range(ep'.queue) = Range(ep.queue) \ {Head(ep.queue)} /\ Head(ep.queue) \in Range(ep.queue)
  BY <1>2, <1>4
<1>6. QED
  BY <1>1, <1>2, <1>4, <1>5

\* Otherwise it joins the queue of its own role.
LEMMA MeetNone ==
    ASSUME ep \in EpType, EpInv, NEW t \in Callers, t \notin Range(ep.queue),
           NEW role \in {"recv", "send"}, Meet(t, role),
           ep.role # IF role = "recv" THEN "send" ELSE "recv"
    PROVE  /\ ep' \in EpType
           /\ IsInjective(ep'.queue)
           /\ ep'.queue # <<>>
           /\ ep'.role = role
           /\ ep.role \in {"idle", role}
           /\ Range(ep'.queue) = Range(ep.queue) \cup {t}
<1>1. ep.queue \in Seq(Callers) /\ IsInjective(ep.queue) /\ ep.role \in {"idle", role}
  BY DEF EpType, EpInv
<1>2. ep' = [role |-> role, queue |-> Append(ep.queue, t)]
  BY DEF Meet
<1>3. /\ Append(ep.queue, t) \in Seq(Callers)
      /\ Append(ep.queue, t) # <<>>
      /\ Range(Append(ep.queue, t)) = Range(ep.queue) \cup {t}
      /\ IsInjective(Append(ep.queue, t))
  BY <1>1, AppendFacts
<1>4. QED
  BY <1>1, <1>2, <1>3 DEF EpType

\* The count is at most the initial value, and less while somebody is counted.
LEMMA ValueFacts ==
    ASSUME sem_value \in Int, CountExact
    PROVE  /\ sem_value <= units
           /\ \A t \in Callers : sem_at[t] \in {"wait", "in", "post"} => sem_value < units
           /\ units \in Nat /\ units <= INT_MAX
<1>1. Cardinality(Counted) \in Nat /\ \A t \in Counted : Cardinality(Counted) > 0
  BY CountFacts, SemAssumption DEF Counted
<1>2. \A t \in Callers : sem_at[t] \in {"wait", "in", "post"} => t \in Counted
  BY DEF Counted
<1>3. units \in Nat /\ units <= INT_MAX
  BY SemAssumption
<1>4. QED
  BY <1>1, <1>2, <1>3 DEF CountExact

\* Initially all units are in the count.
LEMMA SemInitInv == SemInit => SemIInv
<1> SUFFICES ASSUME SemInit PROVE SemIInv
  OBVIOUS
<1>1. ep \in EpType /\ ep.queue = <<>> /\ ep.role = "idle" /\ <<>> \in Seq(Callers)
  BY DEF SemInit, EpIdle, EpType
<1>2. units \in Nat /\ sem_value = units /\ sem_value \in INT_MIN..INT_MAX /\ 0 \in 0..INT_MAX
  BY SemAssumption DEF SemInit
<1>3. SemTypeOK
  BY <1>1, <1>2 DEF SemInit, SemTypeOK, EpType
<1>4. EpInv
  BY <1>1, EmptyFacts, Zenon DEF EpInv
<1>5. TryInv
  BY DEF SemInit, TryInv
<1>6. Counted = {} /\ Waiters = {} /\ Posters = {}
  BY DEF SemInit, Counted, Waiters, Posters
<1>7. CountExact /\ Balance
  BY <1>2, <1>6, FS_EmptySet DEF CountExact, Balance
<1>8. QED
  BY <1>3, <1>4, <1>5, <1>7 DEF SemIInv

-----------------------------------------------------------------------------
(* The steps. *)

\* A step that leaves the endpoint alone keeps its queue, as only threads that
\* are not in it move.
LEMMA QueueKept ==
    ASSUME SemIInv, NEW t \in Callers, ~ Blocked(t), ep' = ep, NEW w, SemGoto(t, w)
    PROVE  /\ EpInv'
           /\ \A s \in Callers : Blocked(s)' <=> Blocked(s)
<1>1. \A s \in Range(ep.queue) : s \in Callers /\ s # t /\ sem_at'[s] = sem_at[s]
  BY RangeFacts DEF SemIInv, SemTypeOK, Blocked, SemGoto
<1>2. QED
  BY <1>1 DEF SemIInv, EpInv, Blocked

\* sync_sem_bare_wait counts its thread, as a holder or as a waiter.
LEMMA WaitInv == ASSUME SemIInv, NEW t \in Callers, Wait(t) PROVE SemIInv'
<1> USE DEF SemIInv
<1>1. /\ sem_at[t] = "out" /\ ~ Blocked(t) /\ sem_value # INT_MIN /\ sem_value' = sem_value - 1
      /\ sem_at' = [sem_at EXCEPT ![t] = IF sem_value <= 0 THEN "wait" ELSE "in"]
      /\ ep' = ep /\ val' = val
  BY DEF Wait, At, SemGoto
<1>2. sem_value \in INT_MIN..INT_MAX /\ INT_MIN \in Int /\ INT_MAX \in Int
  BY SemAssumption DEF SemTypeOK
<1>3. SemTypeOK'
  BY <1>1, <1>2 DEF SemTypeOK
<1>4. EpInv' /\ \A s \in Callers : Blocked(s)' <=> Blocked(s)
  BY <1>1, QueueKept, Zenon DEF SemGoto
<1>5. TryInv'
  BY <1>1 DEF TryInv, SemTypeOK
<1>6. CountExact'
  <2>1. Counted' = Counted \cup {t} /\ t \in Callers \ Counted
    BY <1>1 DEF Counted, SemTypeOK
  <2>2. Cardinality(Counted') = Cardinality(Counted) + 1 /\ Cardinality(Counted) \in Nat
    <3>1. Counted \in SUBSET Callers /\ IsFiniteSet(Callers)
      BY SemAssumption DEF Counted
    <3>2. QED
      BY <2>1, <3>1, CountFacts, Zenon
  <2>3. units \in Int
    BY SemAssumption
  <2>4. QED
    BY <1>1, <1>2, <2>2, <2>3 DEF CountExact
<1>7. Posters' = Posters
  BY <1>1, <1>4 DEF Posters, SemTypeOK
<1>8. Cardinality(Posters) \in Nat
  BY CountFacts, SemAssumption DEF Posters
<1>9. Balance'
  <2>1. CASE sem_value <= 0
    <3>1. Waiters' = Waiters \cup {t} /\ t \in Callers \ Waiters
      BY <1>1, <1>4, <2>1 DEF Waiters, SemTypeOK
    <3>2. Cardinality(Waiters') = Cardinality(Waiters) + 1
      BY <3>1, CountFacts, SemAssumption DEF Waiters
    <3>3. QED
      BY <1>1, <1>2, <1>7, <1>8, <2>1, <3>2 DEF Balance
  <2>2. CASE ~ (sem_value <= 0)
    <3>1. Waiters' = Waiters
      BY <1>1, <1>4, <2>2 DEF Waiters, SemTypeOK
    <3>2. QED
      BY <1>1, <1>2, <1>7, <1>8, <2>2, <3>1 DEF Balance
  <2>3. QED
    BY <2>1, <2>2
<1>10. QED
  BY <1>3, <1>4, <1>5, <1>6, <1>9

\* Steps that change neither the count nor who is counted.
LEMMA QuietInv ==
    ASSUME SemIInv, NEW t \in Callers, ~ Blocked(t), ep' = ep, sem_value' = sem_value,
           NEW w, SemGoto(t, w), val' \in [Callers -> 0..INT_MAX],
           \/ sem_at[t] = "out" /\ w = "try"
           \/ sem_at[t] = "try" /\ w = "out"
           \/ sem_at[t] = "in" /\ w = "post"
           \/ sem_at[t] = "done" /\ w = "out",
           w = "try" => val'[t] > 0,
           \A s \in Callers \ {t} : val'[s] = val[s]
    PROVE  SemIInv'
<1> USE DEF SemIInv
<1>1. sem_at' = [sem_at EXCEPT ![t] = w]
  BY DEF SemGoto
<1>2. SemTypeOK'
  BY <1>1 DEF SemTypeOK
<1>3. EpInv' /\ \A s \in Callers : Blocked(s)' <=> Blocked(s)
  BY QueueKept
<1>4. TryInv'
  BY <1>1 DEF TryInv, SemTypeOK
<1>5. Counted' = Counted /\ Waiters' = Waiters /\ Posters' = Posters
  BY <1>1, <1>3 DEF Counted, Waiters, Posters, SemTypeOK
<1>6. CountExact' /\ Balance'
  BY <1>5 DEF CountExact, Balance
<1>7. QED
  BY <1>2, <1>3, <1>4, <1>6

\* A successful exchange takes a unit from a positive count.
LEMMA TryTakeInv ==
    ASSUME SemIInv, NEW t \in Callers, sem_at[t] = "try", ~ Blocked(t), sem_value = val[t],
           sem_value' = val[t] - 1, SemGoto(t, "in"), ep' = ep,
           val' = [val EXCEPT ![t] = 0]
    PROVE  SemIInv'
<1> USE DEF SemIInv
<1>1. /\ sem_at' = [sem_at EXCEPT ![t] = "in"]
      /\ sem_value > 0 /\ sem_value' = sem_value - 1
  BY DEF SemGoto, TryInv
<1>2. sem_value \in INT_MIN..INT_MAX /\ INT_MIN \in Int /\ INT_MAX \in Int /\ INT_MIN < 0
      /\ 0 \in 0..INT_MAX
  BY SemAssumption DEF SemTypeOK
<1>3. SemTypeOK'
  BY <1>1, <1>2 DEF SemTypeOK
<1>4. EpInv' /\ \A s \in Callers : Blocked(s)' <=> Blocked(s)
  BY QueueKept
<1>5. TryInv'
  BY <1>1 DEF TryInv, SemTypeOK
<1>6. CountExact'
  <2>1. Counted' = Counted \cup {t} /\ t \in Callers \ Counted
    BY <1>1 DEF Counted, SemTypeOK
  <2>2. Cardinality(Counted') = Cardinality(Counted) + 1 /\ Cardinality(Counted) \in Nat
    <3>1. Counted \in SUBSET Callers /\ IsFiniteSet(Callers)
      BY SemAssumption DEF Counted
    <3>2. QED
      BY <2>1, <3>1, CountFacts, Zenon
  <2>3. units \in Int
    BY SemAssumption
  <2>4. QED
    BY <1>1, <1>2, <2>2, <2>3 DEF CountExact
<1>7. Posters' = Posters /\ Waiters' = Waiters
  BY <1>1, <1>4 DEF Posters, Waiters, SemTypeOK
<1>8. Balance'
  BY <1>1, <1>2, <1>7 DEF Balance
<1>9. QED
  BY <1>3, <1>4, <1>5, <1>6, <1>8

\* The increment of post: the unit goes to the count or to a waiter.
LEMMA PostIncrementInv == ASSUME SemIInv, NEW t \in Callers, PostIncrement(t) PROVE SemIInv'
<1> USE DEF SemIInv
<1>1. /\ sem_at[t] = "post" /\ ~ Blocked(t) /\ sem_value' = sem_value + 1
      /\ sem_at' = [sem_at EXCEPT ![t] = IF sem_value + 1 <= 0 THEN "signal" ELSE "out"]
      /\ ep' = ep /\ val' = val
  BY DEF PostIncrement, At, SemGoto
<1>2. sem_value \in INT_MIN..INT_MAX /\ INT_MIN \in Int /\ INT_MAX \in Int
  BY SemAssumption DEF SemTypeOK
<1>3. sem_value < units /\ units \in Nat /\ units <= INT_MAX
  BY <1>1, <1>2, ValueFacts
<1>4. SemTypeOK'
  BY <1>1, <1>2, <1>3 DEF SemTypeOK
<1>5. EpInv' /\ \A s \in Callers : Blocked(s)' <=> Blocked(s)
  BY <1>1, QueueKept, Zenon DEF SemGoto
<1>6. TryInv'
  BY <1>1 DEF TryInv, SemTypeOK
<1>7. CountExact'
  <2>1. Counted' = Counted \ {t} /\ t \in Counted
    BY <1>1 DEF Counted, SemTypeOK
  <2>2. Cardinality(Counted') = Cardinality(Counted) - 1 /\ Cardinality(Counted) \in Nat
    BY <2>1, CountFacts, SemAssumption DEF Counted
  <2>3. QED
    BY <1>1, <1>2, <1>3, <2>2 DEF CountExact
<1>8. Waiters' = Waiters
  BY <1>1, <1>5 DEF Waiters, SemTypeOK
<1>9. Cardinality(Posters) \in Nat
  BY CountFacts, SemAssumption DEF Posters
<1>10. Balance'
  <2>1. CASE sem_value + 1 <= 0
    <3>1. Posters' = Posters \cup {t} /\ t \in Callers \ Posters
      BY <1>1, <1>5, <2>1 DEF Posters, SemTypeOK
    <3>2. Cardinality(Posters') = Cardinality(Posters) + 1
      BY <3>1, CountFacts, SemAssumption DEF Posters
    <3>3. QED
      BY <1>1, <1>2, <1>8, <1>9, <2>1, <3>2 DEF Balance
  <2>2. CASE ~ (sem_value + 1 <= 0)
    <3>1. Posters' = Posters
      BY <1>1, <1>5, <2>2 DEF Posters, SemTypeOK
    <3>2. QED
      BY <1>1, <1>2, <1>8, <1>9, <2>2, <3>1 DEF Balance
  <2>3. QED
    BY <2>1, <2>2
<1>11. QED
  BY <1>4, <1>5, <1>6, <1>7, <1>10

\* A waiter and a poster meet on the endpoint, in either order: the unit
\* passes to the waiter, and the poster has none left.
LEMMA MeetInv ==
    ASSUME SemIInv, NEW t \in Callers, ~ Blocked(t), sem_value' = sem_value, val' = val,
           \/ sem_at[t] = "wait" /\ SemGoto(t, "in") /\ Meet(t, "recv")
           \/ sem_at[t] = "signal" /\ SemGoto(t, "done") /\ Meet(t, "send")
    PROVE  SemIInv'
<1> USE DEF SemIInv
<1>1. ep \in EpType /\ t \notin Range(ep.queue)
  BY DEF SemTypeOK, EpType, Blocked
<1>2. \A s \in Range(ep.queue) : s \in Callers /\ s # t
  BY <1>1, RangeFacts DEF EpType
<1> DEFINE w == IF sem_at[t] = "wait" THEN "in" ELSE "done"
<1> DEFINE role == IF sem_at[t] = "wait" THEN "recv" ELSE "send"
<1>3. /\ sem_at' = [sem_at EXCEPT ![t] = w] /\ Meet(t, role)
      /\ sem_at[t] = IF role = "recv" THEN "wait" ELSE "signal"
  BY DEF SemGoto
<1>4. ep' \in EpType => SemTypeOK'
  BY <1>3 DEF SemTypeOK, EpType
<1>5. TryInv'
  BY <1>3 DEF TryInv, SemTypeOK
<1>6. Counted' = Counted
  BY <1>3 DEF Counted, SemTypeOK
<1>7. CountExact'
  BY <1>6 DEF CountExact
<1>8. CASE ep.role = IF role = "recv" THEN "send" ELSE "recv"
  <2>1. /\ ep' \in EpType
        /\ IsInjective(ep'.queue)
        /\ ep'.role = "idle" <=> ep'.queue = <<>>
        /\ ep'.role \in {"idle", ep.role}
        /\ \E h \in Range(ep.queue) : Range(ep'.queue) = Range(ep.queue) \ {h}
    BY <1>1, <1>3, <1>8, MeetOther
  <2>2. PICK h \in Range(ep.queue) : Range(ep'.queue) = Range(ep.queue) \ {h}
    BY <2>1
  <2>3. h \in Callers /\ h # t /\ sem_at[h] = (IF role = "recv" THEN "done" ELSE "in")
    BY <1>2, <1>8 DEF EpInv
  <2>4. EpInv'
    <3>1. \A s \in Range(ep'.queue) : s \in Range(ep.queue) /\ sem_at'[s] = sem_at[s]
      BY <1>2, <1>3, <2>2 DEF SemTypeOK
    <3>2. QED
      BY <2>1, <3>1 DEF EpInv
  <2>5. \A s \in Callers : Blocked(s)' <=> Blocked(s) /\ s # h
    BY <2>2 DEF Blocked
  <2>6. CASE role = "recv"
    <3>1. /\ Waiters' = Waiters \ {t} /\ t \in Waiters
          /\ Posters' = Posters \ {h} /\ h \in Posters
      BY <1>3, <2>2, <2>3, <2>5, <2>6 DEF Waiters, Posters, SemTypeOK, Blocked
    <3>2. /\ Cardinality(Waiters') = Cardinality(Waiters) - 1
          /\ Cardinality(Posters') = Cardinality(Posters) - 1
          /\ Cardinality(Waiters) \in Nat /\ Cardinality(Posters) \in Nat
      BY <3>1, CountFacts, SemAssumption, Zenon DEF Waiters, Posters
    <3>3. QED
      BY <1>4, <1>5, <1>7, <2>1, <2>4, <3>2 DEF Balance, SemTypeOK
  <2>7. CASE role = "send"
    <3>1. /\ Waiters' = Waiters \ {h} /\ h \in Waiters
          /\ Posters' = Posters \ {t} /\ t \in Posters
      BY <1>3, <2>2, <2>3, <2>5, <2>7 DEF Waiters, Posters, SemTypeOK, Blocked
    <3>2. /\ Cardinality(Waiters') = Cardinality(Waiters) - 1
          /\ Cardinality(Posters') = Cardinality(Posters) - 1
          /\ Cardinality(Waiters) \in Nat /\ Cardinality(Posters) \in Nat
      BY <3>1, CountFacts, SemAssumption, Zenon DEF Waiters, Posters
    <3>3. QED
      BY <1>4, <1>5, <1>7, <2>1, <2>4, <3>2 DEF Balance, SemTypeOK
  <2>8. QED
    BY <2>6, <2>7
<1>9. CASE ep.role # IF role = "recv" THEN "send" ELSE "recv"
  <2>1. /\ ep' \in EpType
        /\ IsInjective(ep'.queue)
        /\ ep'.queue # <<>>
        /\ ep'.role = role
        /\ ep.role \in {"idle", role}
        /\ Range(ep'.queue) = Range(ep.queue) \cup {t}
    BY <1>1, <1>3, <1>9, MeetNone
  <2>2. ep.role = "idle" => Range(ep.queue) = {}
    BY <1>1, EmptyFacts DEF EpInv, EpType
  <2>3. EpInv'
    BY <1>2, <1>3, <2>1, <2>2 DEF EpInv, SemTypeOK
  <2>4. \A s \in Callers : Blocked(s)' <=> Blocked(s) \/ s = t
    BY <2>1 DEF Blocked
  <2>5. Waiters' = Waiters /\ Posters' = Posters
    BY <1>3, <2>4 DEF Waiters, Posters, SemTypeOK
  <2>6. QED
    BY <1>4, <1>5, <1>7, <2>1, <2>3, <2>5 DEF Balance
<1>10. QED
  BY <1>8, <1>9

-----------------------------------------------------------------------------
(* The theorems. *)

\* The invariant holds in every reachable state.
THEOREM SemInvariant == SemSpec => []SemIInv
<1>1. SemIInv /\ [SemNext]_semVars => SemIInv'
  <2> SUFFICES ASSUME SemIInv, [SemNext]_semVars PROVE SemIInv'
    OBVIOUS
  <2>1. val \in [Callers -> 0..INT_MAX] /\ sem_value \in INT_MIN..INT_MAX
        /\ INT_MIN \in Int /\ INT_MAX \in Nat
    BY SemAssumption DEF SemIInv, SemTypeOK
  <2>2. ASSUME NEW t \in Callers, TryRead(t) PROVE SemIInv'
    <3>1. sem_value \in 0..INT_MAX
      BY <2>1, <2>2 DEF TryRead
    <3>2. QED
      BY <2>1, <2>2, <3>1, QuietInv DEF TryRead, At
  <2>3. ASSUME NEW t \in Callers, TryCas(t) PROVE SemIInv'
    <3>1. /\ sem_at[t] = "try" /\ ~ Blocked(t) /\ ep' = ep
          /\ val' = [val EXCEPT ![t] = 0]
          /\ \/ sem_value = val[t] /\ sem_value' = val[t] - 1 /\ SemGoto(t, "in")
             \/ SemGoto(t, "out") /\ sem_value' = sem_value
      BY <2>3 DEF TryCas, At
    <3>2. CASE sem_value = val[t] /\ sem_value' = val[t] - 1 /\ SemGoto(t, "in")
      BY <3>1, <3>2, TryTakeInv, Zenon
    <3>3. CASE SemGoto(t, "out") /\ sem_value' = sem_value
      <4>1. /\ val' \in [Callers -> 0..INT_MAX]
            /\ \A s \in Callers \ {t} : val'[s] = val[s]
        BY <2>1, <3>1
      <4>2. QED
        BY <3>1, <3>3, <4>1, QuietInv, Zenon
    <3>4. QED
      BY <3>1, <3>2, <3>3
  <2>4. ASSUME NEW t \in Callers, Post(t) \/ PostReturn(t) PROVE SemIInv'
    BY <2>1, <2>4, QuietInv DEF Post, PostReturn, At
  <2>5. ASSUME NEW t \in Callers, WaitRecv(t) \/ PostSend(t) PROVE SemIInv'
    BY <2>5, MeetInv DEF WaitRecv, PostSend, At
  <2>6. CASE UNCHANGED semVars
    BY <2>6 DEF semVars, SemIInv, SemTypeOK, EpInv, TryInv, CountExact, Counted, Balance,
                Waiters, Posters, Blocked
  <2>7. QED
    BY <2>2, <2>3, <2>4, <2>5, <2>6, WaitInv, PostIncrementInv DEF SemNext, SemInCall
<1>2. QED
  BY SemInitInv, <1>1, PTL DEF SemSpec

\* The holders are the counted threads that do not wait.
LEMMA HoldersFacts ==
    ASSUME SemIInv
    PROVE  Cardinality(Holders) = Cardinality(Counted) - Cardinality(Waiters)
<1>1. Waiters \subseteq Counted /\ Counted \in SUBSET Callers
  BY DEF Waiters, Counted
<1>2. \A t \in Callers : sem_at[t] = "post" => ~ Blocked(t)
  <2>1. ep.role \in {"idle", "send", "recv"} /\ ep.queue \in Seq(Callers)
    BY DEF SemIInv, SemTypeOK
  <2>2. ep.role = "idle" => Range(ep.queue) = {}
    BY <2>1, EmptyFacts DEF SemIInv, EpInv
  <2>3. QED
    BY <2>1, <2>2 DEF SemIInv, EpInv, Blocked
<1>3. Holders = Counted \ Waiters
  BY <1>2 DEF Holders, Holds, Counted, Waiters
<1>4. IsFiniteSet(Counted)
  BY <1>1, CountFacts, SemAssumption
<1>5. Cardinality(Counted \ Waiters) = Cardinality(Counted) - Cardinality(Counted \cap Waiters)
  BY <1>4, FS_Difference
<1>6. Counted \cap Waiters = Waiters
  BY <1>1
<1>7. QED
  BY <1>3, <1>5, <1>6

\* Units are neither lost nor made: each is with a holder, with a poster that
\* passes it on, or in the count.
THEOREM SemUnitsKept == SemSpec => []UnitsKept
<1>1. SemIInv => UnitsKept
  <2> SUFFICES ASSUME SemIInv PROVE UnitsKept
    OBVIOUS
  <2>1. Cardinality(Holders) = Cardinality(Counted) - Cardinality(Waiters)
    BY HoldersFacts
  <2>2. /\ Cardinality(Counted) \in Nat /\ Cardinality(Waiters) \in Nat
        /\ Cardinality(Posters) \in Nat
    BY CountFacts, SemAssumption DEF Counted, Waiters, Posters
  <2>3. sem_value \in Int /\ units \in Int
    BY SemAssumption DEF SemIInv, SemTypeOK
  <2>4. Cardinality(Holders) + Cardinality(Posters) + (IF sem_value > 0 THEN sem_value ELSE 0) = units
    BY <2>1, <2>2, <2>3 DEF SemIInv, CountExact, Balance
  <2>5. QED
    BY <2>4 DEF UnitsKept, Posters
<1>2. QED
  BY <1>1, SemInvariant, PTL

\* Never more threads than units are past their wait.
THEOREM SemUnitsBound == SemSpec => []UnitsBound
<1>1. SemIInv /\ UnitsKept => UnitsBound
  <2> SUFFICES ASSUME SemIInv, UnitsKept PROVE UnitsBound
    OBVIOUS
  <2>1. Cardinality(Holders) \in Nat /\ Cardinality(Posters) \in Nat
    BY CountFacts, SemAssumption DEF Holders, Posters
  <2>2. sem_value \in Int /\ units \in Int
    BY SemAssumption DEF SemIInv, SemTypeOK
  <2>3. Cardinality(Holders) + Cardinality(Posters) + (IF sem_value > 0 THEN sem_value ELSE 0) = units
    BY DEF UnitsKept, Posters
  <2>4. QED
    BY <2>1, <2>2, <2>3 DEF UnitsBound
<1>2. QED
  BY <1>1, SemInvariant, SemUnitsKept, PTL

\* The assertion of sync_sem_bare_post, *value < INT_MAX, holds: a thread that
\* posts is counted, so the count is below its initial value.
THEOREM SemAssertHolds == SemSpec => []AssertHolds
<1>1. SemIInv => AssertHolds
  <2> SUFFICES ASSUME SemIInv, NEW t \in Callers, Holds(t) PROVE sem_value < INT_MAX
    BY DEF AssertHolds
  <2>1. sem_value \in Int /\ INT_MAX \in Int
    BY SemAssumption DEF SemIInv, SemTypeOK
  <2>2. sem_at[t] \in {"wait", "in", "post"}
    BY DEF Holds
  <2>3. QED
    BY <2>1, <2>2, ValueFacts DEF SemIInv
<1>2. QED
  BY <1>1, SemInvariant, PTL

-----------------------------------------------------------------------------
(* The condition variable. *)

NtfnType == [active : BOOLEAN, queue : Seq(Threads)]
Waiting == {t \in Threads : InWait(t)}

\* The types of what is not part of the lock.
CvType ==
    /\ notification \in NtfnType
    /\ waiters \in Nat
    /\ broadcasting \in BOOLEAN
    /\ pc \in [Threads -> {"out", "in", "post", "sleep", "relock", "woken", "chain",
                           "release", "released"}]

\* A queued thread is in its seL4_Wait and queued once.
QueueInv ==
    /\ IsInjective(notification.queue)
    /\ \A t \in Range(notification.queue) : pc[t] = "relock"

IInv == CvType /\ QueueInv /\ WaitersExact /\ BroadcastAlive

-----------------------------------------------------------------------------
(* Signals and waits. *)

\* A signal wakes one queued thread or sets the bit, and takes no other
\* thread off the queue.
LEMMA SendFacts ==
    ASSUME NEW n \in NtfnType, IsInjective(n.queue)
    PROVE  /\ SendSignal(n) \in NtfnType
           /\ IsInjective(SendSignal(n).queue)
           /\ Range(SendSignal(n).queue) \subseteq Range(n.queue)
           /\ \/ SendSignal(n).active
              \/ \E t \in Range(n.queue) : t \notin Range(SendSignal(n).queue)
<1>1. n.queue \in Seq(Threads) /\ n.active \in BOOLEAN
  BY DEF NtfnType
<1>2. CASE n.queue = <<>>
  <2>1. SendSignal(n) = [active |-> TRUE, queue |-> n.queue]
    BY <1>1, <1>2, Zenon DEF NtfnType, SendSignal
  <2>2. QED
    BY <1>1, <2>1 DEF NtfnType
<1>3. CASE n.queue # <<>>
  <2>1. SendSignal(n) = [active |-> n.active, queue |-> Tail(n.queue)]
    BY <1>1, <1>3 DEF NtfnType, SendSignal
  <2>2. /\ Tail(n.queue) \in Seq(Threads)
        /\ Range(n.queue) = Range(Tail(n.queue)) \cup {Head(n.queue)}
        /\ IsInjective(Tail(n.queue))
        /\ Head(n.queue) \notin Range(Tail(n.queue))
    BY <1>1, <1>3, TailFacts
  <2>3. QED
    BY <1>1, <2>1, <2>2 DEF NtfnType
<1>4. QED
  BY <1>2, <1>3

\* A wait takes the bit, or queues the thread.
LEMMA ReceiveFacts ==
    ASSUME NEW n \in NtfnType, IsInjective(n.queue),
           NEW t \in Threads, t \notin Range(n.queue)
    PROVE  /\ ReceiveSignal(n, t) \in NtfnType
           /\ IsInjective(ReceiveSignal(n, t).queue)
           /\ Range(ReceiveSignal(n, t).queue) \subseteq Range(n.queue) \cup {t}
           /\ n.active => t \notin Range(ReceiveSignal(n, t).queue)
<1>1. n.queue \in Seq(Threads) /\ n.active \in BOOLEAN
  BY DEF NtfnType
<1>2. CASE n.active
  <2>1. ReceiveSignal(n, t) = [active |-> FALSE, queue |-> n.queue]
    BY <1>1, <1>2, Zenon DEF NtfnType, ReceiveSignal
  <2>2. QED
    BY <1>1, <2>1 DEF NtfnType
<1>3. CASE ~ n.active
  <2>1. ReceiveSignal(n, t) = [active |-> n.active, queue |-> Append(n.queue, t)]
    BY <1>1, <1>3 DEF NtfnType, ReceiveSignal
  <2>2. /\ Append(n.queue, t) \in Seq(Threads)
        /\ Range(Append(n.queue, t)) = Range(n.queue) \cup {t}
        /\ IsInjective(Append(n.queue, t))
    BY <1>1, AppendFacts
  <2>3. QED
    BY <1>1, <1>3, <2>1, <2>2 DEF NtfnType
<1>4. QED
  BY <1>2, <1>3

-----------------------------------------------------------------------------
(* The invariant. *)

\* Initially nobody waits.
LEMMA InitInv == Init => IInv
<1> SUFFICES ASSUME Init PROVE IInv
  OBVIOUS
<1>1. /\ notification \in NtfnType
      /\ notification.queue = <<>> /\ <<>> \in Seq(Threads)
  BY DEF Init, NtfnIdle, NtfnType
<1>2. CvType
  BY <1>1, Zenon DEF Init, CvType
<1>3. QueueInv
  BY <1>1, EmptyFacts, Zenon DEF QueueInv
<1>4. Waiting = {}
  BY DEF Init, Waiting, InWait
<1>5. WaitersExact
  BY <1>4, FS_EmptySet DEF Init, WaitersExact, Waiting
<1>6. BroadcastAlive
  BY DEF Init, BroadcastAlive
<1>7. QED
  BY <1>2, <1>3, <1>5, <1>6 DEF IInv

\* A step on the lock moves its thread within or outside sync_cv_wait, and
\* leaves the condition variable alone.
LEMMA LockStepInv ==
    ASSUME IInv, NEW t \in Threads, UNCHANGED cvVars,
           \/ pc' = pc
           \/ pc[t] = "out" /\ Goto(t, "in")
           \/ pc[t] = "in" /\ Goto(t, "out")
           \/ pc[t] = "post" /\ Goto(t, "sleep")
           \/ pc[t] = "relock" /\ ~ Asleep(t) /\ Goto(t, "woken")
           \/ pc[t] = "release" /\ Goto(t, "released")
    PROVE  IInv'
<1> USE DEF IInv
<1>1. /\ notification' = notification /\ waiters' = waiters
      /\ broadcasting' = broadcasting
  BY DEF cvVars
<1>2. CvType'
  BY <1>1 DEF CvType, Goto
<1>3. QueueInv'
  <2>1. \A s \in Range(notification.queue) : s \in Threads /\ pc'[s] = "relock"
    BY RangeFacts DEF QueueInv, CvType, NtfnType, Goto, Asleep
  <2>2. QED
    BY <1>1, <2>1 DEF QueueInv
<1>4. WaitersExact'
  <2>1. Waiting' = Waiting
    BY DEF Waiting, InWait, Goto, CvType
  <2>2. QED
    BY <1>1, <2>1 DEF WaitersExact, Waiting
<1>5. BroadcastAlive'
  BY <1>1 DEF BroadcastAlive, Asleep, CvType, Goto
<1>6. QED
  BY <1>2, <1>3, <1>4, <1>5

\* A thread starts to wait, which calls a broadcast off.
LEMMA CvWaitInv == ASSUME IInv, NEW t \in Threads, CvWait(t) PROVE IInv'
<1> USE DEF IInv
<1>1. /\ pc[t] = "in" /\ pc' = [pc EXCEPT ![t] = "post"]
      /\ waiters' = waiters + 1 /\ broadcasting' = FALSE
      /\ notification' = notification
  BY DEF CvWait, HoldsAt, Goto
<1>2. CvType'
  <2>1. waiters + 1 \in Nat
    BY DEF CvType
  <2>2. QED
    BY <1>1, <2>1, Zenon DEF CvType
<1>3. QueueInv'
  <2>1. \A s \in Range(notification.queue) : s \in Threads /\ s # t
    BY <1>1, RangeFacts DEF QueueInv, CvType, NtfnType
  <2>2. QED
    BY <1>1, <2>1 DEF QueueInv, CvType
<1>4. WaitersExact'
  <2>1. Waiting' = Waiting \cup {t} /\ t \in Threads \ Waiting
    BY <1>1 DEF Waiting, InWait, CvType
  <2>2. Cardinality(Waiting') = Cardinality(Waiting) + 1
    <3>1. Waiting \in SUBSET Threads /\ IsFiniteSet(Threads)
      BY ThreadsAssumption DEF Waiting
    <3>2. QED
      BY <2>1, <3>1, CountFacts, Zenon
  <2>3. QED
    BY <1>1, <2>2 DEF WaitersExact, Waiting
<1>5. BroadcastAlive'
  BY <1>1 DEF BroadcastAlive
<1>6. QED
  BY <1>2, <1>3, <1>4, <1>5

\* seL4_Wait: a thread that takes the bit carries the broadcast on.
LEMMA CvSleepInv == ASSUME IInv, NEW t \in Threads, CvSleep(t) PROVE IInv'
<1> USE DEF IInv
<1>1. /\ pc[t] = "sleep" /\ pc' = [pc EXCEPT ![t] = "relock"]
      /\ notification' = ReceiveSignal(notification, t)
      /\ waiters' = waiters /\ broadcasting' = broadcasting
  BY DEF CvSleep, Goto
<1>2. /\ notification' \in NtfnType
      /\ IsInjective(notification'.queue)
      /\ Range(notification'.queue) \subseteq Range(notification.queue) \cup {t}
      /\ notification.active => t \notin Range(notification'.queue)
  <2>1. t \notin Range(notification.queue)
    BY <1>1 DEF QueueInv
  <2>2. notification \in NtfnType /\ IsInjective(notification.queue)
    BY DEF CvType, QueueInv
  <2>3. QED
    BY <1>1, <2>1, <2>2, ReceiveFacts
<1>3. CvType'
  BY <1>1, <1>2 DEF CvType
<1>4. QueueInv'
  BY <1>1, <1>2 DEF QueueInv, CvType
<1>5. WaitersExact'
  <2>1. Waiting' = Waiting
    BY <1>1 DEF Waiting, InWait, CvType
  <2>2. QED
    BY <1>1, <2>1 DEF WaitersExact, Waiting
<1>6. BroadcastAlive'
  <2>1. ASSUME NEW s \in Threads, pc[s] = "relock" /\ ~ Asleep(s)
        PROVE  pc'[s] = "relock" /\ ~ Asleep(s)'
    BY <1>1, <1>2, <2>1 DEF Asleep, CvType
  <2>2. ASSUME notification.active PROVE pc'[t] = "relock" /\ ~ Asleep(t)'
    BY <1>1, <1>2, <2>2 DEF Asleep, CvType
  <2>3. QED
    BY <1>1, <2>1, <2>2 DEF BroadcastAlive, CvType
<1>7. QED
  BY <1>3, <1>4, <1>5, <1>6

\* A woken thread leaves, and passes the broadcast on unless it was the last.
LEMMA CvWokenInv == ASSUME IInv, NEW t \in Threads, CvWoken(t) PROVE IInv'
<1> USE DEF IInv
<1>1. /\ pc[t] = "woken"
      /\ pc' = [pc EXCEPT ![t] = IF broadcasting /\ waiters - 1 > 0 THEN "chain" ELSE "in"]
      /\ waiters' = waiters - 1
      /\ broadcasting' = (broadcasting /\ waiters - 1 > 0)
      /\ notification' = notification
  BY DEF CvWoken, Wake, HoldsAt, Goto
<1>2. Waiting' = Waiting \ {t} /\ t \in Waiting /\ Waiting \in SUBSET Threads
  BY <1>1 DEF Waiting, InWait, CvType
<1>3. Cardinality(Waiting') = Cardinality(Waiting) - 1 /\ Cardinality(Waiting) > 0
  BY <1>2, CountFacts, ThreadsAssumption
<1>4. waiters = Cardinality(Waiting)
  BY DEF WaitersExact, Waiting
<1>5. WaitersExact'
  BY <1>1, <1>3, <1>4 DEF WaitersExact, Waiting
<1>6. waiters' \in Nat
  BY <1>1, <1>3, <1>4 DEF CvType
<1>7. CvType'
  BY <1>1, <1>6 DEF CvType
<1>8. QueueInv'
  <2>1. \A s \in Range(notification.queue) : s \in Threads /\ s # t
    BY <1>1, RangeFacts DEF QueueInv, CvType, NtfnType
  <2>2. QED
    BY <1>1, <2>1 DEF QueueInv, CvType
<1>9. BroadcastAlive'
  BY <1>1, Zenon DEF BroadcastAlive, CvType
<1>10. QED
  BY <1>5, <1>7, <1>8, <1>9

\* A thread announces a broadcast that it signals after releasing the lock.
LEMMA CvBroadcastReleaseInv ==
    ASSUME IInv, NEW t \in Threads, CvBroadcastRelease(t) PROVE IInv'
<1> USE DEF IInv
<1>1. /\ pc[t] = "in" /\ pc' = [pc EXCEPT ![t] = "release"]
      /\ waiters' = waiters /\ broadcasting' = TRUE
      /\ notification' = notification
  BY DEF CvBroadcastRelease, HoldsAt, Goto
<1>2. CvType'
  BY <1>1 DEF CvType
<1>3. QueueInv'
  <2>1. \A s \in Range(notification.queue) : s \in Threads /\ s # t
    BY <1>1, RangeFacts DEF QueueInv, CvType, NtfnType
  <2>2. QED
    BY <1>1, <2>1 DEF QueueInv, CvType
<1>4. WaitersExact'
  <2>1. Waiting' = Waiting
    BY <1>1 DEF Waiting, InWait, CvType
  <2>2. QED
    BY <1>1, <2>1 DEF WaitersExact, Waiting
<1>5. BroadcastAlive'
  BY <1>1 DEF BroadcastAlive, CvType
<1>6. QED
  BY <1>2, <1>3, <1>4, <1>5

\* The calls that signal: a sleeper wakes or the bit is set, so a broadcast
\* is on its way.
LEMMA SignalInv ==
    ASSUME IInv, NEW t \in Threads,
           notification' = SendSignal(notification), waiters' = waiters,
           broadcasting' \in BOOLEAN,
           \/ pc' = pc
           \/ pc[t] = "chain" /\ Goto(t, "in")
           \/ pc[t] = "released" /\ Goto(t, "out")
    PROVE  IInv'
<1> USE DEF IInv
<1>1. /\ notification' \in NtfnType
      /\ IsInjective(notification'.queue)
      /\ Range(notification'.queue) \subseteq Range(notification.queue)
      /\ \/ notification'.active
         \/ \E s \in Range(notification.queue) : s \notin Range(notification'.queue)
  <2>1. notification \in NtfnType /\ IsInjective(notification.queue)
    BY DEF CvType, QueueInv
  <2>2. QED
    BY <2>1, SendFacts
<1>2. CvType'
  BY <1>1 DEF CvType, Goto
<1>3. \A s \in Range(notification.queue) : s \in Threads /\ pc'[s] = "relock"
  BY RangeFacts DEF QueueInv, CvType, NtfnType, Goto
<1>4. QueueInv'
  BY <1>1, <1>3 DEF QueueInv
<1>5. WaitersExact'
  <2>1. Waiting' = Waiting
    BY DEF Waiting, InWait, Goto, CvType
  <2>2. QED
    BY <2>1 DEF WaitersExact, Waiting
<1>6. BroadcastAlive'
  BY <1>1, <1>3 DEF BroadcastAlive, Asleep
<1>7. QED
  BY <1>2, <1>4, <1>5, <1>6

\* The invariant holds in every reachable state.
THEOREM CvInvariant == Spec => []IInv
<1>1. IInv /\ [Next]_vars => IInv'
  <2> SUFFICES ASSUME IInv, [Next]_vars PROVE IInv'
    OBVIOUS
  <2>1. ASSUME NEW t \in Threads,
               Enter(t) \/ Leave(t) \/ LockWait(t) \/ LockSignal(t)
                 \/ CvPost(t) \/ CvRelock(t) \/ CvRelease(t)
        PROVE  IInv'
    BY <2>1, LockStepInv
       DEF Enter, Leave, LockWait, LockSignal, CvPost, CvRelock, CvRelease
  <2>2. ASSUME NEW t \in Threads,
               CvChain(t) \/ CvSignal(t) \/ CvBroadcast(t) \/ CvReleased(t)
        PROVE  IInv'
    <3>1. broadcasting \in BOOLEAN
      BY DEF IInv, CvType
    <3>2. QED
      BY <2>2, <3>1, SignalInv, Zenon DEF CvChain, CvSignal, CvBroadcast, CvReleased
  <2>3. CASE UNCHANGED vars
    BY <2>3 DEF vars, cvVars, IInv, CvType, QueueInv, WaitersExact, InWait,
                BroadcastAlive, Asleep
  <2>4. QED
    BY <2>1, <2>2, <2>3, CvWaitInv, CvSleepInv, CvWokenInv, CvBroadcastReleaseInv
       DEF Next, LetGo, InCall
<1>2. QED
  BY InitInv, <1>1, PTL DEF Spec

\* waiters is the number of threads inside sync_cv_wait, whatever their
\* number and wherever they are between their two holds of the lock.
THEOREM CvWaitersExact == Spec => []WaitersExact
<1>1. IInv => WaitersExact
  BY DEF IInv
<1>2. QED
  BY <1>1, CvInvariant, PTL

\* A broadcast is never lost on its way from waiter to waiter.
THEOREM CvBroadcastAlive == Spec => []BroadcastAlive
<1>1. IInv => BroadcastAlive
  BY DEF IInv
<1>2. QED
  BY <1>1, CvInvariant, PTL

-----------------------------------------------------------------------------
(* The lock. *)

\* The proofs about the mutex.
M == INSTANCE BinSemProofs

\* The two instances of BinSem are the same specification.
LEMMA SameLock ==
    /\ Lock!Init => M!Init
    /\ [Lock!Next]_lockVars => [M!Next]_M!vars
    /\ M!MutualExclusion => Lock!MutualExclusion
    /\ M!TypeOK => Lock!TypeOK
<1>1. Lock!Init => M!Init
  BY DEF Lock!Init, M!Init, NtfnIdle, M!NtfnIdle, Lock!NtfnIdle
<1>2. [Lock!Next]_lockVars => [M!Next]_M!vars
  BY DEF Lock!Next, M!Next, lockVars, M!vars, Lock!Step, M!Step,
         Lock!Decrement, M!Decrement, Lock!Wait, M!Wait, Lock!Increment,
         M!Increment, Lock!Signal, M!Signal, Lock!Goto, M!Goto, Lock!Asleep,
         M!Asleep, Lock!SendSignal, M!SendSignal, Lock!ReceiveSignal,
         M!ReceiveSignal, Lock!Range, M!Range
<1>3. M!MutualExclusion => Lock!MutualExclusion
  BY DEF M!MutualExclusion, Lock!MutualExclusion, M!Holds, Lock!Holds,
         M!Asleep, Lock!Asleep, M!Range, Lock!Range
<1>4. M!TypeOK => Lock!TypeOK
  BY DEF M!TypeOK, Lock!TypeOK
<1>5. QED
  BY SMTT(30), <1>1, <1>2, <1>3, <1>4

\* Every step is a step of the mutex or leaves it alone.
LEMMA LockStep == [Next]_vars => [Lock!Next]_lockVars
<1> SUFFICES ASSUME [Next]_vars PROVE [Lock!Next]_lockVars
  OBVIOUS
<1>1. CASE UNCHANGED vars
  BY <1>1 DEF vars
<1>2. ASSUME NEW t \in Threads,
             Enter(t) \/ LetGo(t) \/ CvSignal(t) \/ CvBroadcast(t) \/ InCall(t)
      PROVE  Lock!Step(t) \/ UNCHANGED lockVars
  BY <1>2 DEF Enter, LetGo, Leave, CvWait, CvBroadcastRelease, CvSignal,
              CvBroadcast, InCall, LockWait, LockSignal, CvPost, CvSleep, CvRelock,
              CvWoken, Wake, CvChain, CvRelease, CvReleased, Lock!Step
<1>3. QED
  BY <1>1, <1>2 DEF Next, Lock!Next

\* The lock excludes: no two threads are between sync_bin_sem_wait and
\* sync_bin_sem_post, so the accesses to waiters and broadcasting that a step
\* of ConditionVar takes together are not interleaved with another thread's.
THEOREM CvLockExcludes == Spec => []Lock!MutualExclusion
<1>1. M!IsFiniteSet(Threads)
  BY ThreadsAssumption DEF IsFiniteSet, M!IsFiniteSet
<1>2. M!Spec => []M!MutualExclusion
  BY <1>1, M!MutexExcludes
<1>3. Init => M!Init
  BY SameLock DEF Init
<1>4. [Next]_vars => [M!Next]_M!vars
  BY SMTT(30), SameLock, LockStep
<1>5. M!MutualExclusion => Lock!MutualExclusion
  BY SameLock
<1>6. QED
  BY <1>2, <1>3, <1>4, <1>5, PTL DEF Spec, M!Spec

\* Types are kept; in particular waiters never exceeds the number of threads.
THEOREM CvTypeCorrect == Spec => []TypeOK
<1>1. M!IsFiniteSet(Threads)
  BY ThreadsAssumption DEF IsFiniteSet, M!IsFiniteSet
<1>2. M!Spec => []M!IInv
  BY SMTT(30), <1>1, M!MutexInvariant
<1>3. Init => M!Init
  BY SameLock DEF Init
<1>4. [Next]_vars => [M!Next]_M!vars
  BY SMTT(30), SameLock, LockStep
<1>5. M!IInv /\ IInv => TypeOK
  <2> SUFFICES ASSUME M!IInv, IInv PROVE TypeOK
    OBVIOUS
  <2>1. Lock!TypeOK
    BY SameLock DEF M!IInv
  <2>2. Cardinality(Waiting) \in Nat /\ Cardinality(Waiting) <= Cardinality(Threads)
    BY CountFacts, ThreadsAssumption DEF Waiting
  <2>3. waiters = Cardinality(Waiting)
    BY DEF IInv, WaitersExact, Waiting
  <2>4. Cardinality(Threads) \in Nat
    BY ThreadsAssumption, FS_CardinalityType
  <2>5. waiters \in 0..Cardinality(Threads)
    BY <2>2, <2>3, <2>4
  <2>6. QED
    BY <2>1, <2>5, Zenon DEF TypeOK, IInv, CvType, NtfnType
<1>6. QED
  BY <1>2, <1>3, <1>4, <1>5, CvInvariant, PTL DEF Spec, M!Spec
=============================================================================
