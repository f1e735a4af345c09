----------------------------- MODULE Sel4Steps ------------------------------
(***************************************************************************)
(* The inductive invariant of the kernel-thread server and how each kind   *)
(* of step moves the lock, the notifications, the threads and the reply    *)
(* capabilities, for every number of clients, threads, rounds and every    *)
(* buffer_limit.                                                           *)
(***************************************************************************)
EXTENDS Sel4Server, QueueLemmas

\* The part of TypeOK that the lock and the buffer depend on.
LockType ==
    /\ pc \in [Threads -> Places]
    /\ label \in [Threads -> Labels \cup {"none"}]
    /\ DOMAIN ntfn = Prims
    /\ req \in [Clients -> Labels \cup {"none"}]

\* The rest of the types.  The bounds of i, client_new and id are not needed.
RestType ==
    /\ i \in [Threads -> Int]
    /\ caller \in [Threads -> Clients \cup {NoClient}]
    /\ saved \in [Threads -> Clients \cup {NoClient}]
    /\ reply_eps \in [ClientIds -> Clients \cup {NoClient}]
    /\ client_new \in Int
    /\ ep \in Seq(Clients)
    /\ id \in [Clients -> Int]

\* Where a thread sleeps, by what it sleeps on.
NtfnInv ==
    /\ ntfn \in [Prims -> [active : BOOLEAN, queue : Seq(Threads)]]
    /\ \A p \in Prims : \A t \in Range(ntfn[p].queue) :
         pc[t] = IF p = "lock_global" THEN "test" ELSE "lock"

\* The reply to a blocked client is in one place at most: in the queue, in a
\* caller slot, in a thread's own slot or in a slot of reply_eps.
EpCap ==
    /\ IsInjective(ep)
    /\ \A c \in Range(ep) : req[c] # "none"

CallerCap(t) ==
    caller[t] \in Clients =>
      /\ req[caller[t]] # "none" /\ caller[t] \notin Range(ep)
      /\ \A s \in Threads : caller[s] = caller[t] => s = t
      /\ \A s \in Threads : saved[s] # caller[t]
      /\ \A k \in ClientIds : reply_eps[k] # caller[t]

SavedCap(t) ==
    saved[t] \in Clients =>
      /\ req[saved[t]] # "none" /\ saved[t] \notin Range(ep)
      /\ \A s \in Threads : saved[s] = saved[t] => s = t
      /\ \A k \in ClientIds : reply_eps[k] # saved[t]

EpsCap(k) ==
    reply_eps[k] \in Clients =>
      /\ req[reply_eps[k]] \in {"INIT", "TMNT"} /\ reply_eps[k] \notin Range(ep)
      /\ \A j \in ClientIds : reply_eps[j] = reply_eps[k] => j = k

CapInv ==
    /\ EpCap
    /\ \A t \in Threads : CallerCap(t) /\ SavedCap(t)
    /\ \A k \in ClientIds : EpsCap(k)

Handling == {"save", "lock", "lock_wait", "test", "unlock", "unlock_signal",
             "sleep", "update", "signal", "done", "done_signal", "reply"}
Busy == Handling \ {"save"}

\* The client a thread works for.
ClientOf(t) == IF SEL4_GREEN /\ pc[t] # "save" THEN saved[t] ELSE caller[t]

\* A thread in the handler of a request holds the reply to a client that is
\* blocked in that request, and in the slot its build replies from.
Work(t) ==
    /\ pc[t] = "save" => SEL4_GREEN
    /\ saved[t] \in Clients => SEL4_GREEN /\ pc[t] \in Busy
    /\ SEL4_GREEN /\ pc[t] \in Busy => caller[t] = NoClient
    /\ pc[t] \in Handling =>
         /\ label[t] \in Requests
         /\ ClientOf(t) \in Clients
         /\ req[ClientOf(t)] = label[t]
    /\ caller[t] \in Clients /\ pc[t] \notin Handling =>
         req[caller[t]] \in {"INIT", "TMNT"}
    /\ pc[t] = "multicast" => i[t] \in ClientIds

WorkInv == \A t \in Threads : Work(t)

\* A blocked request is queued or worked on.
KeptInv ==
    \A c \in Clients : req[c] \in Requests =>
      c \in Range(ep) \/ \E t \in Threads : pc[t] \in Handling /\ ClientOf(t) = c

IInv == LockType /\ RestType /\ NtfnInv /\ CapInv /\ WorkInv /\ KeptInv

\* Steps that neither move a thread in the calls on lock_global nor touch
\* the semaphore.
LEMMA OutsideLock ==
    ASSUME LockAt' = LockAt, value' = value,
           ntfn'["lock_global"] = ntfn["lock_global"]
    PROVE  UNCHANGED Mutex!vars
  BY Zenon DEF Mutex!vars

\* Moving one thread moves it in LockAt.
LEMMA MoveFacts ==
    ASSUME LockType, NEW t \in Threads, NEW where \in Places, Goto(t, where)
    PROVE  /\ pc' \in [Threads -> Places]
           /\ pc' = [pc EXCEPT ![t] = where]
           /\ where \in HoldsLock => LockAt' = [LockAt EXCEPT ![t] = "in"]
           /\ where = "lock_wait" => LockAt' = [LockAt EXCEPT ![t] = "wait"]
           /\ where \in {"unlock_signal", "done_signal"} =>
                LockAt' = [LockAt EXCEPT ![t] = "post"]
           /\ where \notin HoldsLock \cup {"lock_wait", "unlock_signal", "done_signal"} =>
                LockAt' = [LockAt EXCEPT ![t] = "out"]
  BY Zenon DEF LockType, Goto, LockAt, Places, HoldsLock

\* sync_mutex_lock up to seL4_Wait is a decrement of BinSem.
LEMMA DecrementStep ==
    ASSUME LockType, NEW t \in Threads,
           MutexDecrement(t, "lock", "lock_wait", "test")
    PROVE  Mutex!Decrement(t) /\ LockType'
<1>1. /\ "lock_wait" \in Places /\ "test" \in Places /\ "test" \in HoldsLock
  BY Zenon DEF Places, HoldsLock
<1>2. LockAt[t] = "out"
  BY Zenon DEF MutexDecrement, At, LockAt, HoldsLock
<1>3. LockAt' = [LockAt EXCEPT ![t] = IF value <= 0 THEN "wait" ELSE "in"]
  BY <1>1, MoveFacts, Zenon DEF MutexDecrement
<1>4. LockType'
  BY <1>1, MoveFacts, Zenon DEF MutexDecrement, LockType, localVars, clientVars
<1>5. QED
  BY <1>2, <1>3, <1>4, Zenon DEF Mutex!Decrement, Mutex!Goto, MutexDecrement

\* sync_mutex_unlock up to seL4_Signal, in the loop and at the end of a
\* handler, is an increment of BinSem.
LEMMA IncrementStep ==
    ASSUME LockType, NEW t \in Threads,
           \/ MutexIncrement(t, "unlock", "unlock_signal", "sleep")
           \/ MutexIncrement(t, "done", "done_signal", "reply")
    PROVE  Mutex!Increment(t) /\ LockType'
<1>1. /\ {"unlock_signal", "sleep", "done_signal", "reply"} \subseteq Places
      /\ {"sleep", "reply"} \cap HoldsLock = {}
      /\ {"unlock", "done"} \subseteq HoldsLock
  BY Zenon DEF Places, HoldsLock
<1>2. LockAt[t] = "in"
  BY <1>1, Zenon DEF MutexIncrement, At, LockAt
<1>3. ~ Mutex!Asleep(t)
  BY Zenon DEF MutexIncrement, At, Asleep, Mutex!Asleep, Prims, Range, Mutex!Range
<1>4. LockAt' = [LockAt EXCEPT ![t] = IF value + 1 <= 0 THEN "post" ELSE "out"]
  BY <1>1, MoveFacts DEF MutexIncrement
<1>5. LockType'
  BY <1>1, MoveFacts, Zenon DEF MutexIncrement, LockType, localVars, clientVars
<1>6. QED
  BY <1>2, <1>3, <1>4, <1>5, Zenon DEF Mutex!Increment, Mutex!Goto, MutexIncrement

\* seL4_Wait on lock_global is the wait of BinSem.
LEMMA WaitStep ==
    ASSUME LockType, NEW t \in Threads, Wait(t, "lock_wait", "lock_global", "test")
    PROVE  Mutex!Wait(t) /\ LockType'
<1>1. "test" \in Places /\ "test" \in HoldsLock /\ "lock_global" \in Prims
  BY Zenon DEF Places, HoldsLock, Prims
<1>2. LockAt[t] = "wait"
  BY Zenon DEF Wait, At, LockAt, HoldsLock
<1>3. LockAt' = [LockAt EXCEPT ![t] = "in"]
  BY <1>1, MoveFacts, Zenon DEF Wait
<1>4. LockType'
  BY <1>1, MoveFacts, Zenon DEF Wait, LockType, localVars, clientVars
<1>5. ntfn'["lock_global"] = Mutex!ReceiveSignal(ntfn["lock_global"], t)
  BY <1>1, Zenon DEF Wait, LockType, ReceiveSignal, Mutex!ReceiveSignal
<1>6. QED
  BY <1>2, <1>3, <1>4, <1>5, Zenon DEF Mutex!Wait, Mutex!Goto, Wait

\* seL4_Signal on lock_global is the signal of BinSem.
LEMMA SignalStep ==
    ASSUME LockType, NEW t \in Threads,
           \/ Signal(t, "unlock_signal", "lock_global", "sleep")
           \/ Signal(t, "done_signal", "lock_global", "reply")
    PROVE  Mutex!Signal(t) /\ LockType'
<1>1. /\ {"sleep", "reply"} \subseteq Places
      /\ {"sleep", "reply"} \cap HoldsLock = {}
      /\ {"unlock_signal", "done_signal"} \cap HoldsLock = {}
      /\ "lock_global" \in Prims
  BY Zenon DEF Places, HoldsLock, Prims
<1>2. LockAt[t] = "post"
  BY <1>1, Zenon DEF Signal, At, LockAt
<1>3. LockAt' = [LockAt EXCEPT ![t] = "out"]
  BY <1>1, MoveFacts, Zenon DEF Signal
<1>4. LockType'
  BY <1>1, MoveFacts, Zenon DEF Signal, LockType, localVars, clientVars
<1>5. ntfn'["lock_global"] = Mutex!SendSignal(ntfn["lock_global"])
  BY Zenon, <1>1 DEF Signal, LockType, SendSignal, Mutex!SendSignal
<1>6. QED
  BY <1>2, <1>3, <1>4, <1>5, Zenon DEF Mutex!Signal, Mutex!Goto, Signal

\* A step that leaves the semaphore alone, and thread t inside or outside
\* the critical section.
LEMMA OtherStep ==
    ASSUME LockType, NEW t \in Threads, NEW where \in Places, Goto(t, where),
           \/ pc[t] \in HoldsLock /\ where \in HoldsLock
           \/ pc[t] \notin HoldsLock \cup {"lock_wait", "unlock_signal", "done_signal"}
              /\ where \notin HoldsLock \cup {"lock_wait", "unlock_signal", "done_signal"}
    PROVE  LockAt' = LockAt /\ pc' \in [Threads -> Places]
<1>1. pc' \in [Threads -> Places] /\ pc' = [pc EXCEPT ![t] = where]
  BY MoveFacts, Zenon
<1>2. ASSUME NEW u \in Threads PROVE LockAt'[u] = LockAt[u]
  <2>1. CASE u = t
    <3>1. pc'[t] = where
      BY <1>1, Zenon DEF LockType
    <3>2. CASE pc[t] \in HoldsLock /\ where \in HoldsLock
      <4>1. LockAt[t] = "in"
        BY <3>2, Zenon DEF LockAt, HoldsLock
      <4>2. LockAt'[t] = "in"
        BY <3>1, <3>2, Zenon DEF LockAt, HoldsLock
      <4>3. QED
        BY <2>1, <4>1, <4>2, Zenon
    <3>3. CASE /\ pc[t] \notin HoldsLock \cup {"lock_wait", "unlock_signal", "done_signal"}
               /\ where \notin HoldsLock \cup {"lock_wait", "unlock_signal", "done_signal"}
      <4>1. LockAt[t] = "out"
        BY <3>3, Zenon DEF LockAt
      <4>2. LockAt'[t] = "out"
        BY <3>1, <3>3, Zenon DEF LockAt
      <4>3. QED
        BY <2>1, <4>1, <4>2, Zenon
    <3>4. QED
      BY <3>2, <3>3, Zenon
  <2>2. CASE u # t
    <3>1. pc'[u] = pc[u]
      BY <1>1, <2>2, Zenon DEF LockType
    <3>2. QED
      BY <3>1 DEF LockAt
  <2>3. QED
    BY <2>1, <2>2, Zenon
<1>3. LockAt = [u \in Threads |-> LockAt[u]] /\ LockAt' = [u \in Threads |-> LockAt'[u]]
  BY DEF LockAt
<1>4. QED
  BY Zenon, <1>1, <1>2, <1>3

\* The other notifications are not lock_global.
LEMMA ListFacts ==
    ASSUME LockType, NEW t \in Threads
    PROVE  /\ OwnList(t) \in Prims \ {"lock_global"}
           /\ OtherList(t) \in Prims \ {"lock_global"}
  BY Zenon DEF OwnList, OtherList, Prims

\* The label of a call.
LEMMA NextLabelType ==
    ASSUME RestType, NEW c \in Clients
    PROVE  NextLabel(c) \in Labels
<1>1. id[c] \in Int /\ id[c] % 2 \in {0, 1}
  BY DEF RestType
<1>2. QED
  BY <1>1, Zenon DEF NextLabel, Labels

\* The message Recv takes, and the handler it leads to.
LEMMA EpFacts ==
    ASSUME LockType, RestType, CapInv, ep # <<>>
    PROVE  /\ Head(ep) \in Clients
           /\ Tail(ep) \in Seq(Clients)
           /\ Range(ep) = Range(Tail(ep)) \cup {Head(ep)}
           /\ IsInjective(Tail(ep)) /\ Head(ep) \notin Range(Tail(ep))
           /\ req[Head(ep)] \in Labels
           /\ FirstStep(req[Head(ep)]) \in
                {"initial_client", "terminate", "save", "lock"}
<1>1. /\ Head(ep) \in Clients
      /\ Tail(ep) \in Seq(Clients)
      /\ Range(ep) = Range(Tail(ep)) \cup {Head(ep)}
      /\ IsInjective(Tail(ep)) /\ Head(ep) \notin Range(Tail(ep))
  BY TailFacts, Zenon DEF RestType, CapInv, EpCap, CallerCap, SavedCap, EpsCap
<1>2. req[Head(ep)] \in Labels
  BY <1>1, Zenon DEF LockType, CapInv, EpCap, CallerCap, SavedCap, EpsCap
<1>3. QED
  BY <1>1, <1>2, Zenon DEF FirstStep, Labels

\* Every step is a step of the mutex or leaves it alone.
LEMMA LockStep ==
    ASSUME LockType, RestType, CapInv, [Next]_vars
    PROVE  LockType' /\ [Mutex!Next]_Mutex!vars
<1> DEFINE Apart == HoldsLock \cup {"lock_wait", "unlock_signal", "done_signal"}
<1>1. CASE UNCHANGED vars
  <2>1. LockAt' = LockAt
    BY <1>1 DEF vars, LockAt
  <2>2. QED
    BY <1>1, <2>1, OutsideLock, Zenon DEF vars, LockType, localVars, bufferVars, clientVars
<1>2. ASSUME NEW c \in Clients, Call(c)
      PROVE  LockType' /\ [Mutex!Next]_Mutex!vars
  <2>1. LockAt' = LockAt
    BY <1>2 DEF Call, LockAt
  <2>2. LockType'
    BY <1>2, NextLabelType, Zenon DEF Call, LockType, localVars, bufferVars
  <2>3. QED
    BY <1>2, <2>1, <2>2, OutsideLock, Zenon DEF Call, bufferVars
<1>3. ASSUME NEW t \in Threads, Server(t)
      PROVE  LockType' /\ [Mutex!Next]_Mutex!vars
  <2>1. ASSUME NEW where \in Places, Goto(t, where),
               \/ pc[t] \in HoldsLock /\ where \in HoldsLock
               \/ pc[t] \notin Apart /\ where \notin Apart,
               value' = value, ntfn'["lock_global"] = ntfn["lock_global"],
               DOMAIN ntfn' = Prims, label' \in [Threads -> Labels \cup {"none"}],
               req' \in [Clients -> Labels \cup {"none"}]
        PROVE  LockType' /\ [Mutex!Next]_Mutex!vars
    <3>1. LockAt' = LockAt /\ pc' \in [Threads -> Places]
      BY <2>1, OtherStep, Zenon
    <3>2. QED
      BY <2>1, <3>1, OutsideLock, Zenon DEF LockType
  <2>2. CASE Recv(t)
    <3>1. /\ FirstStep(req[Head(ep)]) \in Places \ Apart
          /\ req[Head(ep)] \in Labels
      BY <2>2, EpFacts, Zenon DEF Recv, Places, HoldsLock
    <3>2. pc[t] \notin Apart
      BY <2>2, Zenon DEF Recv, At, HoldsLock
    <3>3. QED
      BY <2>1, <2>2, <3>1, <3>2, Zenon DEF Recv, LockType, bufferVars
  <2>3. CASE Reply(t)
    <3>1. pc[t] \notin Apart /\ "recv" \in Places \ Apart
      BY <2>3, Zenon DEF Reply, At, Places, HoldsLock
    <3>2. /\ req' \in [Clients -> Labels \cup {"none"}]
          /\ label' \in [Threads -> Labels \cup {"none"}]
      BY <2>3, Zenon DEF Reply, Return, LockType
    <3>3. QED
      BY <2>1, <2>3, <3>1, <3>2, Zenon DEF Reply, Return, LockType, bufferVars
  <2>4. CASE InitialClientLoad(t)
    <3>1. pc[t] \notin Apart /\ "initial_client_store" \in Places \ Apart
      BY <2>4, Zenon DEF InitialClientLoad, At, Places, HoldsLock
    <3>2. QED
      BY <2>1, <2>4, <3>1, Zenon DEF InitialClientLoad, LockType, bufferVars, clientVars
  <2>5. CASE InitialClientStore(t)
    <3>1. pc[t] \notin Apart /\ "init_save" \in Places \ Apart
      BY <2>5, Zenon DEF InitialClientStore, At, Places, HoldsLock
    <3>2. QED
      BY <2>1, <2>5, <3>1, Zenon
         DEF InitialClientStore, LockType, localVars, bufferVars, clientVars
  <2>6. CASE InitSave(t)
    <3>1. pc[t] \notin Apart /\ "client_barrier" \in Places \ Apart
      BY <2>6, Zenon DEF InitSave, At, Places, HoldsLock
    <3>2. QED
      BY <2>1, <2>6, <3>1, Zenon DEF InitSave, LockType, bufferVars, clientVars
  <2>7. CASE ClientBarrier(t)
    <3>1. pc[t] \notin Apart /\ {"recv", "multicast"} \subseteq Places \ Apart
      BY <2>7, Zenon DEF ClientBarrier, At, Places, HoldsLock
    <3>2. label' \in [Threads -> Labels \cup {"none"}]
      BY <2>7, Zenon DEF ClientBarrier, Return, LockType
    <3>3. QED
      BY <2>1, <2>7, <3>1, <3>2, Zenon
         DEF ClientBarrier, Return, LockType, bufferVars, clientVars
  <2>8. CASE Multicast(t)
    <3>1. /\ req' \in [Clients -> Labels \cup {"none"}]
          /\ label' \in [Threads -> Labels \cup {"none"}]
      BY <2>8, Zenon DEF Multicast, SendAnswer, Return, LockType
    <3>2. CASE i[t] + 1 < client_num
      <4>1. pc' = pc /\ LockAt' = LockAt
        BY <2>8, <3>2 DEF Multicast, SendAnswer, LockAt
      <4>2. QED
        BY <2>8, <3>1, <4>1, OutsideLock, Zenon
           DEF Multicast, SendAnswer, LockType, bufferVars
    <3>3. CASE ~ (i[t] + 1 < client_num)
      <4>1. pc[t] \notin Apart /\ "recv" \in Places \ Apart
        BY <2>8, Zenon DEF Multicast, SendAnswer, At, Places, HoldsLock
      <4>2. QED
        BY <2>1, <2>8, <3>1, <3>3, <4>1, Zenon
           DEF Multicast, SendAnswer, Return, LockType, bufferVars
    <3>4. QED
      BY <3>2, <3>3, Zenon
  <2>9. CASE Save(t)
    <3>1. pc[t] \notin Apart /\ "lock" \in Places \ Apart
      BY <2>9, Zenon DEF Save, At, Places, HoldsLock
    <3>2. QED
      BY <2>1, <2>9, <3>1, Zenon DEF Save, LockType, bufferVars, clientVars
  <2>10. CASE Test(t)
    <3>1. pc[t] \in HoldsLock /\ {"unlock", "update"} \subseteq Places \cap HoldsLock
      BY <2>10, Zenon DEF Test, At, Places, HoldsLock
    <3>2. QED
      BY <2>1, <2>10, <3>1, Zenon DEF Test, LockType, localVars, bufferVars, clientVars
  <2>11. CASE LoopSleep(t)
    <3>1. pc[t] \notin Apart /\ "lock" \in Places \ Apart
      BY <2>11, Zenon DEF LoopSleep, Wait, At, Places, HoldsLock
    <3>2. DOMAIN ntfn' = Prims /\ ntfn'["lock_global"] = ntfn["lock_global"]
      BY <2>11, ListFacts DEF LoopSleep, Wait, LockType
    <3>3. QED
      BY <2>1, <2>11, <3>1, <3>2, Zenon
         DEF LoopSleep, Wait, LockType, localVars, clientVars
  <2>12. CASE Update(t)
    <3>1. pc[t] \in HoldsLock /\ "signal" \in Places \cap HoldsLock
      BY <2>12, Zenon DEF Update, At, Places, HoldsLock
    <3>2. QED
      BY <2>1, <2>12, <3>1, Zenon DEF Update, LockType, localVars, clientVars
  <2>13. CASE SignalOther(t)
    <3>1. pc[t] \in HoldsLock /\ "done" \in Places \cap HoldsLock
      BY <2>13, Zenon DEF SignalOther, Signal, At, Places, HoldsLock
    <3>2. DOMAIN ntfn' = Prims /\ ntfn'["lock_global"] = ntfn["lock_global"]
      BY <2>13, ListFacts DEF SignalOther, Signal, LockType
    <3>3. QED
      BY <2>1, <2>13, <3>1, <3>2, Zenon
         DEF SignalOther, Signal, LockType, localVars, clientVars
  <2>14. CASE HandleTmnt(t)
    <3>1. pc[t] \notin Apart /\ {"recv", "terminate_store"} \subseteq Places \ Apart
      BY <2>14, Zenon DEF HandleTmnt, TerminateLoad, TerminateStore, At, Places, HoldsLock
    <3>2. Goto(t, "recv") \/ Goto(t, "terminate_store")
      BY <2>14, Zenon DEF HandleTmnt, TerminateLoad, TerminateStore, Return
    <3>3. label' \in [Threads -> Labels \cup {"none"}]
      BY <2>14, Zenon
         DEF HandleTmnt, TerminateLoad, TerminateStore, Return, LockType, localVars
    <3>4. UNCHANGED <<bufferVars, clientVars>>
      BY <2>14, Zenon DEF HandleTmnt, TerminateLoad, TerminateStore
    <3>5. QED
      BY <2>1, <3>1, <3>2, <3>3, <3>4, Zenon DEF LockType, bufferVars, clientVars
  <2>15. CASE Lock(t)
    BY <2>15, DecrementStep, Zenon DEF Lock, Mutex!Next, Mutex!Step
  <2>16. CASE LockWait(t)
    BY <2>16, WaitStep, Zenon DEF LockWait, Mutex!Next, Mutex!Step
  <2>17. CASE LoopUnlock(t) \/ Unlock(t)
    BY <2>17, IncrementStep, Zenon DEF LoopUnlock, Unlock, Mutex!Next, Mutex!Step
  <2>18. CASE LoopUnlockSignal(t) \/ UnlockSignal(t)
    BY <2>18, SignalStep, Zenon DEF LoopUnlockSignal, UnlockSignal, Mutex!Next, Mutex!Step
  <2>19. QED
    BY <1>3, <2>2, <2>3, <2>4, <2>5, <2>6, <2>7, <2>8, <2>9, <2>10, <2>11, <2>12,
       <2>13, <2>14, <2>15, <2>16, <2>17, <2>18, Zenon
       DEF Server, HandleInit, HandleRequest
<1>4. QED
  BY <1>1, <1>2, <1>3, Zenon DEF Next, Terminated

\* The other types.
LEMMA RestStep ==
    ASSUME LockType, RestType, CapInv, WorkInv, [Next]_vars
    PROVE  RestType'
<1> USE DEF RestType
<1>1. CASE UNCHANGED vars
  BY <1>1, Zenon DEF vars, localVars, initVars, clientVars
<1>2. ASSUME NEW c \in Clients, Call(c) PROVE RestType'
  <2>1. ep' \in Seq(Clients)
    BY <1>2, AppendFacts, Zenon DEF Call
  <2>2. QED
    BY <1>2, <2>1, Zenon DEF Call, localVars, initVars
<1>3. ASSUME NEW t \in Threads, Server(t) PROVE RestType'
  <2>1. CASE Recv(t)
    <3>1. Head(ep) \in Clients /\ ep' \in Seq(Clients)
      BY <2>1, EpFacts, Zenon DEF Recv
    <3>2. QED
      BY <2>1, <3>1, Zenon DEF Recv, initVars
  <2>2. CASE Reply(t)
    BY Zenon, <2>2 DEF Reply, initVars
  <2>3. CASE InitialClientLoad(t)
    BY <2>3, Zenon DEF InitialClientLoad, initVars, clientVars
  <2>4. CASE InitialClientStore(t)
    BY <2>4 DEF InitialClientStore, localVars, clientVars
  <2>5. CASE InitSave(t)
    BY Zenon, <2>5 DEF InitSave, clientVars
  <2>6. CASE ClientBarrier(t)
    BY <2>6 DEF ClientBarrier, initVars, clientVars
  <2>7. CASE Multicast(t)
    <3>1. reply_eps' \in [ClientIds -> Clients \cup {NoClient}]
      BY Zenon, <2>7 DEF Multicast, SendAnswer
    <3>2. i[t] \in Int
      BY Zenon
    <3>3. id' \in [Clients -> Int]
      BY <2>7, <3>2, Zenon DEF Multicast, SendAnswer
    <3>4. i' \in [Threads -> Int]
      BY <2>7, <3>2 DEF Multicast, SendAnswer
    <3>5. QED
      BY <2>7, <3>1, <3>3, <3>4, Zenon DEF Multicast, SendAnswer
  <2>8. CASE Save(t)
    BY <2>8, Zenon DEF Save, initVars, clientVars
  <2>9. CASE Lock(t) \/ LoopUnlock(t) \/ Unlock(t)
    BY <2>9, Zenon DEF Lock, LoopUnlock, Unlock, MutexDecrement, MutexIncrement,
                localVars, initVars, clientVars
  <2>10. CASE LockWait(t) \/ LoopSleep(t)
    BY <2>10, Zenon DEF LockWait, LoopSleep, Wait, localVars, initVars, clientVars
  <2>11. CASE LoopUnlockSignal(t) \/ SignalOther(t) \/ UnlockSignal(t)
    BY <2>11, Zenon DEF LoopUnlockSignal, SignalOther, UnlockSignal, Signal,
                 localVars, initVars, clientVars
  <2>12. CASE Test(t) \/ Update(t)
    BY <2>12, Zenon DEF Test, Update, localVars, initVars, clientVars
  <2>13. CASE HandleTmnt(t)
    BY <2>13, Zenon
       DEF HandleTmnt, TerminateLoad, TerminateStore, localVars, initVars, clientVars
  <2>14. QED
    BY <1>3, <2>1, <2>2, <2>3, <2>4, <2>5, <2>6, <2>7, <2>8, <2>9, <2>10, <2>11,
       <2>12, <2>13, Zenon DEF Server, HandleInit, HandleRequest
<1>4. QED
  BY <1>1, <1>2, <1>3, Zenon DEF Next, Terminated

\* A thread that is awake moves without a change of the notifications.
LEMMA AwakeMove ==
    ASSUME LockType, NtfnInv, NEW t \in Threads, ~ Asleep(t), ntfn' = ntfn,
           \A s \in Threads : s # t => pc'[s] = pc[s]
    PROVE  NtfnInv'
<1>1. \A p \in Prims : \A s \in Range(ntfn[p].queue) : s \in Threads /\ s # t
  BY RangeFacts DEF NtfnInv, Asleep
<1>2. QED
  BY <1>1, Zenon DEF NtfnInv

\* A thread falls asleep on a notification, or takes its bit.
LEMMA SleepMove ==
    ASSUME LockType, NtfnInv, NEW t \in Threads, ~ Asleep(t), NEW p \in Prims,
           ntfn' = [ntfn EXCEPT ![p] = ReceiveSignal(@, t)],
           pc' = [pc EXCEPT ![t] = IF p = "lock_global" THEN "test" ELSE "lock"]
    PROVE  NtfnInv'
<1>1. /\ ntfn[p] \in [active : BOOLEAN, queue : Seq(Threads)]
      /\ ntfn[p].queue \in Seq(Threads)
      /\ \A q \in Prims : ntfn[q].queue \in Seq(Threads)
  BY Zenon DEF NtfnInv
<1>2. /\ Append(ntfn[p].queue, t) \in Seq(Threads)
      /\ Range(Append(ntfn[p].queue, t)) = Range(ntfn[p].queue) \cup {t}
  BY <1>1, AppendFacts
<1>3. /\ ReceiveSignal(ntfn[p], t) \in [active : BOOLEAN, queue : Seq(Threads)]
      /\ \A s \in Range(ReceiveSignal(ntfn[p], t).queue) :
           s = t \/ s \in Range(ntfn[p].queue)
  <2>1. CASE ntfn[p].active
    BY Zenon, <1>1, <2>1 DEF ReceiveSignal
  <2>2. CASE ~ ntfn[p].active
    <3>1. /\ ReceiveSignal(ntfn[p], t) \in [active : BOOLEAN, queue : Seq(Threads)]
          /\ ReceiveSignal(ntfn[p], t).queue = Append(ntfn[p].queue, t)
      BY Zenon, <1>1, <1>2, <2>2 DEF ReceiveSignal
    <3>2. QED
      BY <1>2, <3>1, Zenon
  <2>3. QED
    BY <2>1, <2>2, Zenon
<1>4. \A q \in Prims : \A s \in Range(ntfn[q].queue) : s \in Threads /\ s # t
  BY <1>1, RangeFacts DEF Asleep
<1>5. ntfn' \in [Prims -> [active : BOOLEAN, queue : Seq(Threads)]]
  BY <1>3, Zenon DEF NtfnInv
<1>6. ASSUME NEW q \in Prims, NEW s \in Range(ntfn'[q].queue)
      PROVE  pc'[s] = IF q = "lock_global" THEN "test" ELSE "lock"
  <2>1. CASE q = p /\ s = t
    BY <2>1, Zenon DEF LockType
  <2>2. CASE ~ (q = p /\ s = t)
    <3>1. s \in Range(ntfn[q].queue)
      BY <1>3, <1>6, <2>2, Zenon DEF NtfnInv
    <3>2. QED
      BY <1>4, <3>1, Zenon DEF NtfnInv, LockType
  <2>3. QED
    BY <2>1, <2>2, Zenon
<1>7. QED
  BY <1>5, <1>6, Zenon DEF NtfnInv

\* A signal wakes one thread or sets the bit.
LEMMA WakeMove ==
    ASSUME LockType, NtfnInv, NEW t \in Threads, ~ Asleep(t), NEW p \in Prims,
           ntfn' = [ntfn EXCEPT ![p] = SendSignal(@)],
           \A s \in Threads : s # t => pc'[s] = pc[s]
    PROVE  NtfnInv'
<1>1. /\ ntfn[p] \in [active : BOOLEAN, queue : Seq(Threads)]
      /\ ntfn[p].queue \in Seq(Threads)
      /\ \A q \in Prims : ntfn[q].queue \in Seq(Threads)
  BY Zenon DEF NtfnInv
<1>2. ntfn[p].queue # <<>> =>
        /\ Tail(ntfn[p].queue) \in Seq(Threads)
        /\ Range(ntfn[p].queue) = Range(Tail(ntfn[p].queue)) \cup {Head(ntfn[p].queue)}
  BY <1>1, TailFacts, Zenon
<1>3. /\ SendSignal(ntfn[p]) \in [active : BOOLEAN, queue : Seq(Threads)]
      /\ \A s \in Range(SendSignal(ntfn[p]).queue) : s \in Range(ntfn[p].queue)
  <2>1. CASE ntfn[p].queue = <<>>
    BY Zenon, <1>1, <2>1 DEF SendSignal
  <2>2. CASE ntfn[p].queue # <<>>
    <3>1. /\ SendSignal(ntfn[p]) \in [active : BOOLEAN, queue : Seq(Threads)]
          /\ SendSignal(ntfn[p]).queue = Tail(ntfn[p].queue)
      BY <1>1, <1>2, <2>2, Zenon DEF SendSignal
    <3>2. QED
      BY <1>2, <2>2, <3>1, Zenon
  <2>3. QED
    BY <2>1, <2>2, Zenon
<1>4. \A q \in Prims : \A s \in Range(ntfn[q].queue) : s \in Threads /\ s # t
  BY <1>1, RangeFacts DEF Asleep
<1>5. ntfn' \in [Prims -> [active : BOOLEAN, queue : Seq(Threads)]]
  BY <1>3, Zenon DEF NtfnInv
<1>6. \A q \in Prims : \A s \in Range(ntfn'[q].queue) : s \in Range(ntfn[q].queue)
  BY <1>3, Zenon DEF NtfnInv
<1>7. QED
  BY Zenon, <1>4, <1>5, <1>6 DEF NtfnInv

\* Sleeping threads stay where they sleep.
LEMMA NtfnStep ==
    ASSUME LockType, NtfnInv, [Next]_vars
    PROVE  NtfnInv'
<1>1. CASE UNCHANGED vars
  BY <1>1, Zenon DEF vars, bufferVars, NtfnInv
<1>2. ASSUME NEW c \in Clients, Call(c) PROVE NtfnInv'
  BY <1>2, Zenon DEF Call, bufferVars, NtfnInv
<1>3. ASSUME NEW t \in Threads, Server(t) PROVE NtfnInv'
  <2>1. ASSUME NEW where, Goto(t, where)
        PROVE  pc' = [pc EXCEPT ![t] = where] /\ \A s \in Threads : s # t => pc'[s] = pc[s]
    BY <2>1, Zenon DEF Goto, LockType
  <2>2. CASE Recv(t)
    BY <2>1, <2>2, AwakeMove, Zenon DEF Recv, At, bufferVars
  <2>3. CASE Reply(t)
    BY <2>1, <2>3, AwakeMove, Zenon DEF Reply, Return, At, bufferVars
  <2>4. CASE InitialClientLoad(t) \/ InitialClientStore(t) \/ InitSave(t)
    BY <2>1, <2>4, AwakeMove, Zenon
       DEF InitialClientLoad, InitialClientStore, InitSave, At, bufferVars
  <2>5. CASE ClientBarrier(t)
    BY <2>1, <2>5, AwakeMove, Zenon DEF ClientBarrier, Return, At, bufferVars
  <2>6. CASE Multicast(t)
    BY <2>1, <2>6, AwakeMove, Zenon DEF Multicast, SendAnswer, Return, At, bufferVars
  <2>7. CASE Save(t) \/ Test(t)
    BY <2>1, <2>7, AwakeMove, Zenon DEF Save, Test, At, bufferVars
  <2>8. CASE Update(t)
    BY <2>1, <2>8, AwakeMove, Zenon DEF Update, At
  <2>9. CASE HandleTmnt(t)
    BY <2>1, <2>9, AwakeMove, Zenon
       DEF HandleTmnt, TerminateLoad, TerminateStore, Return, At, bufferVars
  <2>10. CASE Lock(t) \/ LoopUnlock(t) \/ Unlock(t)
    BY <2>1, <2>10, AwakeMove, Zenon
       DEF Lock, LoopUnlock, Unlock, MutexDecrement, MutexIncrement, At
  <2>11. CASE LockWait(t)
    BY Zenon, <2>1, <2>11, SleepMove DEF LockWait, Wait, At, Prims
  <2>12. CASE LoopSleep(t)
    BY Zenon, <2>1, <2>12, ListFacts, SleepMove DEF LoopSleep, Wait, At
  <2>13. CASE LoopUnlockSignal(t) \/ UnlockSignal(t)
    BY <2>1, <2>13, WakeMove, Zenon DEF LoopUnlockSignal, UnlockSignal, Signal, At, Prims
  <2>14. CASE SignalOther(t)
    BY Zenon, <2>1, <2>14, ListFacts, WakeMove DEF SignalOther, Signal, At
  <2>15. QED
    BY <1>3, <2>2, <2>3, <2>4, <2>5, <2>6, <2>7, <2>8, <2>9, <2>10, <2>11, <2>12,
       <2>13, <2>14, Zenon DEF Server, HandleInit, HandleRequest
<1>4. QED
  BY <1>1, <1>2, <1>3, Zenon DEF Next, Terminated

\* A thread moves inside the handler of a request.
LEMMA BusyMove ==
    ASSUME IInv, NEW t \in Threads, NEW where \in Busy, pc[t] \in Busy, Goto(t, where),
           UNCHANGED <<label, i, caller, saved, reply_eps, ep, req>>
    PROVE  CapInv' /\ WorkInv' /\ KeptInv'
<1>1. pc' = [pc EXCEPT ![t] = where] /\ pc \in [Threads -> Places]
  BY Zenon DEF Goto, IInv, LockType
<1>2. "save" \notin Busy /\ "multicast" \notin Busy /\ Busy \subseteq Handling
  BY Zenon DEF Busy, Handling
<1>3. CapInv'
  <2>1. EpCap' /\ \A k \in ClientIds : EpsCap(k)'
    BY Zenon DEF IInv, CapInv, EpCap, EpsCap
  <2>2. \A s \in Threads : CallerCap(s)' /\ SavedCap(s)'
    BY Zenon DEF IInv, CapInv, CallerCap, SavedCap
  <2>3. QED
    BY <2>1, <2>2, Zenon DEF CapInv
<1>4. /\ pc'[t] = where /\ ClientOf(t)' = ClientOf(t)
      /\ \A s \in Threads : s # t => pc'[s] = pc[s] /\ ClientOf(s)' = ClientOf(s)
  BY <1>1, <1>2, Zenon DEF ClientOf
<1>5. WorkInv'
  <2> SUFFICES ASSUME NEW s \in Threads PROVE Work(s)'
    BY Zenon DEF WorkInv
  <2>1. Work(s)
    BY Zenon DEF IInv, WorkInv
  <2>2. CASE s = t
    BY <1>2, <1>4, <2>1, <2>2, Zenon DEF Work
  <2>3. CASE s # t
    BY <1>4, <2>1, <2>3, Zenon DEF Work
  <2>4. QED
    BY <2>2, <2>3, Zenon
<1>6. KeptInv'
  <2>1. pc[t] \in Handling /\ pc'[t] \in Handling
    BY <1>2, <1>4, Zenon
  <2>2. QED
    BY <1>4, <2>1, Zenon DEF IInv, KeptInv
<1>7. QED
  BY <1>3, <1>5, <1>6, Zenon

\* A thread moves outside the handlers of requests.
LEMMA IdleMove ==
    ASSUME IInv, NEW t \in Threads, NEW where, Goto(t, where),
           pc[t] \notin Handling, where \notin Handling,
           where = "multicast" => i'[t] \in ClientIds,
           \A s \in Threads : s # t => label'[s] = label[s] /\ i'[s] = i[s],
           UNCHANGED <<caller, saved, reply_eps, ep, req>>
    PROVE  CapInv' /\ WorkInv' /\ KeptInv'
<1>1. pc' = [pc EXCEPT ![t] = where] /\ pc \in [Threads -> Places]
  BY Zenon DEF Goto, IInv, LockType
<1>2. "save" \in Handling /\ Busy \subseteq Handling
  BY Zenon DEF Busy, Handling
<1>3. CapInv'
  <2>1. EpCap' /\ \A k \in ClientIds : EpsCap(k)'
    BY Zenon DEF IInv, CapInv, EpCap, EpsCap
  <2>2. \A s \in Threads : CallerCap(s)' /\ SavedCap(s)'
    BY DEF IInv, CapInv, CallerCap, SavedCap
  <2>3. QED
    BY <2>1, <2>2, Zenon DEF CapInv
<1>4. /\ pc'[t] = where
      /\ \A s \in Threads : s # t => pc'[s] = pc[s] /\ ClientOf(s)' = ClientOf(s)
  BY <1>1, Zenon DEF ClientOf
<1>5. WorkInv'
  <2> SUFFICES ASSUME NEW s \in Threads PROVE Work(s)'
    BY Zenon DEF WorkInv
  <2>1. Work(s)
    BY Zenon DEF IInv, WorkInv
  <2>2. CASE s = t
    BY <1>2, <1>4, <2>1, <2>2, Zenon DEF Work
  <2>3. CASE s # t
    BY <1>4, <2>1, <2>3, Zenon DEF Work
  <2>4. QED
    BY <2>2, <2>3, Zenon
<1>6. KeptInv'
  BY <1>4, Zenon DEF IInv, KeptInv
<1>7. QED
  BY <1>3, <1>5, <1>6, Zenon

-----------------------------------------------------------------------------
(* Where the reply capabilities go: receiving, saving, replying, INIT. *)

\* Recv: the reply moves from the queue to the caller slot, and what it
\* replaces there belonged to no request.
LEMMA RecvCaps ==
    ASSUME IInv, NEW t \in Threads, Recv(t)
    PROVE  CapInv' /\ WorkInv' /\ KeptInv'
<1> DEFINE c == Head(ep)
           where == FirstStep(req[c])
<1>1. /\ c \in Clients /\ Tail(ep) \in Seq(Clients)
      /\ Range(ep) = Range(Tail(ep)) \cup {c}
      /\ IsInjective(Tail(ep)) /\ c \notin Range(Tail(ep))
      /\ req[c] \in Labels
      /\ where \in {"initial_client", "terminate", "save", "lock"}
  BY EpFacts, Zenon DEF IInv, Recv
<1>2. /\ pc[t] = "recv" /\ pc' = [pc EXCEPT ![t] = where]
      /\ caller' = [caller EXCEPT ![t] = c]
      /\ label' = [label EXCEPT ![t] = req[c]]
      /\ ep' = Tail(ep)
      /\ UNCHANGED <<i, saved, reply_eps, req>>
  BY Zenon DEF Recv, At, Goto, initVars
<1>3. /\ pc \in [Threads -> Places] /\ label \in [Threads -> Labels \cup {"none"}]
      /\ caller \in [Threads -> Clients \cup {NoClient}]
      /\ saved \in [Threads -> Clients \cup {NoClient}]
      /\ CapInv /\ WorkInv /\ KeptInv
  BY Zenon DEF IInv, LockType, RestType
<1>4. /\ c \in Range(ep)
      /\ \A x \in Range(ep') : x \in Range(ep) /\ x # c
      /\ \A x \in Range(ep) : x = c \/ x \in Range(ep')
  BY <1>1, <1>2, Zenon
<1>5. /\ pc'[t] = where /\ caller'[t] = c /\ label'[t] = req[c]
      /\ \A s \in Threads : s # t =>
           pc'[s] = pc[s] /\ caller'[s] = caller[s] /\ label'[s] = label[s]
      /\ \A s \in Threads : s # t => ClientOf(s)' = ClientOf(s)
  BY <1>2, <1>3, Zenon DEF ClientOf
<1>6. CapInv'
  <2>1. EpCap'
    BY <1>1, <1>2, <1>3, <1>4, Zenon DEF CapInv, EpCap
  <2>2. req[c] # "none" /\ \A s \in Threads : caller[s] # c /\ saved[s] # c
    <3>1. req[c] # "none"
      BY <1>3, <1>4, Zenon DEF CapInv, EpCap
    <3>2. ASSUME NEW s \in Threads PROVE caller[s] # c /\ saved[s] # c
      <4>1. CallerCap(s) /\ SavedCap(s) /\ c \in Clients
        BY <1>1, <1>3, Zenon DEF CapInv
      <4>2. QED
        BY <1>4, <4>1, Zenon DEF CallerCap, SavedCap
    <3>3. QED
      BY <3>1, <3>2, Zenon
  <2>3. \A k \in ClientIds : reply_eps[k] # c
    BY <1>1, <1>3, <1>4, Zenon DEF CapInv, EpsCap
  <2>4. ASSUME NEW s \in Threads PROVE CallerCap(s)' /\ SavedCap(s)'
    <3>1. CallerCap(s) /\ SavedCap(s) /\ UNCHANGED <<saved, reply_eps, req>>
      BY <1>2, <1>3, Zenon DEF CapInv
    <3>2. SavedCap(s)'
      BY <1>4, <3>1, Zenon DEF SavedCap
    <3>3. CASE s = t
      BY <1>4, <1>5, <2>2, <2>3, <3>1, <3>2, <3>3, Zenon DEF CallerCap
    <3>4. CASE s # t
      BY <1>4, <1>5, <2>2, <3>1, <3>2, <3>4, Zenon DEF CallerCap
    <3>5. QED
      BY <3>3, <3>4, Zenon
  <2>5. ASSUME NEW k \in ClientIds PROVE EpsCap(k)'
    BY <1>2, <1>3, <1>4, Zenon DEF CapInv, EpsCap
  <2>6. QED
    BY <2>1, <2>4, <2>5, Zenon DEF CapInv
<1>7. /\ "recv" \notin Handling /\ {"initial_client", "terminate"} \cap Handling = {}
      /\ "save" \in Handling /\ "lock" \in Busy /\ Busy = Handling \ {"save"}
  BY Zenon DEF Handling, Busy
<1>8. /\ where \in Handling <=> req[c] \in Requests
      /\ where = "save" => SEL4_GREEN
      /\ where = "lock" => ~ SEL4_GREEN
      /\ req[c] \in Requests \/ req[c] \in {"INIT", "TMNT"}
  BY <1>1, <1>7, Sel4GreenAssumption, Zenon DEF FirstStep, Labels, Requests
<1>9. saved[t] \notin Clients
  BY <1>2, <1>3, <1>7, Zenon DEF WorkInv, Work
<1>10. where \in Handling => ClientOf(t)' = c
  BY <1>1, <1>5, <1>7, <1>8, Zenon DEF ClientOf
<1>11. WorkInv'
  <2> SUFFICES ASSUME NEW s \in Threads PROVE Work(s)'
    BY Zenon DEF WorkInv
  <2>1. Work(s) /\ UNCHANGED <<i, saved, req>>
    BY <1>2, <1>3, Zenon DEF WorkInv
  <2>2. CASE s = t
    BY <1>1, <1>5, <1>7, <1>8, <1>9, <1>10, <2>1, <2>2, Zenon DEF Work
  <2>3. CASE s # t
    BY <1>5, <2>1, <2>3, Zenon DEF Work
  <2>4. QED
    BY <2>2, <2>3, Zenon
<1>12. ASSUME NEW d \in Clients, req'[d] \in Requests
       PROVE  d \in Range(ep') \/ \E s \in Threads : pc'[s] \in Handling /\ ClientOf(s)' = d
  <2>1. CASE d = c
    BY <1>2, <1>5, <1>8, <1>10, <1>12, <2>1, Zenon
  <2>2. CASE d # c
    <3>1. d \in Range(ep) \/ \E s \in Threads : pc[s] \in Handling /\ ClientOf(s) = d
      BY <1>2, <1>3, <1>12, Zenon DEF KeptInv
    <3>2. QED
      BY <1>2, <1>4, <1>5, <1>7, <2>2, <3>1
  <2>3. QED
    BY <2>1, <2>2, Zenon
<1>13. QED
  BY <1>6, <1>11, <1>12, Zenon DEF KeptInv

\* Save: the reply moves from the caller slot to the thread's own.
LEMMA SaveCaps ==
    ASSUME IInv, NEW t \in Threads, Save(t)
    PROVE  CapInv' /\ WorkInv' /\ KeptInv'
<1>1. /\ pc[t] = "save" /\ pc' = [pc EXCEPT ![t] = "lock"]
      /\ saved' = [saved EXCEPT ![t] = caller[t]]
      /\ caller' = [caller EXCEPT ![t] = NoClient]
      /\ UNCHANGED <<label, i, reply_eps, ep, req>>
  BY Zenon DEF Save, At, Goto, initVars, clientVars
<1>2. /\ pc \in [Threads -> Places]
      /\ caller \in [Threads -> Clients \cup {NoClient}]
      /\ saved \in [Threads -> Clients \cup {NoClient}]
      /\ CapInv /\ WorkInv /\ KeptInv /\ NoClient \notin Clients
  BY Sel4ClientsAssumption, Zenon DEF IInv, LockType, RestType
<1>3. /\ pc'[t] = "lock" /\ caller'[t] = NoClient /\ saved'[t] = caller[t]
      /\ \A s \in Threads : s # t =>
           pc'[s] = pc[s] /\ caller'[s] = caller[s] /\ saved'[s] = saved[s]
      /\ \A s \in Threads : s # t => ClientOf(s)' = ClientOf(s)
  BY <1>1, <1>2, Zenon DEF ClientOf
<1>4. "save" \in Handling /\ "lock" \in Busy /\ Busy = Handling \ {"save"}
  BY Zenon DEF Handling, Busy
<1>5. SEL4_GREEN /\ ClientOf(t) = caller[t] /\ ClientOf(t)' = saved'[t]
  BY <1>1, <1>2, <1>3, Zenon DEF WorkInv, Work, ClientOf
<1>6. CapInv'
  <2>1. ASSUME NEW s \in Threads PROVE CallerCap(s)' /\ SavedCap(s)'
    <3>1. /\ CallerCap(s) /\ SavedCap(s) /\ CallerCap(t) /\ NoClient \notin Clients
          /\ UNCHANGED <<reply_eps, ep, req>>
      BY <1>1, <1>2, Zenon DEF CapInv
    <3>2. CASE s = t
      BY <1>3, <3>1, <3>2, Zenon DEF CallerCap, SavedCap
    <3>3. CASE s # t
      <4>1. CallerCap(s)'
        <5>1. caller'[s] = caller[s] /\ saved'[t] = caller[t] /\ caller'[t] = NoClient
          BY <1>3, <3>3, Zenon
        <5>2. caller[s] \in Clients => \A r \in Threads : caller'[r] = caller[s] => r = s
          <6>1. caller[s] \in Clients =>
                  \A r \in Threads : caller[r] = caller[s] => r = s
            BY <3>1, Zenon DEF CallerCap
          <6>2. caller[s] \in Clients => caller'[t] # caller[s]
            BY <3>1, <5>1, Zenon
          <6>3. \A r \in Threads : r # t => caller'[r] = caller[r]
            BY <1>3, Zenon
          <6>4. QED
            BY <6>1, <6>2, <6>3, Zenon
        <5>3. caller[s] \in Clients => \A r \in Threads : saved'[r] # caller[s]
          <6>1. caller[s] \in Clients =>
                  (\A r \in Threads : saved[r] # caller[s]) /\ caller[t] # caller[s]
            BY <3>1, <3>3, Zenon DEF CallerCap
          <6>2. \A r \in Threads : r # t => saved'[r] = saved[r]
            BY <1>3, Zenon
          <6>3. QED
            BY <6>1, <6>2, <5>1, Zenon
        <5>4. QED
          BY <3>1, <5>1, <5>2, <5>3, Zenon DEF CallerCap
      <4>2. saved[s] \in Clients => caller[t] # saved[s]
        BY <3>1, Zenon DEF CallerCap
      <4>3. SavedCap(s)'
        BY <1>3, <3>1, <3>3, <4>2, Zenon DEF SavedCap
      <4>4. QED
        BY <4>1, <4>3, Zenon
    <3>4. QED
      BY <3>2, <3>3, Zenon
  <2>2. EpCap' /\ \A k \in ClientIds : EpsCap(k)'
    BY <1>1, <1>2, Zenon DEF CapInv, EpCap, EpsCap
  <2>3. QED
    BY <2>1, <2>2, Zenon DEF CapInv
<1>7. WorkInv'
  <2> SUFFICES ASSUME NEW s \in Threads PROVE Work(s)'
    BY Zenon DEF WorkInv
  <2>1. Work(s) /\ UNCHANGED <<label, i, req>> /\ NoClient \notin Clients
    BY <1>1, <1>2, Zenon DEF WorkInv
  <2>2. CASE s = t
    <3>1. /\ SEL4_GREEN /\ pc[s] = "save" /\ pc'[s] = "lock"
          /\ caller'[s] = NoClient /\ ClientOf(s)' = ClientOf(s)
          /\ label'[s] = label[s] /\ req' = req
      BY <1>1, <1>3, <1>5, <2>2, Zenon
    <3>2. /\ label[s] \in Requests /\ ClientOf(s) \in Clients
          /\ req[ClientOf(s)] = label[s]
      BY <1>4, <2>1, <3>1, Zenon DEF Work
    <3>3. label'[s] \in Requests /\ ClientOf(s)' \in Clients
          /\ req'[ClientOf(s)'] = label'[s]
      BY <3>1, <3>2, Zenon
    <3>4. QED
      BY <1>4, <2>1, <3>1, <3>3, Zenon DEF Work
  <2>3. CASE s # t
    BY <1>3, <2>1, <2>3, Zenon DEF Work
  <2>4. QED
    BY <2>2, <2>3, Zenon
<1>8. KeptInv'
  <2> SUFFICES ASSUME NEW d \in Clients, req'[d] \in Requests
               PROVE  \/ d \in Range(ep')
                      \/ \E s \in Threads : pc'[s] \in Handling /\ ClientOf(s)' = d
    BY Zenon DEF KeptInv
  <2>1. d \in Range(ep') \/ \E s \in Threads : pc[s] \in Handling /\ ClientOf(s) = d
    BY <1>1, <1>2, Zenon DEF KeptInv
  <2>2. pc'[t] \in Handling /\ ClientOf(t)' = ClientOf(t)
    BY <1>3, <1>4, <1>5, Zenon
  <2>3. QED
    BY <1>3, <2>1, <2>2, Zenon
<1>9. QED
  BY <1>6, <1>7, <1>8, Zenon

\* Reply: the client the thread worked for is answered, and no other.
LEMMA ReplyCaps ==
    ASSUME IInv, NEW t \in Threads, Reply(t)
    PROVE  CapInv' /\ WorkInv' /\ KeptInv'
<1> DEFINE c == ClientOf(t)
<1>1. /\ pc[t] = "reply" /\ pc' = [pc EXCEPT ![t] = "recv"]
      /\ label' = [label EXCEPT ![t] = "none"]
      /\ req' = [d \in Clients |-> IF d = c THEN "none" ELSE req[d]]
      /\ IF SEL4_GREEN
         THEN saved' = [saved EXCEPT ![t] = NoClient] /\ UNCHANGED caller
         ELSE caller' = [caller EXCEPT ![t] = NoClient] /\ UNCHANGED saved
      /\ UNCHANGED <<i, reply_eps, ep>>
  BY Zenon DEF Reply, Return, At, Goto, initVars, ClientOf
<1>2. /\ pc \in [Threads -> Places] /\ label \in [Threads -> Labels \cup {"none"}]
      /\ caller \in [Threads -> Clients \cup {NoClient}]
      /\ saved \in [Threads -> Clients \cup {NoClient}]
      /\ ep \in Seq(Clients)
      /\ CapInv /\ WorkInv /\ KeptInv /\ NoClient \notin Clients
  BY Sel4ClientsAssumption, Zenon DEF IInv, LockType, RestType
<1>3. /\ "reply" \in Busy /\ Busy = Handling \ {"save"} /\ "recv" \notin Handling
      /\ "save" \in Handling
  BY Zenon DEF Handling, Busy
<1>4. /\ c \in Clients
      /\ SEL4_GREEN => c = saved[t] /\ caller[t] = NoClient
      /\ ~ SEL4_GREEN => c = caller[t] /\ saved[t] = NoClient
  BY <1>1, <1>2, <1>3, Zenon DEF WorkInv, Work, ClientOf
<1>5. /\ pc'[t] = "recv" /\ caller'[t] = NoClient /\ saved'[t] = NoClient
      /\ \A s \in Threads : s # t =>
           /\ pc'[s] = pc[s] /\ label'[s] = label[s]
           /\ caller'[s] = caller[s] /\ saved'[s] = saved[s]
      /\ \A s \in Threads : s # t => ClientOf(s)' = ClientOf(s)
  BY <1>1, <1>2, <1>4, Sel4GreenAssumption, Zenon DEF ClientOf
<1>6. /\ c \notin Range(ep)
      /\ \A s \in Threads : s # t => caller[s] # c /\ saved[s] # c
      /\ \A k \in ClientIds : reply_eps[k] # c
  <2>1. CallerCap(t) /\ SavedCap(t) /\ (c = caller[t] \/ c = saved[t])
    BY <1>2, <1>4, Sel4GreenAssumption, Zenon DEF CapInv
  <2>2. c \notin Range(ep) /\ \A k \in ClientIds : reply_eps[k] # c
    BY <1>4, <2>1, Zenon DEF CallerCap, SavedCap
  <2>3. ASSUME NEW s \in Threads, s # t PROVE caller[s] # c /\ saved[s] # c
    <3>1. CallerCap(s) /\ c \in Clients
      BY <1>2, <1>4, Zenon DEF CapInv
    <3>2. QED
      BY <2>1, <2>3, <3>1, Zenon DEF CallerCap, SavedCap
  <2>4. QED
    BY <2>2, <2>3, Zenon
<1>7. \A d \in Clients : d # c => req'[d] = req[d]
  BY <1>1, Zenon
<1>8. \A x \in Range(ep) : x \in Clients
  BY <1>2, RangeFacts, Zenon
<1>9. CapInv'
  <2>1. ASSUME NEW s \in Threads PROVE CallerCap(s)' /\ SavedCap(s)'
    <3>1. /\ CallerCap(s) /\ SavedCap(s) /\ NoClient \notin Clients
          /\ UNCHANGED <<reply_eps, ep>>
      BY <1>1, <1>2, Zenon DEF CapInv
    <3>2. CASE s = t
      BY <1>5, <3>1, <3>2, Zenon DEF CallerCap, SavedCap
    <3>3. CASE s # t
      BY <1>5, <1>6, <1>7, <3>1, <3>3 DEF CallerCap, SavedCap
    <3>4. QED
      BY <3>2, <3>3, Zenon
  <2>2. EpCap'
    BY <1>1, <1>2, <1>6, <1>7, <1>8, Zenon DEF CapInv, EpCap
  <2>3. ASSUME NEW k \in ClientIds PROVE EpsCap(k)'
    BY <1>1, <1>2, <1>6, <1>7, Zenon DEF CapInv, EpsCap
  <2>4. QED
    BY <2>1, <2>2, <2>3, Zenon DEF CapInv
<1>10. \A s \in Threads : s # t /\ ClientOf(s) \in Clients => ClientOf(s) # c
  BY <1>6, Zenon DEF ClientOf
<1>11. WorkInv'
  <2> SUFFICES ASSUME NEW s \in Threads PROVE Work(s)'
    BY Zenon DEF WorkInv
  <2>1. Work(s) /\ UNCHANGED i /\ NoClient \notin Clients
    BY <1>1, <1>2, Zenon DEF WorkInv
  <2>2. CASE s = t
    BY <1>3, <1>5, <2>1, <2>2, Zenon DEF Work
  <2>3. CASE s # t
    BY <1>5, <1>6, <1>7, <1>10, <2>1, <2>3 DEF Work
  <2>4. QED
    BY <2>2, <2>3, Zenon
<1>12. KeptInv'
  <2>1. req'[c] = "none"
    BY <1>1, <1>4, Zenon
  <2>2. QED
    BY <1>1, <1>2, <1>5, <1>7, <2>1 DEF KeptInv, Requests
<1>13. QED
  BY <1>9, <1>11, <1>12, Zenon

\* InitSave: the reply moves from the caller slot to reply_eps.
LEMMA InitSaveCaps ==
    ASSUME IInv, NEW t \in Threads, InitSave(t)
    PROVE  CapInv' /\ WorkInv' /\ KeptInv'
<1>1. /\ pc[t] = "init_save" /\ pc' = [pc EXCEPT ![t] = "client_barrier"]
      /\ reply_eps' = [reply_eps EXCEPT ![i[t]] = caller[t]]
      /\ caller' = [caller EXCEPT ![t] = NoClient]
      /\ UNCHANGED <<label, i, saved, ep, req>>
  BY Zenon DEF InitSave, At, Goto, clientVars
<1>2. /\ pc \in [Threads -> Places]
      /\ caller \in [Threads -> Clients \cup {NoClient}]
      /\ reply_eps \in [ClientIds -> Clients \cup {NoClient}]
      /\ CapInv /\ WorkInv /\ KeptInv /\ NoClient \notin Clients
  BY Sel4ClientsAssumption, Zenon DEF IInv, LockType, RestType
<1>3. /\ pc'[t] = "client_barrier" /\ caller'[t] = NoClient
      /\ \A s \in Threads : s # t => pc'[s] = pc[s] /\ caller'[s] = caller[s]
      /\ \A s \in Threads : s # t => ClientOf(s)' = ClientOf(s)
      /\ \A k \in ClientIds :
           reply_eps'[k] = IF k = i[t] THEN caller[t] ELSE reply_eps[k]
  BY <1>1, <1>2, Zenon DEF ClientOf
<1>4. /\ {"init_save", "client_barrier"} \cap Handling = {}
      /\ Busy \subseteq Handling /\ "save" \in Handling
  BY Zenon DEF Handling, Busy
<1>5. CapInv'
  <2>1. caller[t] \in Clients => req[caller[t]] \in {"INIT", "TMNT"}
    BY <1>1, <1>2, <1>4, Zenon DEF WorkInv, Work
  <2>2. QED
    <3>1. EpCap'
      BY <1>1, <1>2, Zenon DEF CapInv, EpCap
    <3>2. CallerCap(t) /\ NoClient \notin Clients /\ UNCHANGED <<saved, ep, req>>
      BY <1>1, <1>2, Zenon DEF CapInv
    <3>3. ASSUME NEW s \in Threads PROVE CallerCap(s)' /\ SavedCap(s)'
      <4>1. CallerCap(s) /\ SavedCap(s)
        BY <1>2, Zenon DEF CapInv
      <4>2. SavedCap(s)'
        BY <1>3, <3>2, <4>1, Zenon DEF CallerCap, SavedCap
      <4>3. CASE s = t
        BY <1>3, <3>2, <4>2, <4>3, Zenon DEF CallerCap
      <4>4. CASE s # t
        BY <1>3, <3>2, <4>1, <4>2, <4>4, Zenon DEF CallerCap
      <4>5. QED
        BY <4>3, <4>4, Zenon
    <3>4. ASSUME NEW k \in ClientIds PROVE EpsCap(k)'
      <4>1. EpsCap(k)
        BY <1>2, Zenon DEF CapInv
      <4>2. CASE k = i[t]
        BY <1>3, <2>1, <3>2, <4>2, Zenon DEF CallerCap, EpsCap
      <4>3. CASE k # i[t]
        BY <1>3, <3>2, <4>1, <4>3, Zenon DEF CallerCap, EpsCap
      <4>4. QED
        BY <4>2, <4>3, Zenon
    <3>5. QED
      BY <3>1, <3>3, <3>4, Zenon DEF CapInv
<1>6. WorkInv'
  <2> SUFFICES ASSUME NEW s \in Threads PROVE Work(s)'
    BY Zenon DEF WorkInv
  <2>1. Work(s) /\ UNCHANGED <<label, i, saved, req>> /\ NoClient \notin Clients
    BY <1>1, <1>2, Zenon DEF WorkInv
  <2>2. CASE s = t
    BY <1>1, <1>3, <1>4, <2>1, <2>2, Zenon DEF Work
  <2>3. CASE s # t
    BY <1>3, <2>1, <2>3, Zenon DEF Work
  <2>4. QED
    BY <2>2, <2>3, Zenon
<1>7. KeptInv'
  <2> SUFFICES ASSUME NEW d \in Clients, req'[d] \in Requests
               PROVE  \/ d \in Range(ep')
                      \/ \E s \in Threads : pc'[s] \in Handling /\ ClientOf(s)' = d
    BY Zenon DEF KeptInv
  <2>1. d \in Range(ep') \/ \E s \in Threads : pc[s] \in Handling /\ ClientOf(s) = d
    BY <1>1, <1>2, Zenon DEF KeptInv
  <2>2. pc[t] \notin Handling
    BY <1>1, <1>4, Zenon
  <2>3. QED
    BY <1>3, <2>1, <2>2, Zenon
<1>8. QED
  BY <1>5, <1>6, <1>7, Zenon

\* Multicast: a client of reply_eps is answered, and no other.
LEMMA MulticastCaps ==
    ASSUME IInv, NEW t \in Threads, Multicast(t)
    PROVE  CapInv' /\ WorkInv' /\ KeptInv'
<1> DEFINE c == reply_eps[i[t]]
<1>1. /\ pc[t] = "multicast"
      /\ reply_eps' = [reply_eps EXCEPT ![i[t]] = NoClient]
      /\ req' = [d \in Clients |-> IF d = c THEN "none" ELSE req[d]]
      /\ UNCHANGED <<caller, saved, ep>>
  BY Zenon DEF Multicast, SendAnswer, At
<1>2. /\ pc \in [Threads -> Places] /\ label \in [Threads -> Labels \cup {"none"}]
      /\ i \in [Threads -> Int]
      /\ reply_eps \in [ClientIds -> Clients \cup {NoClient}]
      /\ ep \in Seq(Clients)
      /\ CapInv /\ WorkInv /\ KeptInv /\ NoClient \notin Clients
  BY Sel4ClientsAssumption, Zenon DEF IInv, LockType, RestType
<1>3. /\ {"multicast", "recv"} \cap Handling = {}
      /\ Busy \subseteq Handling /\ "save" \in Handling
  BY Zenon DEF Handling, Busy
<1>4. i[t] \in ClientIds /\ client_num \in Nat
  BY <1>1, <1>2, Sel4ClientsAssumption, Zenon DEF WorkInv, Work
<1>5. /\ pc'[t] \notin Handling
      /\ pc'[t] = "multicast" => i'[t] \in ClientIds
      /\ \A s \in Threads : s # t =>
           pc'[s] = pc[s] /\ label'[s] = label[s] /\ i'[s] = i[s]
  <2>1. CASE i[t] + 1 < client_num
    <3>1. pc' = pc /\ label' = label /\ i' = [i EXCEPT ![t] = i[t] + 1]
      BY <2>1, Zenon DEF Multicast, SendAnswer
    <3>2. i[t] + 1 \in ClientIds
      BY <1>4, <2>1 DEF ClientIds
    <3>3. QED
      BY <1>1, <1>2, <1>3, <3>1, <3>2, Zenon
  <2>2. CASE ~ (i[t] + 1 < client_num)
    BY <1>2, <1>3, <2>2, Zenon DEF Multicast, SendAnswer, Return, Goto
  <2>3. QED
    BY <2>1, <2>2, Zenon
<1>6. \A s \in Threads : s # t => ClientOf(s)' = ClientOf(s)
  BY <1>1, <1>5, Zenon DEF ClientOf
<1>7. /\ \A d \in Clients : d # c => req'[d] = req[d]
      /\ c \in Clients => req'[c] = "none" /\ req[c] \in {"INIT", "TMNT"}
      /\ \A k \in ClientIds :
           reply_eps'[k] = IF k = i[t] THEN NoClient ELSE reply_eps[k]
  BY <1>1, <1>2, <1>4, Zenon DEF CapInv, EpCap, CallerCap, SavedCap, EpsCap
<1>8. /\ \A x \in Range(ep) : x \in Clients /\ x # c
      /\ \A s \in Threads : /\ caller[s] \in Clients => caller[s] # c
                            /\ saved[s] \in Clients => saved[s] # c
  <2>1. EpsCap(i[t]) /\ \A x \in Range(ep) : x \in Clients
    BY <1>2, <1>4, RangeFacts, Zenon DEF CapInv
  <2>2. \A x \in Range(ep) : x # c
    BY <2>1, Zenon DEF EpsCap
  <2>3. ASSUME NEW s \in Threads
        PROVE  /\ caller[s] \in Clients => caller[s] # c
               /\ saved[s] \in Clients => saved[s] # c
    BY <1>2, <1>4, Zenon DEF CapInv, CallerCap, SavedCap
  <2>4. QED
    BY <2>1, <2>2, <2>3, Zenon
<1>9. CapInv'
  <2>1. EpCap'
    BY <1>1, <1>2, <1>7, <1>8, Zenon DEF CapInv, EpCap
  <2>2. NoClient \notin Clients /\ UNCHANGED <<caller, saved, ep>>
    BY <1>1, <1>2, Zenon
  <2>3. ASSUME NEW s \in Threads PROVE CallerCap(s)' /\ SavedCap(s)'
    <3>1. CallerCap(s) /\ SavedCap(s)
      BY <1>2, Zenon DEF CapInv
    <3>2. CallerCap(s)'
      BY <1>7, <1>8, <2>2, <3>1, Zenon DEF CallerCap
    <3>3. SavedCap(s)'
      BY <1>7, <1>8, <2>2, <3>1, Zenon DEF SavedCap
    <3>4. QED
      BY <3>2, <3>3, Zenon
  <2>4. ASSUME NEW k \in ClientIds PROVE EpsCap(k)'
    <3>1. EpsCap(k) /\ i[t] \in ClientIds
      BY <1>2, <1>4, Zenon DEF CapInv
    <3>2. CASE k = i[t]
      BY <1>7, <2>2, <3>2, Zenon DEF EpsCap
    <3>3. CASE k # i[t]
      BY <1>7, <2>2, <3>1, <3>3 DEF EpsCap
    <3>4. QED
      BY <3>2, <3>3, Zenon
  <2>5. QED
    BY <2>1, <2>3, <2>4, Zenon DEF CapInv
<1>10. WorkInv'
  <2>1. ASSUME NEW s \in Threads, ClientOf(s) \in Clients PROVE ClientOf(s) # c
    <3>1. ClientOf(s) = caller[s] \/ ClientOf(s) = saved[s]
      BY Zenon DEF ClientOf
    <3>2. QED
      BY <1>8, <2>1, <3>1, Zenon
  <2>2. QED
    <3> SUFFICES ASSUME NEW s \in Threads PROVE Work(s)'
      BY Zenon DEF WorkInv
    <3>1. Work(s) /\ UNCHANGED <<caller, saved>> /\ pc[t] \notin Handling
      BY <1>1, <1>2, <1>3, Zenon DEF WorkInv
    <3>2. CASE s = t
      BY <1>3, <1>5, <1>7, <1>8, <3>1, <3>2, Zenon DEF Work
    <3>3. CASE s # t
      <4>1. /\ pc'[s] = pc[s] /\ label'[s] = label[s] /\ i'[s] = i[s]
            /\ ClientOf(s)' = ClientOf(s)
            /\ caller'[s] = caller[s] /\ saved'[s] = saved[s]
        BY <1>5, <1>6, <3>1, <3>3, Zenon
      <4>2. /\ ClientOf(s) \in Clients =>
                 req'[ClientOf(s)'] = req[ClientOf(s)]
            /\ caller[s] \in Clients => req'[caller'[s]] = req[caller[s]]
        BY <1>7, <1>8, <2>1, <4>1, Zenon
      <4>3. QED
        BY <3>1, <4>1, <4>2, Zenon DEF Work
    <3>4. QED
      BY <3>2, <3>3, Zenon
<1>11. ASSUME NEW d \in Clients, req'[d] \in Requests
       PROVE  d \in Range(ep') \/ \E s \in Threads : pc'[s] \in Handling /\ ClientOf(s)' = d
  <2>1. d # c /\ req[d] \in Requests
    BY <1>7, <1>11, Zenon DEF Requests
  <2>2. d \in Range(ep) \/ \E s \in Threads : pc[s] \in Handling /\ ClientOf(s) = d
    BY <1>2, <2>1, Zenon DEF KeptInv
  <2>3. QED
    BY <1>1, <1>3, <1>5, <1>6, <2>2, Zenon
<1>12. QED
  BY <1>9, <1>10, <1>11, Zenon DEF KeptInv

\* Call: the client was not blocked, so nothing held its reply.
LEMMA CallCaps ==
    ASSUME IInv, NEW c \in Clients, Call(c)
    PROVE  CapInv' /\ WorkInv' /\ KeptInv'
<1>1. /\ req[c] = "none" /\ req' = [req EXCEPT ![c] = NextLabel(c)]
      /\ ep' = Append(ep, c)
      /\ UNCHANGED <<pc, label, i, caller, saved, reply_eps>>
  BY Zenon DEF Call, localVars, initVars
<1>2. /\ req \in [Clients -> Labels \cup {"none"}]
      /\ ep \in Seq(Clients) /\ NextLabel(c) \in Labels
      /\ CapInv /\ WorkInv /\ KeptInv
  BY NextLabelType, Zenon DEF IInv, LockType, RestType
<1>3. c \notin Range(ep)
  BY <1>1, <1>2, Zenon DEF CapInv, EpCap, CallerCap, SavedCap, EpsCap
<1>4. /\ Range(ep') = Range(ep) \cup {c} /\ IsInjective(ep')
      /\ \A x \in Range(ep) : x \in Clients
  BY <1>1, <1>2, <1>3, AppendFacts, RangeFacts DEF CapInv, EpCap, CallerCap, SavedCap, EpsCap
<1>5. /\ req'[c] \in Labels /\ req'[c] # "none"
      /\ \A d \in Clients : d # c => req'[d] = req[d]
  BY <1>1, <1>2, Zenon DEF Labels
<1>6. /\ \A s \in Threads : caller[s] # c /\ saved[s] # c
      /\ \A k \in ClientIds : reply_eps[k] # c
  BY <1>1, <1>2 DEF CapInv, EpCap, CallerCap, SavedCap, EpsCap
<1>7. CapInv'
  <2>1. EpCap'
    BY <1>2, <1>4, <1>5, Zenon DEF CapInv, EpCap
  <2>2. ASSUME NEW s \in Threads PROVE CallerCap(s)' /\ SavedCap(s)'
    <3>1. CallerCap(s) /\ SavedCap(s) /\ UNCHANGED <<caller, saved, reply_eps>>
      BY <1>1, <1>2, Zenon DEF CapInv
    <3>2. CallerCap(s)'
      BY <1>4, <1>5, <1>6, <3>1, Zenon DEF CallerCap
    <3>3. SavedCap(s)'
      BY <1>4, <1>5, <1>6, <3>1, Zenon DEF SavedCap
    <3>4. QED
      BY <3>2, <3>3, Zenon
  <2>3. ASSUME NEW k \in ClientIds PROVE EpsCap(k)'
    BY <1>1, <1>2, <1>4, <1>5, <1>6, Zenon DEF CapInv, EpsCap
  <2>4. QED
    BY <2>1, <2>2, <2>3, Zenon DEF CapInv
<1>8. \A s \in Threads : ClientOf(s)' = ClientOf(s) /\ ClientOf(s) # c
  BY <1>1, <1>6, Zenon DEF ClientOf
<1>9. WorkInv'
  <2> SUFFICES ASSUME NEW s \in Threads PROVE Work(s)'
    BY Zenon DEF WorkInv
  <2>1. Work(s) /\ UNCHANGED <<pc, label, i, caller, saved>>
    BY <1>1, <1>2, Zenon DEF WorkInv
  <2>2. QED
    BY <1>5, <1>6, <1>8, <2>1, Zenon DEF Work
<1>10. KeptInv'
  BY <1>1, <1>2, <1>4, <1>5, <1>8, Zenon DEF KeptInv
<1>11. QED
  BY <1>7, <1>9, <1>10, Zenon

\* No step loses or duplicates a reply.
LEMMA CapStep ==
    ASSUME IInv, [Next]_vars
    PROVE  CapInv' /\ WorkInv' /\ KeptInv'
<1>1. CASE UNCHANGED vars
  <2>1. UNCHANGED <<pc, label, i, caller, saved, reply_eps, ep, req>>
    BY <1>1, Zenon DEF vars, localVars, initVars, clientVars
  <2>2. CapInv'
    BY <2>1, Zenon DEF IInv, CapInv, EpCap, CallerCap, SavedCap, EpsCap
  <2>3. \A s \in Threads : ClientOf(s)' = ClientOf(s)
    BY <2>1, Zenon DEF ClientOf
  <2>4. WorkInv'
    BY <2>1, <2>3, Zenon DEF IInv, WorkInv, Work
  <2>5. KeptInv'
    BY <2>1, <2>3, Zenon DEF IInv, KeptInv
  <2>6. QED
    BY <2>2, <2>4, <2>5, Zenon
<1>2. ASSUME NEW t \in Threads, Server(t)
      PROVE  CapInv' /\ WorkInv' /\ KeptInv'
  <2>1. CASE Recv(t) \/ Reply(t) \/ InitSave(t) \/ Multicast(t) \/ Save(t)
    BY <2>1, RecvCaps, ReplyCaps, InitSaveCaps, MulticastCaps, SaveCaps, Zenon
  <2>2. CASE InitialClientLoad(t)
    <3>1. pc[t] \notin Handling /\ "initial_client_store" \notin Handling
      BY <2>2, Zenon DEF InitialClientLoad, At, Handling
    <3>2. \A s \in Threads : s # t => label'[s] = label[s] /\ i'[s] = i[s]
      BY <2>2, Zenon DEF InitialClientLoad, IInv, RestType
    <3>3. QED
      BY <2>2, <3>1, <3>2, IdleMove, Zenon DEF InitialClientLoad, initVars, clientVars
  <2>3. CASE InitialClientStore(t)
    <3>1. pc[t] \notin Handling /\ "init_save" \notin Handling
      BY <2>3, Zenon DEF InitialClientStore, At, Handling
    <3>2. QED
      BY <2>3, <3>1, IdleMove, Zenon DEF InitialClientStore, localVars, clientVars
  <2>4. CASE ClientBarrier(t)
    <3>1. pc[t] \notin Handling /\ {"recv", "multicast"} \cap Handling = {}
      BY <2>4, Zenon DEF ClientBarrier, At, Handling
    <3>2. \A s \in Threads : s # t => label'[s] = label[s] /\ i'[s] = i[s]
      BY <2>4, Zenon DEF ClientBarrier, Return, IInv, RestType, LockType
    <3>3. i'[t] = 0 /\ 0 \in ClientIds
      <4>1. client_num \in Nat /\ client_num # 0
        BY Sel4ClientsAssumption, Zenon
      <4>2. QED
        BY <2>4, <4>1 DEF ClientBarrier, IInv, RestType, ClientIds
    <3>4. Goto(t, "recv") \/ Goto(t, "multicast")
      BY <2>4, Zenon DEF ClientBarrier, Return
    <3>5. QED
      BY <2>4, <3>1, <3>2, <3>3, <3>4, IdleMove, Zenon DEF ClientBarrier, initVars, clientVars
  <2>5. CASE HandleTmnt(t)
    <3>1. pc[t] \notin Handling /\ {"recv", "terminate_store"} \cap Handling = {}
      BY <2>5, Zenon DEF HandleTmnt, TerminateLoad, TerminateStore, At, Handling
    <3>2. \A s \in Threads : s # t => label'[s] = label[s] /\ i'[s] = i[s]
      BY <2>5, Zenon
         DEF HandleTmnt, TerminateLoad, TerminateStore, Return, IInv, LockType, localVars
    <3>3. Goto(t, "recv") \/ Goto(t, "terminate_store")
      BY <2>5, Zenon DEF HandleTmnt, TerminateLoad, TerminateStore, Return
    <3>4. UNCHANGED <<caller, saved, reply_eps, ep, req>>
      BY <2>5, Zenon
         DEF HandleTmnt, TerminateLoad, TerminateStore, localVars, initVars, clientVars
    <3>5. "recv" # "multicast" /\ "terminate_store" # "multicast"
      OBVIOUS
    <3>6. QED
      BY <3>1, <3>2, <3>3, <3>4, <3>5, IdleMove, Zenon
  <2>6. CASE Lock(t) \/ LoopUnlock(t) \/ Unlock(t)
    <3>1. /\ pc[t] \in Busy
          /\ \E where \in Busy : Goto(t, where)
      BY <2>6, Zenon DEF Lock, LoopUnlock, Unlock, MutexDecrement, MutexIncrement, At, Busy,
                  Handling
    <3>2. QED
      BY <2>6, <3>1, BusyMove, Zenon DEF Lock, LoopUnlock, Unlock, MutexDecrement,
         MutexIncrement, localVars, initVars, clientVars
  <2>7. CASE LockWait(t) \/ LoopSleep(t)
    <3>1. /\ pc[t] \in Busy
          /\ \E where \in Busy : Goto(t, where)
      BY <2>7, Zenon DEF LockWait, LoopSleep, Wait, At, Busy, Handling
    <3>2. QED
      BY <2>7, <3>1, BusyMove, Zenon DEF LockWait, LoopSleep, Wait, localVars, initVars, clientVars
  <2>8. CASE LoopUnlockSignal(t) \/ SignalOther(t) \/ UnlockSignal(t)
    <3>1. /\ pc[t] \in Busy
          /\ \E where \in Busy : Goto(t, where)
      BY <2>8, Zenon DEF LoopUnlockSignal, SignalOther, UnlockSignal, Signal, At, Busy, Handling
    <3>2. QED
      BY <2>8, <3>1, BusyMove, Zenon DEF LoopUnlockSignal, SignalOther, UnlockSignal, Signal,
         localVars, initVars, clientVars
  <2>9. CASE Test(t) \/ Update(t)
    <3>1. /\ pc[t] \in Busy
          /\ \E where \in Busy : Goto(t, where)
      BY <2>9, Zenon DEF Test, Update, At, Busy, Handling
    <3>2. QED
      BY <2>9, <3>1, BusyMove, Zenon DEF Test, Update, localVars, initVars, clientVars
  <2>10. QED
    BY <1>2, <2>1, <2>2, <2>3, <2>4, <2>5, <2>6, <2>7, <2>8, <2>9, Zenon
       DEF Server, HandleInit, HandleRequest
<1>3. QED
  BY <1>1, <1>2, CallCaps, Zenon DEF Next, Terminated

\* IInv is inductive.
THEOREM Sel4Invariant == Spec => []IInv
<1>1. Init => IInv
  <2> SUFFICES ASSUME Init PROVE IInv
    BY Zenon
  <2>1. LockType
    BY Zenon DEF Init, LockType, Places
  <2>2. RestType
    BY DEF Init, RestType
  <2>3. \A p \in Prims : ntfn[p] = [active |-> FALSE, queue |-> <<>>]
    BY Zenon DEF Init, NtfnIdle
  <2>4. \A p \in Prims : Range(ntfn[p].queue) = {}
    BY <2>3 DEF Range
  <2>5. NtfnInv
    <3>1. [active |-> FALSE, queue |-> <<>>] \in [active : BOOLEAN, queue : Seq(Threads)]
      OBVIOUS
    <3>2. ntfn = [p \in Prims |-> [active |-> FALSE, queue |-> <<>>]]
      BY Zenon DEF Init, NtfnIdle
    <3>3. QED
      BY <2>4, <3>1, <3>2, Zenon DEF NtfnInv
  <2>6. Range(ep) = {} /\ IsInjective(ep)
    BY DEF Init, Range, IsInjective
  <2>7. CapInv
    BY <2>6, Sel4ClientsAssumption, Zenon DEF Init, CapInv, EpCap, CallerCap, SavedCap, EpsCap
  <2>8. WorkInv /\ KeptInv
    BY Sel4ClientsAssumption, Zenon DEF Init, WorkInv, Work, KeptInv, Handling, Busy, Requests
  <2>9. QED
    BY <2>1, <2>2, <2>5, <2>7, <2>8, Zenon DEF IInv
<1>2. IInv /\ [Next]_vars => IInv'
  BY LockStep, RestStep, NtfnStep, CapStep, Zenon DEF IInv
<1>3. QED
  BY <1>1, <1>2, PTL DEF Spec

\* The reply to a blocked request is in exactly one place.
LEMMA OnePlace ==
    ASSUME IInv, NEW c \in Clients, req[c] \in Requests
    PROVE  \E x : Pending(c) = {x}
<1>1. CapInv /\ WorkInv /\ KeptInv
  BY Zenon DEF IInv
<1>2. CASE c \in Range(ep)
  <2>1. PICK k \in DOMAIN ep : ep[k] = c
    BY <1>2, Zenon DEF Range
  <2>2. {j \in DOMAIN ep : ep[j] = c} = {k}
    BY <1>1, <2>1, Zenon DEF CapInv, EpCap, CallerCap, SavedCap, EpsCap, IsInjective
  <2>3. /\ {s \in Threads : caller[s] = c} = {}
        /\ {s \in Threads : saved[s] = c} = {}
    BY <1>1, <1>2, Zenon DEF CapInv, EpCap, CallerCap, SavedCap, EpsCap
  <2>4. Pending(c) = {<<"ep", k>>}
    BY <2>2, <2>3, Zenon DEF Pending
  <2>5. QED
    BY <2>4, Zenon
<1>3. CASE c \notin Range(ep)
  <2>1. PICK t \in Threads : pc[t] \in Handling /\ ClientOf(t) = c
    BY <1>1, <1>3, Zenon DEF KeptInv
  <2>2. {j \in DOMAIN ep : ep[j] = c} = {}
    BY <1>3, Zenon DEF Range
  <2>3. CASE caller[t] = c
    <3>1. /\ {s \in Threads : caller[s] = c} = {t}
          /\ {s \in Threads : saved[s] = c} = {}
      BY <1>1, <2>3, Zenon DEF CapInv, EpCap, CallerCap, SavedCap, EpsCap
    <3>2. Pending(c) = {<<"caller", t>>}
      BY <2>2, <3>1, Zenon DEF Pending
    <3>3. QED
      BY <3>2, Zenon
  <2>4. CASE saved[t] = c
    <3>1. /\ {s \in Threads : saved[s] = c} = {t}
          /\ {s \in Threads : caller[s] = c} = {}
      BY <1>1, <2>4, Zenon DEF CapInv, EpCap, CallerCap, SavedCap, EpsCap
    <3>2. Pending(c) = {<<"saved", t>>}
      BY <2>2, <3>1, Zenon DEF Pending
    <3>3. QED
      BY <3>2, Zenon
  <2>5. QED
    BY <2>1, <2>3, <2>4, Zenon DEF ClientOf
<1>4. QED
  BY <1>2, <1>3, Zenon
=============================================================================
