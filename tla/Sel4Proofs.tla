----------------------------- MODULE Sel4Proofs -----------------------------
(***************************************************************************)
(* The theorems about the kernel-thread server, for every number of        *)
(* clients, threads, rounds and every buffer_limit.  No request is lost    *)
(* between its call and its reply.  The server's steps map to steps of     *)
(* BinSem, whose mutual exclusion makes the invariant on the buffer        *)
(* inductive; with it, sleepers are not stranded.                          *)
(***************************************************************************)
EXTENDS Sel4Steps

\* What a set of one element counts (proved below).
OneCounted == \A x : Cardinality({x}) = 1

\* In every state of the invariant, the reply capability of a blocked client
\* is in one place, with a thread of its handler.
LEMMA KeptOne ==
    ASSUME OneCounted, IInv
    PROVE  RequestsKept
<1> SUFFICES ASSUME NEW c \in Clients, req[c] \in Requests
             PROVE  /\ Cardinality(Pending(c)) = 1
                    /\ \A t \in Threads :
                         caller[t] = c \/ saved[t] = c => label[t] = req[c]
  BY Zenon DEF RequestsKept
<1>1. Cardinality(Pending(c)) = 1
  BY OnePlace, Zenon DEF OneCounted
<1>2. ASSUME NEW t \in Threads, caller[t] = c PROVE label[t] = req[c]
  <2>1. WorkInv /\ NoClient \notin Clients
    BY Sel4ClientsAssumption, Zenon DEF IInv
  <2>2. pc[t] \in Handling
    BY <1>2, <2>1, Zenon DEF WorkInv, Work, Requests
  <2>3. ClientOf(t) = caller[t]
    BY <1>2, <2>1, <2>2, Zenon DEF WorkInv, Work, ClientOf, Busy
  <2>4. QED
    BY <1>2, <2>1, <2>2, <2>3, Zenon DEF WorkInv, Work
<1>3. ASSUME NEW t \in Threads, saved[t] = c PROVE label[t] = req[c]
  <2>1. SEL4_GREEN /\ pc[t] \in Busy /\ WorkInv
    BY <1>3, Zenon DEF IInv, WorkInv, Work
  <2>2. pc[t] \in Handling /\ ClientOf(t) = saved[t]
    BY <2>1, Zenon DEF ClientOf, Busy
  <2>3. QED
    BY <1>3, <2>1, <2>2, Zenon DEF WorkInv, Work
<1>4. QED
  BY <1>1, <1>2, <1>3, Zenon

-----------------------------------------------------------------------------
(* What lock_global protects. *)

\* The server's use of lock_global implements the mutex of BinSem.
THEOREM MutexRefinement == Spec => ImplementsMutex
<1>1. Init => Mutex!Init
  <2> SUFFICES ASSUME Init PROVE Mutex!Init
    BY Zenon
  <2>1. LockAt = [t \in Threads |-> "out"]
    BY Zenon DEF Init, LockAt, HoldsLock
  <2>2. QED
    BY <2>1, Zenon DEF Init, Mutex!Init, NtfnIdle, Mutex!NtfnIdle, Prims
<1>2. IInv /\ [Next]_vars => [Mutex!Next]_Mutex!vars
  BY LockStep, Zenon DEF IInv
<1>3. QED
  BY <1>1, <1>2, Sel4Invariant, PTL DEF Spec, ImplementsMutex, Mutex!Spec

\* What the loop tested holds until the buffer is updated.
BufferInv ==
    /\ buffer \in 0..buffer_limit
    /\ \A t \in Threads : pc[t] = "update" => ~ MustWait(t)

\* Under mutual exclusion nobody updates the buffer between another thread's
\* test and its update.
LEMMA BufferInvStep ==
    ASSUME IInv, MutualExclusion, BufferInv, [Next]_vars
    PROVE  BufferInv'
<1>1. /\ buffer \in 0..buffer_limit /\ buffer_limit \in Nat
      /\ pc \in [Threads -> Places] /\ label \in [Threads -> Labels \cup {"none"}]
  BY Sel4LimitAssumption, Zenon DEF IInv, LockType, BufferInv
<1>2. ASSUME NEW t \in Threads, NEW where, Goto(t, where), where # "update",
             buffer' = buffer, \A s \in Threads : s # t => label'[s] = label[s]
      PROVE  BufferInv'
  BY <1>1, <1>2, Zenon DEF BufferInv, Goto, MustWait
<1>3. CASE UNCHANGED vars
  BY <1>3, Zenon DEF BufferInv, MustWait, vars, localVars, bufferVars
<1>4. ASSUME NEW c \in Clients, Call(c) PROVE BufferInv'
  BY <1>4, Zenon DEF BufferInv, MustWait, Call, localVars, bufferVars
<1>5. ASSUME NEW t \in Threads, Server(t) PROVE BufferInv'
  <2>1. CASE Recv(t)
    <3>1. FirstStep(req[Head(ep)]) # "update"
      BY <2>1, EpFacts, Zenon DEF Recv, IInv
    <3>2. QED
      BY <1>1, <1>2, <2>1, <3>1, Zenon DEF Recv, bufferVars
  <2>2. CASE Reply(t)
    BY <1>1, <1>2, <2>2, Zenon DEF Reply, Return, bufferVars
  <2>3. CASE InitialClientLoad(t) \/ InitialClientStore(t) \/ InitSave(t)
    BY <1>2, <2>3, Zenon
       DEF InitialClientLoad, InitialClientStore, InitSave, localVars, bufferVars
  <2>4. CASE ClientBarrier(t)
    BY <1>1, <1>2, <2>4, Zenon DEF ClientBarrier, Return, bufferVars
  <2>5. CASE Multicast(t)
    <3>1. CASE pc' = pc /\ label' = label
      BY <2>5, <3>1, Zenon DEF Multicast, SendAnswer, bufferVars, BufferInv, MustWait
    <3>2. CASE Return(t)
      BY <1>1, <1>2, <2>5, <3>2, Zenon DEF Multicast, SendAnswer, Return, bufferVars
    <3>3. QED
      BY <2>5, <3>1, <3>2, Zenon DEF Multicast, SendAnswer
  <2>6. CASE Save(t)
    BY <1>2, <2>6, Zenon DEF Save, bufferVars
  <2>7. CASE Lock(t) \/ LoopUnlock(t) \/ Unlock(t)
    BY <1>2, <2>7, Zenon DEF Lock, LoopUnlock, Unlock, MutexDecrement, MutexIncrement, localVars
  <2>8. CASE LockWait(t) \/ LoopSleep(t)
    BY <1>2, <2>8, Zenon DEF LockWait, LoopSleep, Wait, localVars
  <2>9. CASE LoopUnlockSignal(t) \/ SignalOther(t) \/ UnlockSignal(t)
    BY <1>2, <2>9, Zenon DEF LoopUnlockSignal, SignalOther, UnlockSignal, Signal, localVars
  <2>10. CASE HandleTmnt(t)
    BY <1>1, <1>2, <2>10, Zenon
       DEF HandleTmnt, TerminateLoad, TerminateStore, Return, localVars, bufferVars
  <2>11. CASE Test(t)
    <3>1. /\ pc' = [pc EXCEPT ![t] = IF MustWait(t) THEN "unlock" ELSE "update"]
          /\ label' = label /\ buffer' = buffer
      BY <2>11, Zenon DEF Test, Goto, localVars, bufferVars
    <3>2. \A s \in Threads : pc'[s] = "update" => ~ MustWait(s)
      BY <1>1, <3>1, Zenon DEF BufferInv
    <3>3. QED
      BY <1>1, <3>1, <3>2, Zenon DEF BufferInv, MustWait
  <2>12. CASE Update(t)
    <3>1. /\ pc[t] = "update" /\ ~ Asleep(t)
          /\ pc' = [pc EXCEPT ![t] = "signal"]
          /\ buffer' = IF label[t] = "PRODUCER" THEN buffer + 1 ELSE buffer - 1
      BY <2>12, Zenon DEF Update, At, Goto
    <3>2. buffer' \in 0..buffer_limit
      BY <1>1, <3>1 DEF BufferInv, MustWait
    <3>3. \A s \in Threads : pc[s] = "update" => ~ Asleep(s)
      BY Zenon DEF IInv, NtfnInv, Asleep
    <3>4. \A s \in Threads : pc[s] = "update" => s = t
      BY <3>1, <3>3, Zenon DEF MutualExclusion, HoldsLock
    <3>5. \A s \in Threads : pc'[s] # "update"
      BY <1>1, <3>1, <3>4, Zenon
    <3>6. QED
      BY <3>2, <3>5, Zenon DEF BufferInv
  <2>13. QED
    BY <1>5, <2>1, <2>2, <2>3, <2>4, <2>5, <2>6, <2>7, <2>8, <2>9, <2>10, <2>11,
       <2>12 DEF Server, HandleInit, HandleRequest
<1>6. QED
  BY <1>3, <1>4, <1>5, Zenon DEF Next, Terminated

-----------------------------------------------------------------------------
(* The bounded buffer. *)

\* The abstract requests, as the refinement mapping in Sel4Server.
Asked == [c \in Clients |-> IF req[c] \in Requests /\ ~ Served(c) THEN req[c] ELSE "none"]
After == {"signal", "done", "done_signal", "reply"}

\* The only reply a thread in the handler of a request holds.
LEMMA SlotFacts ==
    ASSUME IInv, NEW t \in Threads, pc[t] \in Busy
    PROVE  /\ ClientOf(t) \in Clients /\ req[ClientOf(t)] = label[t]
           /\ label[t] \in Requests
           /\ \A c \in Clients : c \in {caller[t], saved[t]} <=> c = ClientOf(t)
           /\ \A s \in Threads : s # t => ClientOf(t) \notin {caller[s], saved[s]}
<1>1. /\ WorkInv /\ CapInv /\ NoClient \notin Clients
      /\ saved \in [Threads -> Clients \cup {NoClient}]
      /\ caller \in [Threads -> Clients \cup {NoClient}]
  BY Sel4ClientsAssumption, Zenon DEF IInv, RestType
<1>2. pc[t] \in Handling /\ pc[t] # "save"
  BY Zenon DEF Busy
<1>3. /\ ClientOf(t) \in Clients /\ req[ClientOf(t)] = label[t]
      /\ label[t] \in Requests
  BY <1>1, <1>2, Zenon DEF WorkInv, Work
<1>4. CASE SEL4_GREEN
  <2>1. ClientOf(t) = saved[t] /\ caller[t] = NoClient
    BY <1>1, <1>2, <1>4, Zenon DEF WorkInv, Work, ClientOf
  <2>2. QED
    BY <1>1, <1>3, <2>1, Zenon DEF CapInv, EpCap, CallerCap, SavedCap, EpsCap
<1>5. CASE ~ SEL4_GREEN
  <2>1. ClientOf(t) = caller[t] /\ saved[t] = NoClient
    BY <1>1, <1>5, Zenon DEF WorkInv, Work, ClientOf
  <2>2. QED
    BY <1>1, <1>3, <2>1 DEF CapInv, EpCap, CallerCap, SavedCap, EpsCap
<1>6. QED
  BY <1>4, <1>5, Zenon

\* A thread moves, and whether it has updated the buffer stays as it was.
LEMMA ServedMove ==
    ASSUME IInv, NEW t \in Threads, req' = req,
           \A s \in Threads : s # t =>
             pc'[s] = pc[s] /\ caller'[s] = caller[s] /\ saved'[s] = saved[s],
           \/ pc[t] \notin After /\ pc'[t] \notin After
           \/ /\ pc[t] \in After /\ pc'[t] \in After
              /\ caller'[t] = caller[t] /\ saved'[t] = saved[t]
    PROVE  Asked' = Asked
<1>1. ASSUME NEW c \in Clients PROVE Served(c)' = Served(c)
  BY Zenon DEF Served, After
<1>2. QED
  BY <1>1, Zenon DEF Asked

\* The update is the step that gives its client's request its effect.
LEMMA UpdateAsked ==
    ASSUME IInv, NEW t \in Threads, Update(t)
    PROVE  \E c \in Clients : /\ Asked[c] = label[t] /\ label[t] \in Requests
                              /\ Asked' = [Asked EXCEPT ![c] = "none"]
<1>1. /\ pc[t] = "update" /\ pc' = [pc EXCEPT ![t] = "signal"]
      /\ UNCHANGED <<caller, saved, req>>
  BY Zenon DEF Update, At, Goto, localVars, clientVars
<1>2. pc \in [Threads -> Places]
  BY Zenon DEF IInv, LockType
<1>3. pc[t] \in Busy
  BY <1>1, Zenon DEF Busy, Handling
<1>4. PICK c \in Clients :
        /\ req[c] = label[t] /\ label[t] \in Requests
        /\ \A d \in Clients : d \in {caller[t], saved[t]} <=> d = c
        /\ \A s \in Threads : s # t => c \notin {caller[s], saved[s]}
  BY <1>3, SlotFacts, Zenon
<1>5. ~ Served(c)
  BY <1>1, <1>4, Zenon DEF Served
<1>6. Served(c)'
  <2>1. c \in {caller'[t], saved'[t]} /\ pc'[t] = "signal"
    BY <1>1, <1>2, <1>4, Zenon
  <2>2. QED
    BY <2>1, Zenon DEF Served
<1>7. ASSUME NEW d \in Clients, d # c PROVE Served(d)' = Served(d)
  BY <1>1, <1>2, <1>4, <1>7, Zenon DEF Served
<1>8. Asked[c] = label[t] /\ Asked' = [Asked EXCEPT ![c] = "none"]
  BY <1>1, <1>4, <1>5, <1>6, <1>7, Zenon DEF Asked
<1>9. QED
  BY <1>4, <1>8, Zenon

\* The reply comes after the effect.
LEMMA ReplyAsked ==
    ASSUME IInv, NEW t \in Threads, Reply(t)
    PROVE  Asked' = Asked
<1> DEFINE c == ClientOf(t)
<1>1. /\ pc[t] = "reply" /\ pc' = [pc EXCEPT ![t] = "recv"]
      /\ req' = [d \in Clients |-> IF d = c THEN "none" ELSE req[d]]
      /\ \A s \in Threads : s # t => caller'[s] = caller[s] /\ saved'[s] = saved[s]
  BY Zenon DEF Reply, Return, At, Goto, ClientOf, IInv, RestType
<1>2. pc \in [Threads -> Places]
  BY Zenon DEF IInv, LockType
<1>3. pc[t] \in Busy
  BY <1>1, Zenon DEF Busy, Handling
<1>4. /\ c \in Clients
      /\ \A d \in Clients : d \in {caller[t], saved[t]} <=> d = c
  BY <1>3, SlotFacts, Zenon
<1>5. Served(c)
  BY <1>1, <1>4, Zenon DEF Served
<1>6. ASSUME NEW d \in Clients, d # c PROVE Served(d)' = Served(d) /\ req'[d] = req[d]
  BY <1>1, <1>2, <1>4, <1>6, Zenon DEF Served
<1>7. "none" \notin Requests /\ req'[c] = "none"
  BY <1>1, <1>4, Zenon DEF Requests
<1>8. QED
  BY <1>5, <1>6, <1>7, Zenon DEF Asked

\* Every step is a step of the bounded buffer or leaves it alone.
LEMMA BufferStep ==
    ASSUME IInv, BufferInv, [Next]_vars
    PROVE  [Buffer!Next]_<<buffer, Asked>>
<1>1. CASE UNCHANGED vars
  BY <1>1, Zenon DEF vars, localVars, bufferVars, clientVars, Asked, Served
<1>2. ASSUME NEW c \in Clients, Call(c) PROVE [Buffer!Next]_<<buffer, Asked>>
  <2>1. /\ req[c] = "none" /\ req' = [req EXCEPT ![c] = NextLabel(c)]
        /\ UNCHANGED <<pc, caller, saved, buffer>>
        /\ req \in [Clients -> Labels \cup {"none"}]
    BY <1>2, Zenon DEF Call, localVars, bufferVars, IInv, LockType
  <2>2. ~ Served(c) /\ \A d \in Clients : Served(d)' = Served(d)
    BY <2>1 DEF Served, IInv, CapInv, EpCap, CallerCap, SavedCap, EpsCap
  <2>3. Asked[c] = "none"
    BY <2>1, Zenon DEF Asked
  <2>4. CASE NextLabel(c) \in Requests
    <3>1. Asked' = [Asked EXCEPT ![c] = NextLabel(c)]
      BY <2>1, <2>2, <2>4, Zenon DEF Asked
    <3>2. QED
      BY <2>1, <2>3, <2>4, <3>1, Zenon
         DEF Asked, Buffer!Next, Buffer!Ask, Buffer!Request, Requests
  <2>5. CASE NextLabel(c) \notin Requests
    <3>1. Asked' = Asked
      BY <2>1, <2>2, <2>5, Zenon DEF Asked, Requests
    <3>2. QED
      BY <2>1, <3>1, Zenon
  <2>6. QED
    BY <2>4, <2>5, Zenon
<1>3. ASSUME NEW t \in Threads, Server(t) PROVE [Buffer!Next]_<<buffer, Asked>>
  <2>1. ASSUME NEW where, Goto(t, where), req' = req, buffer' = buffer,
               \A s \in Threads : s # t => caller'[s] = caller[s] /\ saved'[s] = saved[s],
               \/ pc[t] \notin After /\ where \notin After
               \/ /\ pc[t] \in After /\ where \in After
                  /\ caller' = caller /\ saved' = saved
        PROVE  [Buffer!Next]_<<buffer, Asked>>
    <3>1. pc'[t] = where /\ \A s \in Threads : s # t => pc'[s] = pc[s]
      BY <2>1, Zenon DEF Goto, IInv, LockType
    <3>2. Asked' = Asked
      BY <2>1, <3>1, ServedMove, Zenon
    <3>3. QED
      BY <2>1, <3>2, Zenon
  <2>2. CASE Recv(t)
    <3>1. pc[t] \notin After /\ FirstStep(req[Head(ep)]) \notin After
      BY <2>2, EpFacts, Zenon DEF Recv, At, IInv, After
    <3>2. QED
      BY <2>1, <2>2, <3>1, Zenon DEF Recv, bufferVars, IInv, RestType
  <2>3. CASE Reply(t)
    BY <2>3, ReplyAsked, Zenon DEF Reply, bufferVars
  <2>4. CASE InitialClientLoad(t) \/ InitialClientStore(t) \/ InitSave(t)
    <3>1. /\ pc[t] \notin After
          /\ {"initial_client_store", "init_save", "client_barrier"} \cap After = {}
      BY <2>4, Zenon DEF InitialClientLoad, InitialClientStore, InitSave, At, After
    <3>2. QED
      BY <2>1, <2>4, <3>1, Zenon DEF InitialClientLoad, InitialClientStore, InitSave,
         localVars, bufferVars, clientVars, IInv, RestType
  <2>5. CASE ClientBarrier(t)
    <3>1. pc[t] \notin After /\ {"recv", "multicast"} \cap After = {}
      BY <2>5, Zenon DEF ClientBarrier, At, After
    <3>2. QED
      BY <2>1, <2>5, <3>1, Zenon DEF ClientBarrier, Return, bufferVars, clientVars
  <2>6. CASE Multicast(t)
    <3>1. /\ pc[t] \notin After /\ pc'[t] \notin After
          /\ \A s \in Threads : s # t => pc'[s] = pc[s]
          /\ UNCHANGED <<caller, saved, buffer>>
      BY <2>6, Zenon DEF Multicast, SendAnswer, Return, Goto, At, After, bufferVars, IInv, LockType
    <3>2. \A c \in Clients : Served(c)' = Served(c)
      BY <3>1, Zenon DEF Served, After
    <3>3. \A c \in Clients : \/ req'[c] = req[c]
                             \/ req[c] \notin Requests /\ req'[c] \notin Requests
      <4>1. i[t] \in ClientIds
        BY <2>6, Zenon DEF Multicast, SendAnswer, At, IInv, WorkInv, Work
      <4>2. \A c \in Clients : c = reply_eps[i[t]] => req[c] \in {"INIT", "TMNT"}
        BY <4>1, Zenon DEF IInv, CapInv, EpCap, CallerCap, SavedCap, EpsCap
      <4>3. QED
        BY <2>6, <4>2, Zenon DEF Multicast, SendAnswer, Requests
    <3>4. Asked' = Asked
      BY <3>2, <3>3, Zenon DEF Asked
    <3>5. QED
      BY <3>1, <3>4, Zenon
  <2>7. CASE Save(t)
    <3>1. pc[t] \notin After /\ "lock" \notin After
      BY <2>7, Zenon DEF Save, At, After
    <3>2. QED
      BY <2>1, <2>7, <3>1, Zenon DEF Save, bufferVars, clientVars, IInv, RestType
  <2>8. CASE Lock(t) \/ LoopUnlock(t)
    <3>1. /\ pc[t] \notin After
          /\ {"lock_wait", "test", "unlock_signal", "sleep"} \cap After = {}
      BY <2>8, Zenon DEF Lock, LoopUnlock, MutexDecrement, MutexIncrement, At, After
    <3>2. QED
      BY <2>1, <2>8, <3>1, Zenon DEF Lock, LoopUnlock, MutexDecrement, MutexIncrement,
         localVars, clientVars
  <2>9. CASE LockWait(t) \/ LoopSleep(t)
    <3>1. pc[t] \notin After /\ {"lock", "test"} \cap After = {}
      BY <2>9, Zenon DEF LockWait, LoopSleep, Wait, At, After
    <3>2. QED
      BY <2>1, <2>9, <3>1, Zenon DEF LockWait, LoopSleep, Wait, localVars, clientVars
  <2>10. CASE LoopUnlockSignal(t)
    <3>1. pc[t] \notin After /\ "sleep" \notin After
      BY <2>10, Zenon DEF LoopUnlockSignal, Signal, At, After
    <3>2. QED
      BY <2>1, <2>10, <3>1, Zenon DEF LoopUnlockSignal, Signal, localVars, clientVars
  <2>11. CASE Test(t)
    <3>1. pc[t] \notin After /\ {"unlock", "update"} \cap After = {}
      BY <2>11, Zenon DEF Test, At, After
    <3>2. QED
      BY <2>1, <2>11, <3>1, Zenon DEF Test, localVars, bufferVars, clientVars
  <2>12. CASE SignalOther(t) \/ UnlockSignal(t)
    <3>1. pc[t] \in After /\ {"done", "reply"} \subseteq After
      BY <2>12, Zenon DEF SignalOther, UnlockSignal, Signal, At, After
    <3>2. QED
      BY <2>1, <2>12, <3>1, Zenon DEF SignalOther, UnlockSignal, Signal, localVars, clientVars
  <2>13. CASE Unlock(t)
    <3>1. pc[t] \in After /\ {"done_signal", "reply"} \subseteq After
      BY <2>13, Zenon DEF Unlock, MutexIncrement, At, After
    <3>2. QED
      BY <2>1, <2>13, <3>1, Zenon DEF Unlock, MutexIncrement, localVars, clientVars
  <2>14. CASE HandleTmnt(t)
    <3>1. pc[t] \notin After /\ {"recv", "terminate_store"} \cap After = {}
      BY <2>14, Zenon DEF HandleTmnt, TerminateLoad, TerminateStore, At, After
    <3>2. QED
      BY <2>1, <2>14, <3>1, Zenon
         DEF HandleTmnt, TerminateLoad, TerminateStore, Return, localVars, bufferVars,
             clientVars
  <2>15. CASE Update(t)
    <3>1. /\ buffer \in 0..buffer_limit /\ buffer_limit \in Nat /\ ~ MustWait(t)
          /\ buffer' = IF label[t] = "PRODUCER" THEN buffer + 1 ELSE buffer - 1
      BY <2>15, Sel4LimitAssumption, Zenon DEF Update, At, BufferInv
    <3>2. PICK c \in Clients : /\ Asked[c] = label[t] /\ label[t] \in Requests
                               /\ Asked' = [Asked EXCEPT ![c] = "none"]
      BY <2>15, UpdateAsked, Zenon
    <3>3. CASE label[t] = "PRODUCER"
      <4>1. buffer < buffer_limit /\ buffer' = buffer + 1
        BY <3>1, <3>3 DEF MustWait
      <4>2. QED
        BY <3>2, <3>3, <4>1, Zenon DEF Buffer!Next, Buffer!Produce, Asked
    <3>4. CASE label[t] = "CONSUMER"
      <4>1. buffer > 0 /\ buffer' = buffer - 1
        BY <3>1, <3>4 DEF MustWait
      <4>2. QED
        BY <3>2, <3>4, <4>1, Zenon DEF Buffer!Next, Buffer!Consume, Asked
    <3>5. QED
      BY <3>2, <3>3, <3>4, Zenon DEF Requests
  <2>16. QED
    BY <1>3, <2>2, <2>3, <2>4, <2>5, <2>6, <2>7, <2>8, <2>9, <2>10, <2>11, <2>12,
       <2>13, <2>14, <2>15 DEF Server, HandleInit, HandleRequest
<1>4. QED
  BY <1>1, <1>2, <1>3, Zenon DEF Next, Terminated

-----------------------------------------------------------------------------
(* No sleeper is stranded. *)

Lists == {"producer_list", "consumer_list"}
Role(list) == IF list = "producer_list" THEN "PRODUCER" ELSE "CONSUMER"
Trying == {"save", "lock", "lock_wait", "test", "update"}
Leaving == {"unlock", "unlock_signal", "sleep"}

\* The buffer is empty for the producers, full for the consumers.
Open(list) == IF list = "producer_list" THEN buffer = 0 ELSE buffer = buffer_limit

Sleepers(list) == Range(ntfn[list].queue)

\* Somebody sleeps on the list, or has tested the buffer and is about to.
Gives(list) ==
    \/ Sleepers(list) # {}
    \/ \E t \in Threads : label[t] = Role(list) /\ pc[t] \in Leaving

\* Somebody of the role tests the buffer next, or signals the list next.
Tests(list) ==
    \E t \in Threads : /\ label[t] = Role(list) /\ pc[t] \in Trying
                       /\ t \notin Sleepers(list)
Signals(list) ==
    \E t \in Threads : label[t] \in Requests \ {Role(list)} /\ pc[t] = "signal"

\* A thread that has seen the buffer full (empty) and has not slept yet
\* counts as a sleeper: the signal may come before its wait.
WakeInv(list) ==
    /\ IsInjective(ntfn[list].queue)
    /\ ntfn[list].active => ntfn[list].queue = <<>>
    /\ \A t \in Sleepers(list) : label[t] = Role(list)
    /\ Open(list) /\ Gives(list) => ntfn[list].active \/ Tests(list) \/ Signals(list)

\* A thread moves and leaves the buffer and the list alone.
LEMMA WakeMoves ==
    ASSUME IInv, NEW list \in Lists, WakeInv(list), NEW t \in Threads, ~ Asleep(t),
           NEW where, Goto(t, where),
           \A s \in Threads : s # t => label'[s] = label[s],
           buffer' = buffer, ntfn'[list] = ntfn[list],
           pc[t] = "signal" => label[t] = Role(list),
           Open(list) /\ pc[t] \in Trying /\ label[t] = Role(list) =>
             where \in Trying /\ label'[t] = Role(list),
           Open(list) /\ where \in Leaving /\ label'[t] = Role(list) =>
             pc[t] \in Leaving /\ label[t] = Role(list)
    PROVE  WakeInv(list)'
<1>1. /\ pc'[t] = where
      /\ \A s \in Threads : s # t => pc'[s] = pc[s]
      /\ list \in Prims
      /\ \A s \in Sleepers(list) : s \in Threads
  BY RangeFacts, Zenon DEF Goto, IInv, LockType, NtfnInv, Lists, Prims, Sleepers
<1>2. t \notin Sleepers(list) /\ Sleepers(list)' = Sleepers(list)
  BY <1>1, Zenon DEF Asleep, Sleepers
<1>3. Open(list)' <=> Open(list)
  BY Zenon DEF Open
<1>4. \A s \in Sleepers(list)' : label'[s] = Role(list)
  BY <1>1, <1>2, Zenon DEF WakeInv
<1>5. ASSUME Open(list), Gives(list)' PROVE Gives(list)
  BY <1>1, <1>2, <1>5, Zenon DEF Gives
<1>6. ASSUME Open(list), Tests(list) PROVE Tests(list)'
  BY <1>1, <1>2, <1>6, Zenon DEF Tests
<1>7. ASSUME Signals(list) PROVE Signals(list)'
  <2>1. PICK s \in Threads : label[s] \in Requests \ {Role(list)} /\ pc[s] = "signal"
    BY <1>7, Zenon DEF Signals
  <2>2. s # t
    BY <2>1, Zenon
  <2>3. QED
    BY <1>1, <2>1, <2>2, Zenon DEF Signals
<1>8. IsInjective(ntfn'[list].queue) /\ (ntfn'[list].active => ntfn'[list].queue = <<>>)
  BY Zenon DEF WakeInv
<1>9. Open(list)' /\ Gives(list)' =>
        ntfn'[list].active \/ Tests(list)' \/ Signals(list)'
  BY <1>3, <1>5, <1>6, <1>7, Zenon DEF WakeInv
<1>10. QED
  BY <1>4, <1>8, <1>9, Zenon DEF WakeInv

\* A thread sleeps on the list, or takes its bit and will test the buffer.
LEMMA WakeSleeps ==
    ASSUME IInv, NEW list \in Lists, WakeInv(list), NEW t \in Threads, LoopSleep(t),
           list = OwnList(t)
    PROVE  WakeInv(list)'
<1>1. /\ pc[t] = "sleep" /\ ~ Asleep(t) /\ label' = label /\ buffer' = buffer
      /\ ntfn' = [ntfn EXCEPT ![list] = ReceiveSignal(@, t)]
      /\ pc' = [pc EXCEPT ![t] = "lock"]
  BY Zenon DEF LoopSleep, Wait, At, Goto, localVars
<1>2. /\ pc \in [Threads -> Places] /\ list \in Prims /\ list \in Lists
      /\ ntfn \in [Prims -> [active : BOOLEAN, queue : Seq(Threads)]]
  BY Zenon DEF IInv, LockType, NtfnInv, OwnList, Prims, Lists
<1>3. label[t] = Role(list)
  BY <1>1, Zenon DEF IInv, WorkInv, Work, Handling, Requests, OwnList, Role
<1>4. t \notin Sleepers(list) /\ ntfn[list].queue \in Seq(Threads)
  BY <1>1, <1>2, Zenon DEF Asleep, Sleepers
<1>5. Open(list)' <=> Open(list)
  BY <1>1, Zenon DEF Open
<1>6. /\ pc'[t] = "lock" /\ "lock" \in Trying
      /\ \A s \in Threads : s # t => pc'[s] = pc[s]
      /\ "sleep" \notin Trying /\ "sleep" # "signal"
  BY <1>1, <1>2, Zenon DEF Trying
<1>7. CASE ntfn[list].active
  <2>1. ntfn'[list] = [ntfn[list] EXCEPT !.active = FALSE]
    BY <1>1, <1>2, <1>7, Zenon DEF ReceiveSignal
  <2>2. ntfn'[list].queue = ntfn[list].queue /\ ~ ntfn'[list].active
    BY <1>2, <2>1, Zenon
  <2>3. Sleepers(list)' = Sleepers(list)
    BY <1>1, <2>2, Zenon DEF Sleepers
  <2>4. Tests(list)'
    BY <1>1, <1>3, <1>4, <1>6, <2>3, Zenon DEF Tests
  <2>5. QED
    BY <1>1, <2>2, <2>3, <2>4, Zenon DEF WakeInv
<1>8. CASE ~ ntfn[list].active
  <2>1. ntfn'[list] = [ntfn[list] EXCEPT !.queue = Append(@, t)]
    BY <1>1, <1>2, <1>8, Zenon DEF ReceiveSignal
  <2>2. ntfn'[list].queue = Append(ntfn[list].queue, t) /\ ~ ntfn'[list].active
    BY <1>2, <1>8, <2>1
  <2>3. /\ Sleepers(list)' = Sleepers(list) \cup {t}
        /\ IsInjective(ntfn'[list].queue)
    <3>1. t \notin Range(ntfn[list].queue) /\ IsInjective(ntfn[list].queue)
      BY <1>4, Zenon DEF Sleepers, WakeInv
    <3>2. /\ Range(Append(ntfn[list].queue, t)) = Range(ntfn[list].queue) \cup {t}
          /\ IsInjective(Append(ntfn[list].queue, t))
      BY <1>4, <3>1, AppendFacts
    <3>3. QED
      BY <2>2, <3>2, Zenon DEF Sleepers
  <2>4. \A s \in Sleepers(list)' : label'[s] = Role(list)
    BY <1>1, <1>3, <2>3, Zenon DEF WakeInv
  <2>5. Gives(list)
    BY <1>1, <1>3, Zenon DEF Gives, Leaving
  <2>6. ASSUME Tests(list) PROVE Tests(list)'
    <3>1. PICK s \in Threads : /\ label[s] = Role(list) /\ pc[s] \in Trying
                               /\ s \notin Sleepers(list)
      BY <2>6, Zenon DEF Tests
    <3>2. s # t
      BY <1>1, <1>6, <3>1, Zenon
    <3>3. QED
      BY <1>1, <1>6, <2>3, <3>1, <3>2, Zenon DEF Tests
  <2>7. ASSUME Signals(list) PROVE Signals(list)'
    BY <1>1, <1>6, <2>7, Zenon DEF Signals
  <2>8. Open(list)' => Tests(list)' \/ Signals(list)'
    BY <1>5, <1>8, <2>5, <2>6, <2>7, Zenon DEF WakeInv
  <2>9. QED
    BY <1>1, <2>2, <2>3, <2>4, <2>8, Zenon DEF WakeInv
<1>9. QED
  BY <1>7, <1>8, Zenon

\* A signal of the list wakes a sleeper, which will test the buffer, or sets
\* the bit.
LEMMA WakeSignals ==
    ASSUME IInv, NEW list \in Lists, WakeInv(list), NEW t \in Threads, SignalOther(t),
           list = OtherList(t)
    PROVE  WakeInv(list)'
<1>1. /\ pc[t] = "signal" /\ ~ Asleep(t) /\ label' = label /\ buffer' = buffer
      /\ ntfn' = [ntfn EXCEPT ![list] = SendSignal(@)]
      /\ pc' = [pc EXCEPT ![t] = "done"]
  BY Zenon DEF SignalOther, Signal, At, Goto, localVars
<1>2. /\ pc \in [Threads -> Places] /\ list \in Prims /\ list \in Lists
      /\ ntfn \in [Prims -> [active : BOOLEAN, queue : Seq(Threads)]]
      /\ ntfn[list].queue \in Seq(Threads)
  BY Zenon DEF IInv, LockType, NtfnInv, OtherList, Prims, Lists
<1>3. \A s \in Threads : s # t => pc'[s] = pc[s]
  BY <1>1, <1>2, Zenon
<1>4. t \notin Sleepers(list)
  BY <1>1, <1>2, Zenon DEF Asleep, Sleepers
<1>5. CASE ntfn[list].queue = <<>>
  <2>1. ntfn'[list] = [ntfn[list] EXCEPT !.active = TRUE]
    BY <1>1, <1>2, <1>5, Zenon DEF SendSignal
  <2>2. ntfn'[list].queue = <<>> /\ ntfn'[list].active
    BY <1>2, <1>5, <2>1, Zenon
  <2>3. Sleepers(list)' = Sleepers(list)
    BY <1>1, <1>5, <2>2, Zenon DEF Sleepers
  <2>4. QED
    BY <1>1, <1>5, <2>2, <2>3, Zenon DEF WakeInv
<1>6. CASE ntfn[list].queue # <<>>
  <2> DEFINE w == Head(ntfn[list].queue)
  <2>1. ntfn'[list] = [ntfn[list] EXCEPT !.queue = Tail(@)]
    BY <1>1, <1>2, <1>6, Zenon DEF SendSignal
  <2>2. ntfn'[list].queue = Tail(ntfn[list].queue) /\ ~ ntfn'[list].active
    BY <1>2, <1>6, <2>1 DEF WakeInv
  <2>3. /\ w \in Threads /\ Sleepers(list) = Sleepers(list)' \cup {w}
        /\ IsInjective(ntfn'[list].queue) /\ w \notin Sleepers(list)'
    BY <1>1, <1>2, <1>6, <2>2, TailFacts DEF Sleepers, WakeInv
  <2>4. label'[w] = Role(list) /\ pc'[w] = "lock"
    <3>1. w \in Sleepers(list) /\ list # "lock_global"
      BY <2>3, Zenon DEF OtherList
    <3>2. pc[w] = "lock" /\ label[w] = Role(list)
      BY <1>2, <3>1, Zenon DEF IInv, NtfnInv, WakeInv, Sleepers
    <3>3. QED
      BY <1>1, <1>3, <1>4, <2>3, <3>1, <3>2, Zenon
  <2>5. Tests(list)'
    BY <1>1, <2>3, <2>4, Zenon DEF Tests, Trying
  <2>6. \A s \in Sleepers(list)' : label'[s] = Role(list)
    BY <1>1, <2>3, Zenon DEF WakeInv
  <2>7. QED
    BY <1>1, <2>2, <2>3, <2>5, <2>6, Zenon DEF WakeInv
<1>7. QED
  BY <1>5, <1>6, Zenon

\* After an update the buffer is not open for the thread's own role, and the
\* thread is about to signal the other.
LEMMA WakeUpdates ==
    ASSUME IInv, BufferInv, NEW list \in Lists, WakeInv(list), NEW t \in Threads, Update(t)
    PROVE  WakeInv(list)'
<1>1. /\ pc[t] = "update" /\ label' = label /\ ntfn' = ntfn
      /\ buffer' = IF label[t] = "PRODUCER" THEN buffer + 1 ELSE buffer - 1
      /\ pc' = [pc EXCEPT ![t] = "signal"]
  BY Zenon DEF Update, At, Goto, localVars
<1>2. pc'[t] = "signal" /\ label[t] \in Requests
  BY <1>1, Zenon DEF IInv, LockType, WorkInv, Work, Handling
<1>3. Open(list)' => Signals(list)'
  <2>1. CASE label[t] = Role(list)
    <3>1. buffer \in 0..buffer_limit /\ buffer_limit \in Nat
      BY Sel4LimitAssumption, Zenon DEF BufferInv
    <3>2. ~ Open(list)'
      BY <1>1, <1>2, <2>1, <3>1 DEF Open, Role, Lists, Requests
    <3>3. QED
      BY <3>2, Zenon
  <2>2. CASE label[t] # Role(list)
    BY <1>1, <1>2, <2>2, Zenon DEF Signals
  <2>3. QED
    BY <2>1, <2>2, Zenon
<1>4. /\ IsInjective(ntfn'[list].queue)
      /\ ntfn'[list].active => ntfn'[list].queue = <<>>
      /\ \A s \in Sleepers(list)' : label'[s] = Role(list)
  BY <1>1, Zenon DEF WakeInv, Sleepers
<1>5. QED
  BY <1>3, <1>4, Zenon DEF WakeInv

\* WakeInv is inductive together with IInv and BufferInv.
LEMMA WakeStep ==
    ASSUME IInv, BufferInv, NEW list \in Lists, WakeInv(list), [Next]_vars
    PROVE  WakeInv(list)'
<1>1. CASE UNCHANGED vars
  BY <1>1, Zenon DEF WakeInv, Open, Gives, Tests, Signals, Sleepers, vars, localVars, bufferVars
<1>2. ASSUME NEW c \in Clients, Call(c) PROVE WakeInv(list)'
  BY <1>2, Zenon DEF WakeInv, Open, Gives, Tests, Signals, Sleepers, Call, localVars, bufferVars
<1>3. ASSUME NEW t \in Threads, Server(t) PROVE WakeInv(list)'
  <2>1. /\ label \in [Threads -> Labels \cup {"none"}] /\ pc \in [Threads -> Places]
        /\ DOMAIN ntfn = Prims /\ list \in Prims /\ list # "lock_global"
    BY Zenon DEF IInv, LockType, Lists, Prims
  <2>2. Role(list) \in Requests
    BY Zenon DEF Role, Requests
  <2>3. CASE Recv(t)
    <3>1. /\ req[Head(ep)] \in Labels
          /\ FirstStep(req[Head(ep)]) \in {"initial_client", "terminate", "save", "lock"}
      BY <2>3, EpFacts, Zenon DEF Recv, IInv
    <3>2. pc[t] = "recv" /\ "recv" \notin Trying /\ FirstStep(req[Head(ep)]) \notin Leaving
      BY <2>3, <3>1, Zenon DEF Recv, At, Trying, Leaving
    <3>3. QED
      BY <2>1, <2>3, <3>2, WakeMoves, Zenon DEF Recv, At, bufferVars
  <2>4. CASE Reply(t)
    <3>1. pc[t] = "reply" /\ "reply" \notin Trying /\ "recv" \notin Leaving
      BY <2>4, Zenon DEF Reply, At, Trying, Leaving
    <3>2. QED
      BY <2>1, <2>4, <3>1, WakeMoves, Zenon DEF Reply, Return, At, bufferVars
  <2>5. CASE InitialClientLoad(t) \/ InitialClientStore(t) \/ InitSave(t)
    <3>1. /\ pc[t] \notin Trying /\ pc[t] # "signal"
          /\ {"initial_client_store", "init_save", "client_barrier"} \cap Leaving = {}
      BY <2>5, Zenon DEF InitialClientLoad, InitialClientStore, InitSave, At, Trying, Leaving
    <3>2. QED
      BY <2>1, <2>5, <3>1, WakeMoves, Zenon
         DEF InitialClientLoad, InitialClientStore, InitSave, At, localVars, bufferVars
  <2>6. CASE ClientBarrier(t)
    <3>1. /\ pc[t] = "client_barrier" /\ "client_barrier" \notin Trying
          /\ {"recv", "multicast"} \cap Leaving = {}
      BY <2>6, Zenon DEF ClientBarrier, At, Trying, Leaving
    <3>2. QED
      BY <2>1, <2>6, <3>1, WakeMoves, Zenon DEF ClientBarrier, Return, At, bufferVars
  <2>7. CASE Multicast(t)
    <3>1. CASE pc' = pc /\ label' = label
      BY <2>7, <3>1, Zenon DEF Multicast, SendAnswer, bufferVars, WakeInv, Open, Gives, Tests,
                        Signals, Sleepers
    <3>2. CASE Return(t)
      <4>1. /\ pc[t] = "multicast" /\ "multicast" \notin Trying
            /\ "recv" \notin Leaving
        BY <2>7, Zenon DEF Multicast, SendAnswer, At, Trying, Leaving
      <4>2. QED
        BY <2>1, <2>7, <3>2, <4>1, WakeMoves, Zenon
           DEF Multicast, SendAnswer, Return, At, bufferVars
    <3>3. QED
      BY <2>7, <3>1, <3>2, Zenon DEF Multicast, SendAnswer
  <2>8. CASE HandleTmnt(t)
    <3>1. /\ pc[t] \in {"terminate", "terminate_store"}
          /\ {"terminate", "terminate_store"} \cap Trying = {}
          /\ {"recv", "terminate_store"} \cap Leaving = {}
      BY <2>8, Zenon DEF HandleTmnt, TerminateLoad, TerminateStore, At, Trying, Leaving
    <3>2. QED
      BY <2>1, <2>8, <3>1, WakeMoves, Zenon
         DEF HandleTmnt, TerminateLoad, TerminateStore, Return, At, localVars, bufferVars
  <2>9. CASE Save(t)
    <3>1. pc[t] = "save" /\ "lock" \in Trying /\ "lock" \notin Leaving
      BY <2>9, Zenon DEF Save, At, Trying, Leaving
    <3>2. QED
      BY <2>1, <2>9, <3>1, WakeMoves, Zenon DEF Save, At, bufferVars
  <2>10. CASE Lock(t)
    <3>1. /\ pc[t] = "lock" /\ {"lock_wait", "test"} \subseteq Trying
          /\ {"lock_wait", "test"} \cap Leaving = {}
      BY <2>10, Zenon DEF Lock, MutexDecrement, At, Trying, Leaving
    <3>2. QED
      BY <2>1, <2>10, <3>1, WakeMoves, Zenon DEF Lock, MutexDecrement, At, localVars
  <2>11. CASE LockWait(t)
    <3>1. pc[t] = "lock_wait" /\ "test" \in Trying /\ "test" \notin Leaving
      BY <2>11, Zenon DEF LockWait, Wait, At, Trying, Leaving
    <3>2. ntfn'[list] = ntfn[list]
      BY <2>1, <2>11, Zenon DEF LockWait, Wait
    <3>3. QED
      BY <2>1, <2>11, <3>1, <3>2, WakeMoves, Zenon DEF LockWait, Wait, At, localVars
  <2>12. CASE Test(t)
    <3>1. /\ pc[t] = "test" /\ "update" \in Trying /\ "update" \notin Leaving
          /\ label[t] \in Requests
      BY <2>12, Zenon DEF Test, At, Trying, Leaving, IInv, WorkInv, Work, Handling
    <3>2. Open(list) /\ label[t] = Role(list) => ~ MustWait(t)
      BY Sel4LimitAssumption, Zenon DEF Open, Role, MustWait
    <3>3. QED
      BY <2>1, <2>12, <3>1, <3>2, WakeMoves, Zenon DEF Test, At, localVars, bufferVars
  <2>13. CASE LoopUnlock(t)
    <3>1. /\ pc[t] = "unlock" /\ "unlock" \notin Trying /\ "unlock" \in Leaving
      BY <2>13, Zenon DEF LoopUnlock, MutexIncrement, At, Trying, Leaving
    <3>2. QED
      BY <2>1, <2>13, <3>1, WakeMoves, Zenon DEF LoopUnlock, MutexIncrement, At, localVars
  <2>14. CASE LoopUnlockSignal(t)
    <3>1. /\ pc[t] = "unlock_signal" /\ "unlock_signal" \notin Trying
          /\ "unlock_signal" \in Leaving
      BY <2>14, Zenon DEF LoopUnlockSignal, Signal, At, Trying, Leaving
    <3>2. ntfn'[list] = ntfn[list]
      BY <2>1, <2>14, Zenon DEF LoopUnlockSignal, Signal
    <3>3. QED
      BY <2>1, <2>14, <3>1, <3>2, WakeMoves, Zenon DEF LoopUnlockSignal, Signal, At, localVars
  <2>15. CASE LoopSleep(t)
    <3>1. CASE list = OwnList(t)
      BY <2>15, <3>1, WakeSleeps, Zenon
    <3>2. CASE list # OwnList(t)
      <4>1. pc[t] = "sleep" /\ "sleep" \notin Trying /\ "lock" \notin Leaving
        BY <2>15, Zenon DEF LoopSleep, Wait, At, Trying, Leaving
      <4>2. ntfn'[list] = ntfn[list]
        BY <2>1, <2>15, <3>2, Zenon DEF LoopSleep, Wait
      <4>3. QED
        BY <2>1, <2>15, <4>1, <4>2, WakeMoves, Zenon DEF LoopSleep, Wait, At, localVars
    <3>3. QED
      BY <3>1, <3>2, Zenon
  <2>16. CASE Update(t)
    BY <2>16, WakeUpdates, Zenon
  <2>17. CASE SignalOther(t)
    <3>1. CASE list = OtherList(t)
      BY <2>17, <3>1, WakeSignals, Zenon
    <3>2. CASE list # OtherList(t)
      <4>1. pc[t] = "signal" /\ "signal" \notin Trying /\ "done" \notin Leaving
        BY <2>17, Zenon DEF SignalOther, Signal, At, Trying, Leaving
      <4>2. ntfn'[list] = ntfn[list]
        BY <2>1, <2>17, <3>2, Zenon DEF SignalOther, Signal
      <4>3. label[t] = Role(list)
        BY <3>2, <4>1, Zenon DEF IInv, WorkInv, Work, Handling, Requests, OtherList, Role, Lists
      <4>4. QED
        BY <2>1, <2>17, <4>1, <4>2, <4>3, WakeMoves, Zenon DEF SignalOther, Signal, At, localVars
    <3>3. QED
      BY <3>1, <3>2, Zenon
  <2>18. CASE Unlock(t)
    <3>1. /\ pc[t] = "done" /\ "done" \notin Trying
          /\ {"done_signal", "reply"} \cap Leaving = {}
      BY <2>18, Zenon DEF Unlock, MutexIncrement, At, Trying, Leaving
    <3>2. QED
      BY <2>1, <2>18, <3>1, WakeMoves, Zenon DEF Unlock, MutexIncrement, At, localVars
  <2>19. CASE UnlockSignal(t)
    <3>1. /\ pc[t] = "done_signal" /\ "done_signal" \notin Trying /\ "reply" \notin Leaving
      BY <2>19, Zenon DEF UnlockSignal, Signal, At, Trying, Leaving
    <3>2. ntfn'[list] = ntfn[list]
      BY <2>1, <2>19, Zenon DEF UnlockSignal, Signal
    <3>3. QED
      BY <2>1, <2>19, <3>1, <3>2, WakeMoves, Zenon DEF UnlockSignal, Signal, At, localVars
  <2>20. QED
    BY <1>3, <2>3, <2>4, <2>5, <2>6, <2>7, <2>8, <2>9, <2>10, <2>11, <2>12, <2>13, <2>14,
       <2>15, <2>16, <2>17, <2>18, <2>19 DEF Server, HandleInit, HandleRequest
<1>4. QED
  BY <1>1, <1>2, <1>3, Zenon DEF Next, Terminated

\* Nobody sleeps at the start.
LEMMA WakeInit == Init => \A list \in Lists : WakeInv(list)
<1> SUFFICES ASSUME Init, NEW list \in Lists PROVE WakeInv(list)
  BY Zenon
<1>1. ntfn[list] = [active |-> FALSE, queue |-> <<>>]
  BY Zenon DEF Init, NtfnIdle, Lists, Prims
<1>2. Sleepers(list) = {} /\ IsInjective(ntfn[list].queue) /\ ntfn[list].queue = <<>>
  <2>1. ntfn[list].queue = <<>>
    BY <1>1
  <2>2. Range(<<>>) = {} /\ IsInjective(<<>>)
    BY DEF Range, IsInjective
  <2>3. QED
    BY <2>1, <2>2, Zenon DEF Sleepers
<1>3. ~ Gives(list)
  BY <1>2, Zenon DEF Init, Gives, Leaving
<1>4. QED
  BY <1>2, <1>3, Zenon DEF WakeInv

\* With a buffer of one item, open is all that the property asks for.
LEMMA WakeOne ==
    ASSUME buffer_limit = 1, IInv, BufferInv, \A list \in Lists : WakeInv(list)
    PROVE  NoStranding
<1>1. buffer \in 0..1
  BY Zenon DEF BufferInv
<1>2. ASSUME NEW list \in Lists, ntfn[list].queue # <<>>, Open(list)
      PROVE  \/ WillTest(Role(list), list) # {}
             \/ \E t \in Threads : label[t] \in Requests \ {Role(list)} /\ pc[t] = "signal"
  <2>1. Sleepers(list) # {} /\ ~ ntfn[list].active
    <3>1. ntfn[list].queue \in Seq(Threads)
      BY Zenon DEF IInv, NtfnInv, Lists, Prims
    <3>2. Range(ntfn[list].queue) # {}
      BY <1>2, <3>1, EmptyFacts, Zenon
    <3>3. QED
      BY <1>2, <3>2, Zenon DEF Sleepers, WakeInv
  <2>2. Tests(list) \/ Signals(list)
    BY <1>2, <2>1, Zenon DEF WakeInv, Gives
  <2>3. Tests(list) => WillTest(Role(list), list) # {}
    BY Zenon DEF Tests, WillTest, Trying, Sleepers
  <2>4. QED
    BY <2>2, <2>3, Zenon DEF Signals
<1>3. /\ buffer < buffer_limit => Open("producer_list")
      /\ buffer > 0 => Open("consumer_list")
  BY <1>1 DEF Open
<1>4. /\ "producer_list" \in Lists /\ Role("producer_list") = "PRODUCER"
      /\ "consumer_list" \in Lists /\ Role("consumer_list") = "CONSUMER"
      /\ Requests \ {"PRODUCER"} = {"CONSUMER"}
      /\ Requests \ {"CONSUMER"} = {"PRODUCER"}
  BY Zenon DEF Lists, Role, Requests
<1>5. QED
  BY <1>2, <1>3, <1>4, Zenon DEF NoStranding

-----------------------------------------------------------------------------
(* The ids of the clients. *)

\* A thread in INIT before it has entered the reply capability in reply_eps;
\* after its load of client_new it holds an id.
InitPlaces == {"initial_client", "initial_client_store", "init_save"}
Holding == {"initial_client_store", "init_save"}

\* Client c has been given id k: its thread has loaded it, the reply
\* capability is entered under it, or c has been told.
Owns(c, k) ==
    \/ \E t \in Threads : caller[t] = c /\ pc[t] \in Holding /\ i[t] = k
    \/ reply_eps[k] = c
    \/ id[c] = k
Owned(k) == \E c \in Clients : Owns(c, k)

\* The unlocked load and store of client_new may lose increments and give an
\* id twice.  But a count of n is only stored after the ids below n have all
\* been given.
IdInv ==
    /\ \A c \in Clients : req[c] = "INIT" => id[c] = -1
    /\ \A t \in Threads : pc[t] \in InitPlaces =>
         caller[t] \in Clients /\ req[caller[t]] = "INIT"
    /\ \A k \in ClientIds : reply_eps[k] \in Clients => req[reply_eps[k]] = "INIT"
    /\ \A t \in Threads : pc[t] \in Holding => i[t] \in ClientIds
    /\ id \in [Clients -> ClientIds \cup {-1}]

CountInv ==
    /\ client_new \in 0..client_num
    /\ \A k \in ClientIds : k < client_new => Owned(k)
    /\ \A t \in Threads : pc[t] = "initial_client_store" =>
         \A k \in ClientIds : k <= i[t] => Owned(k)
    /\ (\E t \in Threads : pc[t] = "multicast") \/ (\E c \in Clients : id[c] # -1) =>
         \A k \in ClientIds : Owned(k)

\* The number of clients and the ids.
LEMMA IdFacts ==
    /\ client_num \in Nat /\ client_num # 0
    /\ ClientIds \subseteq Nat /\ -1 \notin ClientIds
    /\ \A k \in ClientIds : k + 1 \in 0..client_num
<1>1. client_num \in Nat /\ client_num # 0
  BY Sel4ClientsAssumption, Zenon
<1>2. QED
  BY <1>1 DEF ClientIds

\* There are as many ids as clients: different clients for all the ids are all
\* the clients (lemma ClientsCounted, below).
Counted ==
    \A f \in [ClientIds -> Clients] :
      (\A k, j \in ClientIds : f[k] = f[j] => k = j) =>
        \A c \in Clients : \E k \in ClientIds : f[k] = c

\* A client has one id at most.
LEMMA OwnsOne ==
    ASSUME IInv, IdInv, NEW c \in Clients, NEW k \in ClientIds, NEW j \in ClientIds,
           Owns(c, k), Owns(c, j)
    PROVE  k = j
<1>1. /\ \A t \in Threads : CallerCap(t)
      /\ \A m \in ClientIds : EpsCap(m)
  BY Zenon DEF IInv, CapInv
<1>2. -1 \notin ClientIds /\ Holding \subseteq InitPlaces
  BY IdFacts, Zenon DEF Holding, InitPlaces
<1>3. CASE id[c] \in ClientIds
  <2>1. req[c] # "INIT"
    BY <1>2, <1>3, Zenon DEF IdInv
  <2>2. \A m \in ClientIds : Owns(c, m) => id[c] = m
    BY <1>2, <2>1, Zenon DEF Owns, IdInv
  <2>3. QED
    BY <2>2, Zenon
<1>4. CASE id[c] \notin ClientIds
  <2>1. CASE \E m \in ClientIds : reply_eps[m] = c
    <3>1. PICK m \in ClientIds : reply_eps[m] = c
      BY <2>1, Zenon
    <3>2. \A t \in Threads : caller[t] # c
      BY <1>1, <3>1, Zenon DEF CallerCap
    <3>3. \A n \in ClientIds : reply_eps[n] = c => n = m
      BY <1>1, <3>1, Zenon DEF EpsCap
    <3>4. QED
      BY <1>4, <3>2, <3>3 DEF Owns
  <2>2. CASE ~ \E m \in ClientIds : reply_eps[m] = c
    <3>1. /\ \E t \in Threads : caller[t] = c /\ i[t] = k
          /\ \E t \in Threads : caller[t] = c /\ i[t] = j
      BY <1>4, <2>2, Zenon DEF Owns
    <3>2. QED
      BY <1>1, <3>1, Zenon DEF CallerCap
  <2>3. QED
    BY <2>1, <2>2, Zenon
<1>5. QED
  BY <1>3, <1>4, Zenon

\* When every id is given, every client has one and no two clients share it:
\* there are as many ids as clients.
LEMMA AllOwned ==
    ASSUME Counted, IInv, IdInv, \A k \in ClientIds : Owned(k)
    PROVE  /\ \A c \in Clients : \E k \in ClientIds : Owns(c, k)
           /\ \A c, d \in Clients : \A k \in ClientIds :
                Owns(c, k) /\ Owns(d, k) => c = d
<1> DEFINE f == [k \in ClientIds |-> CHOOSE c \in Clients : Owns(c, k)]
<1>1. \A k \in ClientIds : f[k] \in Clients /\ Owns(f[k], k)
  BY Zenon DEF Owned
<1>2. f \in [ClientIds -> Clients]
  BY <1>1, Zenon
<1>3. \A k, j \in ClientIds : f[k] = f[j] => k = j
  BY <1>1, OwnsOne, Zenon
<1> HIDE DEF f
<1>4. \A c \in Clients : \E k \in ClientIds : f[k] = c
  BY <1>2, <1>3, Zenon DEF Counted
<1>5. ASSUME NEW c \in Clients, NEW k \in ClientIds, Owns(c, k) PROVE c = f[k]
  <2>1. PICK j \in ClientIds : f[j] = c
    BY <1>4, Zenon
  <2>2. Owns(c, j)
    BY <1>1, <2>1, Zenon
  <2>3. k = j
    BY <1>5, <2>2, OwnsOne, Zenon
  <2>4. QED
    BY <2>1, <2>3, Zenon
<1>6. QED
  BY <1>1, <1>4, <1>5

\* A thread that has not loaded client_new yet finds less than client_num
\* there, and its load is in the bounds of reply_eps.
LEMMA LoadInBounds ==
    ASSUME Counted, IInv, IdInv, CountInv, NEW t \in Threads, pc[t] = "initial_client"
    PROVE  client_new \in ClientIds
<1> DEFINE c == caller[t]
<1>1. c \in Clients /\ req[c] = "INIT" /\ id[c] = -1
  BY Zenon DEF IdInv, InitPlaces
<1>2. ASSUME NEW k \in ClientIds PROVE ~ Owns(c, k)
  <2>1. CallerCap(t) /\ -1 \notin ClientIds /\ "initial_client" \notin Holding
    BY IdFacts, Zenon DEF IInv, CapInv, Holding
  <2>2. QED
    BY <1>1, <1>2, <2>1, Zenon DEF Owns, CallerCap
<1>3. client_new # client_num
  <2>1. client_new = client_num => \A k \in ClientIds : Owned(k)
    BY IdFacts DEF CountInv, ClientIds
  <2>2. QED
    BY <1>1, <1>2, <2>1, AllOwned, Zenon
<1>4. QED
  BY <1>3, IdFacts DEF CountInv, ClientIds

\* Steps that leave the threads in INIT, the slots, the count and the ids
\* alone.
LEMMA IdsElsewhere ==
    ASSUME IdInv, CountInv,
           \A s \in Threads : pc[s] \in InitPlaces \/ pc'[s] \in InitPlaces =>
             pc'[s] = pc[s] /\ caller'[s] = caller[s] /\ i'[s] = i[s],
           \A s \in Threads : pc'[s] = "multicast" =>
             pc[s] = "multicast" \/ client_new = client_num,
           UNCHANGED <<reply_eps, client_new, id>>,
           \A c \in Clients : req[c] = "INIT" => req'[c] = "INIT",
           \A c \in Clients : req'[c] = "INIT" => id[c] = -1
    PROVE  IdInv' /\ CountInv'
<1>1. Holding \subseteq InitPlaces /\ "initial_client_store" \in Holding
  BY Zenon DEF Holding, InitPlaces
<1>2. IdInv'
  BY <1>1, Zenon DEF IdInv
<1>3. \A k \in ClientIds : Owned(k) => Owned(k)'
  <2> SUFFICES ASSUME NEW k \in ClientIds, NEW c \in Clients, Owns(c, k) PROVE Owns(c, k)'
    BY Zenon DEF Owned
  <2>1. QED
    BY <1>1, Zenon DEF Owns
<1>4. client_new = client_num => \A k \in ClientIds : Owned(k)
  BY IdFacts DEF CountInv, ClientIds
<1>5. QED
  BY <1>1, <1>2, <1>3, <1>4, Zenon DEF CountInv

\* Only thread t moves, in INIT, and the clients wait.
LEMMA IdsThread ==
    ASSUME IInv, IdInv, CountInv, NEW t \in Threads,
           \A s \in Threads : s # t =>
             pc'[s] = pc[s] /\ caller'[s] = caller[s] /\ i'[s] = i[s],
           pc[t] \in Holding => pc'[t] \in Holding /\ caller'[t] = caller[t] /\ i'[t] = i[t],
           pc'[t] \in InitPlaces => caller'[t] \in Clients /\ req[caller'[t]] = "INIT",
           pc'[t] \in Holding => i'[t] \in ClientIds,
           UNCHANGED <<reply_eps, id, req>>
    PROVE  IdInv' /\ \A k \in ClientIds : Owned(k) => Owned(k)'
<1>1. Holding \subseteq InitPlaces
  BY Zenon DEF Holding, InitPlaces
<1>2. IdInv'
  BY <1>1, Zenon DEF IdInv
<1>3. ASSUME NEW k \in ClientIds, NEW c \in Clients, Owns(c, k) PROVE Owns(c, k)'
  BY <1>3, Zenon DEF Owns
<1>4. QED
  BY <1>2, <1>3, Zenon DEF Owned

\* A client's INIT is received.
LEMMA IdsRecv ==
    ASSUME IInv, IdInv, CountInv, NEW t \in Threads, Recv(t)
    PROVE  IdInv' /\ CountInv'
<1>1. /\ pc[t] = "recv" /\ pc' = [pc EXCEPT ![t] = FirstStep(req[Head(ep)])]
      /\ caller' = [caller EXCEPT ![t] = Head(ep)] /\ ep # <<>>
      /\ UNCHANGED <<i, reply_eps, client_new, id, req>>
  BY Zenon DEF Recv, At, Goto, initVars
<1>2. /\ pc \in [Threads -> Places] /\ Head(ep) \in Clients /\ req[Head(ep)] \in Labels
      /\ caller \in [Threads -> Clients \cup {NoClient}]
  BY <1>1, EpFacts, Zenon DEF IInv, LockType, RestType
<1>3. /\ "recv" \notin InitPlaces /\ Holding \subseteq InitPlaces
      /\ "multicast" \notin InitPlaces /\ "initial_client_store" \in Holding
      /\ {"terminate", "save", "lock"} \cap (InitPlaces \cup {"multicast"}) = {}
      /\ "initial_client" \in InitPlaces \ Holding
  BY Zenon DEF InitPlaces, Holding
<1>4. /\ pc'[t] = FirstStep(req[Head(ep)]) /\ caller'[t] = Head(ep)
      /\ \A s \in Threads : s # t => pc'[s] = pc[s] /\ caller'[s] = caller[s]
  BY <1>1, <1>2, Zenon
<1>5. CASE req[Head(ep)] = "INIT"
  <2>1. pc'[t] = "initial_client"
    BY <1>4, <1>5, Zenon DEF FirstStep
  <2>2. IdInv' /\ \A k \in ClientIds : Owned(k) => Owned(k)'
    BY <1>1, <1>2, <1>3, <1>4, <1>5, <2>1, IdsThread
  <2>3. \A s \in Threads : pc'[s] \in {"initial_client_store", "multicast"} => pc[s] = pc'[s]
    BY <1>3, <1>4, <2>1, Zenon
  <2>4. QED
    BY <1>1, <2>2, <2>3, Zenon DEF CountInv
<1>6. CASE req[Head(ep)] # "INIT"
  <2>1. pc'[t] \in {"terminate", "save", "lock"}
    BY <1>2, <1>4, <1>6, Zenon DEF FirstStep, Labels
  <2>2. \A c \in Clients : req'[c] = "INIT" => id[c] = -1
    BY <1>1, Zenon DEF IdInv
  <2>3. QED
    BY <1>1, <1>3, <1>4, <2>1, <2>2, IdsElsewhere, Zenon
<1>7. QED
  BY <1>5, <1>6, Zenon

\* initial_client loads the count: the next id.
LEMMA IdsLoad ==
    ASSUME Counted, IInv, IdInv, CountInv, NEW t \in Threads, InitialClientLoad(t)
    PROVE  IdInv' /\ CountInv'
<1>1. /\ pc[t] = "initial_client" /\ pc' = [pc EXCEPT ![t] = "initial_client_store"]
      /\ i' = [i EXCEPT ![t] = client_new]
      /\ UNCHANGED <<caller, reply_eps, client_new, id, req>>
  BY Zenon DEF InitialClientLoad, At, Goto, initVars, clientVars
<1>2. client_new \in ClientIds
  BY <1>1, LoadInBounds, Zenon
<1>3. /\ pc'[t] = "initial_client_store" /\ i'[t] = client_new
      /\ \A s \in Threads : s # t => pc'[s] = pc[s] /\ i'[s] = i[s]
  BY <1>1, Zenon DEF IInv, LockType, RestType
<1>4. /\ "initial_client" \in InitPlaces \ Holding
      /\ "initial_client_store" \in Holding
  BY Zenon DEF InitPlaces, Holding
<1>5. caller[t] \in Clients /\ req[caller[t]] = "INIT"
  BY <1>1, <1>4, Zenon DEF IdInv
<1>6. IdInv' /\ \A k \in ClientIds : Owned(k) => Owned(k)'
  BY <1>1, <1>2, <1>3, <1>4, <1>5, IdsThread
<1>7. ASSUME NEW k \in ClientIds, k = client_new PROVE Owned(k)'
  <2>1. Owns(caller[t], k)'
    BY <1>1, <1>3, <1>4, <1>7, Zenon DEF Owns
  <2>2. QED
    BY <1>1, <1>5, <2>1, Zenon DEF Owned
<1>8. ASSUME NEW k \in ClientIds, k <= client_new PROVE Owned(k)'
  <2>1. k < client_new \/ k = client_new
    BY <1>2, <1>8, IdFacts
  <2>2. QED
    BY <1>6, <1>7, <2>1, Zenon DEF CountInv
<1>9. QED
  BY <1>1, <1>3, <1>6, <1>8 DEF CountInv

\* The store of the count: all ids up to the thread's own are given.
LEMMA IdsStore ==
    ASSUME IInv, IdInv, CountInv, NEW t \in Threads, InitialClientStore(t)
    PROVE  IdInv' /\ CountInv'
<1>1. /\ pc[t] = "initial_client_store" /\ pc' = [pc EXCEPT ![t] = "init_save"]
      /\ client_new' = i[t] + 1
      /\ UNCHANGED <<i, caller, reply_eps, id, req>>
  BY Zenon DEF InitialClientStore, At, Goto, localVars, clientVars
<1>2. /\ pc'[t] = "init_save"
      /\ \A s \in Threads : s # t => pc'[s] = pc[s]
  BY <1>1, Zenon DEF IInv, LockType
<1>3. /\ "initial_client_store" \in Holding /\ "init_save" \in Holding
      /\ Holding \subseteq InitPlaces
  BY Zenon DEF InitPlaces, Holding
<1>4. i[t] \in ClientIds /\ caller[t] \in Clients /\ req[caller[t]] = "INIT"
  BY <1>1, <1>3, Zenon DEF IdInv
<1>5. IdInv' /\ \A k \in ClientIds : Owned(k) => Owned(k)'
  BY <1>1, <1>2, <1>3, <1>4, IdsThread, Zenon
<1>6. client_new' \in 0..client_num
  BY <1>1, <1>4, IdFacts, Zenon
<1>7. ASSUME NEW k \in ClientIds, k < client_new' PROVE Owned(k)'
  <2>1. k \in Nat /\ i[t] \in Nat /\ k < i[t] + 1
    BY <1>1, <1>4, <1>7, IdFacts, Zenon
  <2>2. k <= i[t]
    BY <2>1
  <2>3. Owned(k)
    BY <1>1, <2>2, Zenon DEF CountInv
  <2>4. QED
    BY <1>5, <2>3, Zenon
<1>8. QED
  BY <1>1, <1>2, <1>5, <1>6, <1>7, Zenon DEF CountInv

\* The reply capability is entered under the id, over another client's if
\* both were given that id.
LEMMA IdsSave ==
    ASSUME IInv, IdInv, CountInv, NEW t \in Threads, InitSave(t)
    PROVE  IdInv' /\ CountInv'
<1> DEFINE c == caller[t]
<1>1. /\ pc[t] = "init_save" /\ pc' = [pc EXCEPT ![t] = "client_barrier"]
      /\ reply_eps' = [reply_eps EXCEPT ![i[t]] = c]
      /\ caller' = [caller EXCEPT ![t] = NoClient]
      /\ UNCHANGED <<i, client_new, id, req>>
  BY Zenon DEF InitSave, At, Goto, clientVars
<1>2. /\ pc'[t] = "client_barrier"
      /\ \A s \in Threads : s # t => pc'[s] = pc[s] /\ caller'[s] = caller[s]
  BY <1>1, Zenon DEF IInv, LockType, RestType
<1>3. /\ "init_save" \in Holding /\ Holding \subseteq InitPlaces
      /\ "client_barrier" \notin InitPlaces
      /\ "client_barrier" # "initial_client_store" /\ "client_barrier" # "multicast"
  BY Zenon DEF InitPlaces, Holding
<1>4. i[t] \in ClientIds /\ c \in Clients /\ req[c] = "INIT"
  BY <1>1, <1>3, Zenon DEF IdInv
<1>5. /\ reply_eps'[i[t]] = c
      /\ \A k \in ClientIds : k # i[t] => reply_eps'[k] = reply_eps[k]
  BY <1>1, <1>4, Zenon DEF IInv, RestType
<1>6. IdInv'
  <2>1. \A s \in Threads : pc'[s] \in InitPlaces => s # t
    BY <1>2, <1>3, Zenon
  <2>2. \A k \in ClientIds : reply_eps'[k] \in Clients => req'[reply_eps'[k]] = "INIT"
    BY <1>1, <1>4, <1>5, Zenon DEF IdInv
  <2>3. ASSUME NEW s \in Threads, pc'[s] \in InitPlaces
        PROVE  caller'[s] \in Clients /\ req'[caller'[s]] = "INIT"
    <3>1. s # t /\ pc[s] \in InitPlaces /\ caller'[s] = caller[s]
      BY <1>2, <2>1, <2>3, Zenon
    <3>2. caller[s] \in Clients /\ req[caller[s]] = "INIT"
      BY <3>1, Zenon DEF IdInv
    <3>3. QED
      BY <1>1, <3>1, <3>2, Zenon
  <2>4. ASSUME NEW s \in Threads, pc'[s] \in Holding
        PROVE  i'[s] \in ClientIds
    BY <1>1, <1>2, <1>3, <2>1, <2>4, Zenon DEF IdInv
  <2>5. /\ \A d \in Clients : req'[d] = "INIT" => id'[d] = -1
        /\ id' \in [Clients -> ClientIds \cup {-1}]
    BY <1>1, Zenon DEF IdInv
  <2>6. QED
    BY <2>2, <2>3, <2>4, <2>5, Zenon DEF IdInv
<1>7. ASSUME NEW k \in ClientIds, Owned(k) PROVE Owned(k)'
  <2>1. CASE k = i[t]
    BY <1>4, <1>5, <2>1, Zenon DEF Owned, Owns
  <2>2. CASE k # i[t]
    <3>1. PICK d \in Clients : Owns(d, k)
      BY <1>7, Zenon DEF Owned
    <3>2. Owns(d, k)'
      BY <1>1, <1>2, <1>5, <2>2, <3>1, Zenon DEF Owns
    <3>3. QED
      BY <3>2, Zenon DEF Owned
  <2>3. QED
    BY <2>1, <2>2, Zenon
<1>8. QED
  BY <1>1, <1>2, <1>3, <1>6, <1>7, Zenon DEF CountInv

\* The client of a slot is told the slot's number, once.
LEMMA IdsMulticast ==
    ASSUME IInv, IdInv, CountInv, NEW t \in Threads, Multicast(t)
    PROVE  IdInv' /\ CountInv'
<1> DEFINE c == reply_eps[i[t]]
<1>1. /\ pc[t] = "multicast"
      /\ reply_eps' = [reply_eps EXCEPT ![i[t]] = NoClient]
      /\ req' = [d \in Clients |-> IF d = c THEN "none" ELSE req[d]]
      /\ id' = [d \in Clients |-> IF d = c THEN i[t] ELSE id[d]]
      /\ UNCHANGED <<caller, client_new>>
  BY Zenon DEF Multicast, SendAnswer, At
<1>2. i[t] \in ClientIds /\ NoClient \notin Clients
  BY <1>1, Sel4ClientsAssumption, Zenon DEF IInv, WorkInv, Work
<1>3. /\ pc'[t] \in {"multicast", "recv"}
      /\ \A s \in Threads : s # t => pc'[s] = pc[s] /\ i'[s] = i[s]
  BY Zenon DEF Multicast, SendAnswer, At, Return, Goto, IInv, LockType, RestType
<1>4. /\ {"multicast", "recv"} \cap InitPlaces = {} /\ Holding \subseteq InitPlaces
      /\ "initial_client_store" \in Holding
  BY Zenon DEF InitPlaces, Holding
<1>5. /\ reply_eps'[i[t]] = NoClient
      /\ \A k \in ClientIds : k # i[t] => reply_eps'[k] = reply_eps[k]
  BY <1>1, <1>2, Zenon DEF IInv, RestType
<1>6. IdInv'
  <2>1. \A d \in Clients : req'[d] = "INIT" => id'[d] = -1
    BY <1>1, Zenon DEF IdInv
  <2>2. ASSUME NEW s \in Threads, pc'[s] \in InitPlaces
        PROVE  caller'[s] \in Clients /\ req'[caller'[s]] = "INIT"
    <3>1. s # t /\ pc[s] \in InitPlaces
      BY <1>3, <1>4, <2>2, Zenon
    <3>2. caller[s] \in Clients /\ req[caller[s]] = "INIT"
      BY <3>1, Zenon DEF IdInv
    <3>3. caller[s] # c
      BY <1>2, <3>2, Zenon DEF IInv, CapInv, CallerCap
    <3>4. QED
      BY <1>1, <3>2, <3>3, Zenon
  <2>3. ASSUME NEW k \in ClientIds, reply_eps'[k] \in Clients
        PROVE  req'[reply_eps'[k]] = "INIT"
    <3>1. k # i[t] /\ reply_eps'[k] = reply_eps[k]
      BY <1>2, <1>5, <2>3, Zenon
    <3>2. reply_eps[k] # c
      BY <1>2, <2>3, <3>1, Zenon DEF IInv, CapInv, EpsCap
    <3>3. QED
      BY <1>1, <2>3, <3>1, <3>2, Zenon DEF IdInv
  <2>4. \A s \in Threads : pc'[s] \in Holding => i'[s] \in ClientIds
    BY <1>3, <1>4, Zenon DEF IdInv
  <2>5. id' \in [Clients -> ClientIds \cup {-1}]
    BY <1>1, <1>2, Zenon DEF IdInv
  <2>6. QED
    BY <2>1, <2>2, <2>3, <2>4, <2>5, Zenon DEF IdInv
<1>7. ASSUME NEW k \in ClientIds PROVE Owned(k)'
  <2>1. PICK d \in Clients : Owns(d, k)
    BY <1>1, Zenon DEF CountInv, Owned
  <2>2. CASE k = i[t] /\ d = c
    <3>1. id'[d] = k
      BY <1>1, <2>2, Zenon
    <3>2. QED
      BY <3>1, Zenon DEF Owned, Owns
  <2>3. CASE id[d] = k
    <3>1. d # c
      <4>1. -1 \notin ClientIds
        BY IdFacts, Zenon
      <4>2. QED
        BY <1>2, <2>3, <4>1 DEF IdInv
    <3>2. id'[d] = k
      BY <1>1, <2>3, <3>1, Zenon
    <3>3. QED
      BY <3>2, Zenon DEF Owned, Owns
  <2>4. CASE reply_eps[k] = d /\ k # i[t]
    BY <1>5, <2>4, Zenon DEF Owned, Owns
  <2>5. CASE \E s \in Threads : caller[s] = d /\ pc[s] \in Holding /\ i[s] = k
    <3>1. PICK s \in Threads : caller[s] = d /\ pc[s] \in Holding /\ i[s] = k
      BY <2>5, Zenon
    <3>2. s # t
      BY <1>1, <1>4, <3>1, Zenon
    <3>3. QED
      BY <1>1, <1>3, <3>1, <3>2, Zenon DEF Owned, Owns
  <2>6. QED
    BY <2>1, <2>2, <2>3, <2>4, <2>5, Zenon DEF Owns
<1>8. \A s \in Threads : pc'[s] # "initial_client_store" \/ i'[s] = i[s]
  BY <1>3, <1>4, Zenon
<1>9. QED
  BY <1>1, <1>6, <1>7, Zenon DEF CountInv

\* IdInv and CountInv are inductive together with IInv.
LEMMA IdsStep ==
    ASSUME Counted, IInv, IdInv, CountInv, [Next]_vars
    PROVE  IdInv' /\ CountInv'
<1>1. \A c \in Clients : req[c] = "INIT" => id[c] = -1
  BY Zenon DEF IdInv
<1>2. CASE UNCHANGED vars
  BY <1>1, <1>2, IdsElsewhere, Zenon DEF vars, localVars, initVars, clientVars
<1>3. ASSUME NEW c \in Clients, Call(c) PROVE IdInv' /\ CountInv'
  <2>1. /\ req[c] = "none" /\ req' = [req EXCEPT ![c] = NextLabel(c)]
        /\ UNCHANGED <<pc, caller, i, reply_eps, client_new, id>>
        /\ req \in [Clients -> Labels \cup {"none"}]
    BY <1>3, Zenon DEF Call, localVars, initVars, IInv, LockType
  <2>2. NextLabel(c) = "INIT" => id[c] = -1
    <3>1. id[c] \in Int /\ id[c] % 2 \in {0, 1}
      BY DEF IInv, RestType
    <3>2. QED
      BY <3>1, Zenon DEF NextLabel
  <2>3. QED
    BY <1>1, <2>1, <2>2, IdsElsewhere, Zenon
<1>4. ASSUME NEW t \in Threads, Server(t) PROVE IdInv' /\ CountInv'
  <2>1. pc \in [Threads -> Places] /\ i \in [Threads -> Int]
    BY Zenon DEF IInv, LockType, RestType
  <2>2. ASSUME NEW where \in Places, Goto(t, where),
               pc[t] \notin InitPlaces, where \notin InitPlaces,
               where = "multicast" => client_new = client_num,
               \A s \in Threads : s # t => caller'[s] = caller[s] /\ i'[s] = i[s],
               UNCHANGED <<reply_eps, client_new, id>>,
               \A c \in Clients : req[c] = "INIT" => req'[c] = "INIT",
               \A c \in Clients : req'[c] = "INIT" => req[c] = "INIT"
        PROVE  IdInv' /\ CountInv'
    <3>1. pc'[t] = where /\ \A s \in Threads : s # t => pc'[s] = pc[s]
      BY <2>1, <2>2, Zenon DEF Goto
    <3>2. QED
      BY <1>1, <2>2, <3>1, IdsElsewhere, Zenon
  <2>3. CASE Recv(t) \/ InitialClientLoad(t) \/ InitialClientStore(t) \/ InitSave(t)
               \/ Multicast(t)
    BY <2>3, IdsRecv, IdsLoad, IdsStore, IdsSave, IdsMulticast
  <2>4. CASE Reply(t)
    <3>1. /\ pc[t] = "reply" /\ "recv" \in Places
          /\ {"reply", "recv"} \cap (InitPlaces \cup {"multicast"}) = {}
      BY <2>4, Zenon DEF Reply, At, Places, InitPlaces
    <3>2. \A c \in Clients : req[c] = "INIT" <=> req'[c] = "INIT"
      <4>1. req[IF SEL4_GREEN THEN saved[t] ELSE caller[t]] \in Requests
        BY <3>1, Zenon DEF IInv, WorkInv, Work, Handling, ClientOf
      <4>2. "INIT" \notin Requests
        BY Zenon DEF Requests
      <4>3. QED
        BY <2>4, <4>1, <4>2, Zenon DEF Reply
    <3>3. \A s \in Threads : s # t => caller'[s] = caller[s] /\ i'[s] = i[s]
      BY <2>4, Zenon DEF Reply, IInv, RestType
    <3>4. QED
      BY <2>2, <2>4, <3>1, <3>2, <3>3, Zenon DEF Reply, Return, initVars
  <2>5. CASE ClientBarrier(t)
    <3>1. /\ pc[t] = "client_barrier" /\ {"recv", "multicast"} \subseteq Places
          /\ {"client_barrier", "recv", "multicast"} \cap InitPlaces = {}
      BY <2>5, Zenon DEF ClientBarrier, At, Places, InitPlaces
    <3>2. /\ \A s \in Threads : s # t => caller'[s] = caller[s] /\ i'[s] = i[s]
          /\ UNCHANGED <<reply_eps, client_new, id, req>>
      BY <2>1, <2>5, Zenon DEF ClientBarrier, initVars, clientVars
    <3>3. \/ Goto(t, "multicast") /\ client_new = client_num
          \/ Goto(t, "recv")
      BY <2>5, Zenon DEF ClientBarrier, Return
    <3>4. QED
      BY <2>2, <3>1, <3>2, <3>3, Zenon
  <2>6. CASE HandleTmnt(t)
    <3>1. /\ pc[t] \in {"terminate", "terminate_store"}
          /\ {"recv", "terminate_store"} \subseteq Places
          /\ {"terminate", "terminate_store", "recv"} \cap (InitPlaces \cup {"multicast"}) = {}
      BY <2>6, Zenon DEF HandleTmnt, TerminateLoad, TerminateStore, At, Places, InitPlaces
    <3>2. QED
      BY <2>2, <2>6, <3>1, Zenon
         DEF HandleTmnt, TerminateLoad, TerminateStore, Return, localVars, initVars, clientVars
  <2>7. ASSUME pc[t] \in Handling, \E where \in Handling : Goto(t, where),
               UNCHANGED <<i, reply_eps, client_new, id, req>>,
               \A s \in Threads : s # t => caller'[s] = caller[s]
        PROVE  IdInv' /\ CountInv'
    <3>1. Handling \subseteq Places /\ Handling \cap (InitPlaces \cup {"multicast"}) = {}
      BY Zenon DEF Handling, Places, HoldsLock, InitPlaces
    <3>2. QED
      BY <2>2, <2>7, <3>1, Zenon
  <2>8. CASE Save(t)
    <3>1. /\ pc[t] \in Handling /\ \E where \in Handling : Goto(t, where)
      BY <2>8, Zenon DEF Save, At, Handling
    <3>2. \A s \in Threads : s # t => caller'[s] = caller[s]
      BY <2>8, Zenon DEF Save, IInv, RestType
    <3>3. QED
      BY <2>7, <2>8, <3>1, <3>2, Zenon DEF Save, initVars, clientVars
  <2>9. CASE Lock(t) \/ LoopUnlock(t) \/ Unlock(t)
    <3>1. pc[t] \in Handling /\ \E where \in Handling : Goto(t, where)
      BY <2>9, Zenon DEF Lock, LoopUnlock, Unlock, MutexDecrement, MutexIncrement, At, Handling
    <3>2. QED
      BY <2>7, <2>9, <3>1, Zenon DEF Lock, LoopUnlock, Unlock, MutexDecrement,
         MutexIncrement, localVars, initVars, clientVars
  <2>10. CASE LockWait(t) \/ LoopSleep(t)
    <3>1. pc[t] \in Handling /\ \E where \in Handling : Goto(t, where)
      BY <2>10, Zenon DEF LockWait, LoopSleep, Wait, At, Handling
    <3>2. QED
      BY <2>7, <2>10, <3>1, Zenon DEF LockWait, LoopSleep, Wait, localVars, initVars, clientVars
  <2>11. CASE LoopUnlockSignal(t) \/ SignalOther(t) \/ UnlockSignal(t)
    <3>1. pc[t] \in Handling /\ \E where \in Handling : Goto(t, where)
      BY <2>11, Zenon DEF LoopUnlockSignal, SignalOther, UnlockSignal, Signal, At, Handling
    <3>2. QED
      BY <2>7, <2>11, <3>1, Zenon DEF LoopUnlockSignal, SignalOther, UnlockSignal, Signal,
         localVars, initVars, clientVars
  <2>12. CASE Test(t) \/ Update(t)
    <3>1. pc[t] \in Handling /\ \E where \in Handling : Goto(t, where)
      BY <2>12, Zenon DEF Test, Update, At, Handling
    <3>2. QED
      BY <2>7, <2>12, <3>1, Zenon DEF Test, Update, localVars, initVars, clientVars
  <2>13. QED
    BY <1>4, <2>3, <2>4, <2>5, <2>6, <2>8, <2>9, <2>10, <2>11, <2>12, Zenon
       DEF Server, HandleInit, HandleRequest
<1>5. QED
  BY <1>2, <1>3, <1>4, Zenon DEF Next, Terminated

\* No id has been given at the start.
LEMMA IdsInit == Init => IdInv /\ CountInv
<1> SUFFICES ASSUME Init PROVE IdInv /\ CountInv
  BY Zenon
<1>1. NoClient \notin Clients
  BY Sel4ClientsAssumption, Zenon
<1>2. IdInv
  BY <1>1, Zenon DEF Init, IdInv, InitPlaces, Holding
<1>3. 0 \in 0..client_num /\ \A k \in ClientIds : ~ (k < 0)
  BY IdFacts
<1>4. CountInv
  BY <1>3, Zenon DEF Init, CountInv
<1>5. QED
  BY <1>2, <1>4, Zenon

\* Clients that have been told their ids own them.
LEMMA IdsUnique ==
    ASSUME Counted, IInv, IdInv, CountInv
    PROVE  UniqueIds
<1> SUFFICES ASSUME NEW c \in Clients, NEW d \in Clients, id[c] = id[d], id[c] # -1
             PROVE  c = d
  BY Zenon DEF UniqueIds
<1>1. id[c] \in ClientIds
  BY Zenon DEF IdInv
<1>2. Owns(c, id[c]) /\ Owns(d, id[c])
  BY Zenon DEF Owns
<1>3. \A k \in ClientIds : Owned(k)
  BY Zenon DEF CountInv
<1>4. QED
  BY <1>1, <1>2, <1>3, AllOwned, Zenon

-----------------------------------------------------------------------------
(* What follows from the mutual exclusion of the mutex. *)

\* The proofs about the mutex, under the mapping of Mutex.
M == INSTANCE BinSemProofs WITH ntfn <- ntfn["lock_global"], at <- LockAt

\* The assumption of the instance.
LEMMA ThreadsFinite == M!IsFiniteSet(Threads)
  BY ThreadsAssumption DEF IsFiniteSet, M!IsFiniteSet

\* The mutex of the server is the one BinSemProofs is about.
LEMMA SameMutex == Spec => M!Spec
<1>1. Mutex!Init <=> M!Init
  BY Zenon DEF Mutex!Init, M!Init, Mutex!NtfnIdle, M!NtfnIdle
<1>2. [Mutex!Next]_Mutex!vars <=> [M!Next]_M!vars
  BY Zenon DEF Mutex!Next, M!Next, Mutex!vars, M!vars, Mutex!Step, M!Step,
         Mutex!Decrement, M!Decrement, Mutex!Wait, M!Wait, Mutex!Increment,
         M!Increment, Mutex!Signal, M!Signal, Mutex!Goto, M!Goto, Mutex!Asleep,
         M!Asleep, Mutex!SendSignal, M!SendSignal, Mutex!ReceiveSignal,
         M!ReceiveSignal, Mutex!Range, M!Range
<1>3. QED
  BY <1>1, <1>2, MutexRefinement, PTL DEF ImplementsMutex, Mutex!Spec, M!Spec

\* lock_global excludes, whatever the number of threads and clients.
THEOREM Sel4Excludes == Spec => []MutualExclusion
<1>1. M!MutualExclusion => MutualExclusion
  <2>1. ASSUME NEW t \in Threads, pc[t] \in HoldsLock, ~ Asleep(t) PROVE M!Holds(t)
    <3>1. LockAt[t] = "in"
      BY <2>1 DEF LockAt, HoldsLock
    <3>2. ~ M!Asleep(t)
      BY <2>1, Zenon DEF Asleep, M!Asleep, Prims, Range, M!Range
    <3>3. QED
      BY <3>1, <3>2 DEF M!Holds
  <2>2. QED
    BY <2>1, Zenon DEF MutualExclusion, M!MutualExclusion
<1>2. M!Spec => []M!MutualExclusion
  BY ThreadsFinite, M!MutexExcludes
<1>3. QED
  BY <1>1, <1>2, SameMutex, PTL

\* The buffer stays within its limits and the assertions on it hold.
THEOREM Sel4BufferInvariant == Spec => []BufferInv
<1>1. Init => BufferInv
  BY Sel4LimitAssumption DEF Init, BufferInv
<1>2. IInv /\ MutualExclusion /\ BufferInv /\ [Next]_vars => BufferInv'
  BY BufferInvStep, Zenon
<1>3. QED
  BY <1>1, <1>2, Sel4Invariant, Sel4Excludes, PTL DEF Spec

\* The assertions of the code hold: those on buffer in PRODUCER and CONSUMER,
\* although the thread was preempted between its test and its update, and
\* that of sync_bin_sem_bare_post on the count, which others may have changed
\* between its increment and its second read.
THEOREM Sel4AssertsHold == Spec => []AssertsHold
<1>1. BufferInv => \A t \in Threads : At(t, "update") => ~ MustWait(t)
  BY Zenon DEF BufferInv, At
<1>2. M!IInv => value <= 1
  BY ThreadsFinite, M!ValueFacts DEF M!IInv
<1>3. M!Spec => []M!IInv
  BY ThreadsFinite, M!MutexInvariant
<1>4. QED
  BY <1>1, <1>2, <1>3, Sel4BufferInvariant, SameMutex, PTL DEF AssertsHold

\* The kernel-thread server behaves as a bounded buffer.
THEOREM Sel4Refinement == Spec => ImplementsBuffer
<1>1. Init => Buffer!Init
  BY Zenon DEF Init, Buffer!Init, Requests
<1>2. IInv /\ BufferInv /\ [Next]_vars =>
        [Buffer!Next]_<<buffer, [c \in Clients |->
                                   IF req[c] \in Requests /\ ~ Served(c)
                                   THEN req[c] ELSE "none"]>>
  BY BufferStep DEF Asked
<1>3. QED
  BY <1>1, <1>2, Sel4Invariant, Sel4BufferInvariant, PTL
     DEF Spec, ImplementsBuffer, Buffer!Spec

\* Whatever the capacity of the buffer: while producers sleep and the buffer
\* is empty, or consumers sleep and it is full, a thread of their role will
\* test the buffer or a signal of their list is about to be sent.
THEOREM Sel4Wakes == Spec => [](\A list \in Lists : WakeInv(list))
<1>2. IInv /\ BufferInv /\ (\A list \in Lists : WakeInv(list)) /\ [Next]_vars =>
        (\A list \in Lists : WakeInv(list))'
  BY WakeStep, Zenon
<1>3. QED
  BY <1>2, WakeInit, Sel4Invariant, Sel4BufferInvariant, PTL DEF Spec

\* With a buffer of one item, the capacity the library sets, no sleeper is
\* stranded while the buffer would let it go on, although signals that meet
\* nobody merge into one bit.  With two items it is false: the signals of two
\* producers can merge and wake one consumer of two.
THEOREM Sel4NoStranding ==
    ASSUME buffer_limit = 1
    PROVE  Spec => []NoStranding
<1>1. IInv /\ BufferInv /\ (\A list \in Lists : WakeInv(list)) => NoStranding
  BY WakeOne, Zenon
<1>2. QED
  BY <1>1, Sel4Invariant, Sel4BufferInvariant, Sel4Wakes, PTL

-----------------------------------------------------------------------------
(* What follows from the facts about finite sets that M brings. *)

\* The operators of M are those of this module.
LEMMA SameCount == ASSUME NEW S PROVE M!Cardinality(S) = Cardinality(S)
  BY Zenon DEF M!Cardinality, Cardinality

\* No request is lost between its call and its reply: the reply capability
\* of a blocked client is in one place, with a thread of its handler.
THEOREM Sel4RequestsKept == Spec => []RequestsKept
<1>1. ASSUME NEW x PROVE Cardinality({x}) = 1
  BY SameCount, ThreadsFinite, M!FS_Singleton, Zenon
<1>2. OneCounted
  BY <1>1, Zenon DEF OneCounted
<1>3. IInv => RequestsKept
  BY <1>2, KeptOne
<1>4. QED
  BY <1>3, Sel4Invariant, PTL

\* Different clients for all the ids are all the clients.
LEMMA ClientsCounted == Counted
<1> SUFFICES ASSUME NEW f \in [ClientIds -> Clients],
                    \A k, j \in ClientIds : f[k] = f[j] => k = j
             PROVE  \A c \in Clients : \E k \in ClientIds : f[k] = c
  BY Zenon DEF Counted
<1>1. M!Cardinality(0..(client_num - 1)) = client_num
  <2>1. M!Cardinality(0..(client_num - 1)) =
          IF 0 > client_num - 1 THEN 0 ELSE (client_num - 1) - 0 + 1
    BY IdFacts, ThreadsFinite, M!FS_Interval
  <2>2. QED
    BY <2>1, IdFacts
<1>2. M!Cardinality(Clients) = client_num
  BY SameCount, Zenon DEF client_num
<1>3. M!IsFiniteSet(Clients)
  BY Sel4ClientsAssumption DEF IsFiniteSet, M!IsFiniteSet
<1>4. f \in M!Injection(ClientIds, Clients)
  BY Zenon DEF M!Injection, M!IsInjective
<1>5. f \in M!Surjection(ClientIds, Clients)
  BY <1>1, <1>2, <1>3, <1>4, ThreadsFinite, M!FS_Injection DEF ClientIds
<1>6. QED
  BY <1>5, Zenon DEF M!Surjection

\* Clients that have been told their ids have different ids, although
\* initial_client is not atomic: an answer is sent after all ids have been
\* given, and then none of them was given twice.
THEOREM Sel4UniqueIds == Spec => []UniqueIds
<1>1. IInv /\ IdInv /\ CountInv /\ [Next]_vars => IdInv' /\ CountInv'
  BY ClientsCounted, IdsStep
<1>2. IInv /\ IdInv /\ CountInv => UniqueIds
  BY ClientsCounted, IdsUnique
<1>3. QED
  BY <1>1, <1>2, IdsInit, Sel4Invariant, PTL DEF Spec
=============================================================================
