----------------------------- MODULE Sel4Server -----------------------------
(***************************************************************************)
(* The producer/consumer server of main.c built with SEL4_THREAD and       *)
(* CONSUMER_PRODUCER: kernel threads of equal priority run server_loop on  *)
(* one endpoint and share the globals.  The kernel may preempt a thread    *)
(* anywhere, so a step is one access to shared memory, one system call or  *)
(* one atomic instruction.  Threads is the set of kernel threads.          *)
(*                                                                         *)
(* SEL4_GREEN saves the reply capability in a slot of the thread, SEL4_SLOW*)
(* and SEL4_FAST leave it in the thread's caller slot.  The last two differ*)
(* in the number of system calls only: nothing happens to the thread       *)
(* between its Reply and its Recv.  Which of the threads blocked in Recv   *)
(* gets a message is left open.                                            *)
(***************************************************************************)
EXTENDS Notifications, Integers, FiniteSets, Functions

CONSTANTS
    Clients,       \* the client processes
    NoClient,      \* no reply capability
    Rounds,        \* buffer requests of each client
    buffer_limit,  \* capacity of the buffer
    SEL4_GREEN     \* the reply capability is saved before the lock is taken

client_num == Cardinality(Clients)

ASSUME Sel4ClientsAssumption ==
    IsFiniteSet(Clients) /\ client_num \in Nat \ {0} /\ NoClient \notin Clients
ASSUME Sel4RoundsAssumption == Rounds \in Nat
ASSUME Sel4LimitAssumption == buffer_limit \in Nat \ {0}
ASSUME Sel4GreenAssumption == SEL4_GREEN \in BOOLEAN

ClientIds == 0..(client_num - 1)
Prims == {"lock_global", "producer_list", "consumer_list"}

VARIABLES
    pc,          \* where each thread is in server_loop and process_message
    label,       \* local of process_message: the label it handles, or "none"
    i,           \* local of INIT: the id read, then the loop index
    caller,      \* the reply capability in each thread's caller slot
    saved,       \* the reply capability in each thread's own slot
    reply_eps,   \* the reply capability in the slot reply_eps[i] names
    client_new,  \* clients that have called INIT, as far as counted
    value,       \* the count of the binary semaphore lock_global
    ntfn,        \* the notifications of lock_global and of the two lists
    buffer,      \* items in the buffer
    terminate_num,  \* TMNT calls, as far as counted
    loaded,      \* local of TMNT: the count it has read and not yet stored
    ep,          \* clients queued on the endpoint
    req,         \* the call each client is blocked in, or "none"
    id,          \* the id each client received, or -1
    left         \* buffer requests each client has still to make

localVars == <<label, i, caller, saved>>
initVars == <<reply_eps, client_new>>
bufferVars == <<value, ntfn, buffer>>
tmntVars == <<terminate_num, loaded>>
clientVars == <<ep, req, id, left>>
vars == <<pc, localVars, initVars, bufferVars, tmntVars, clientVars>>

Init ==
    /\ pc = [t \in Threads |-> "recv"]
    /\ label = [t \in Threads |-> "none"]
    /\ i = [t \in Threads |-> 0]
    /\ caller = [t \in Threads |-> NoClient]
    /\ saved = [t \in Threads |-> NoClient]
    /\ reply_eps = [k \in ClientIds |-> NoClient]
    /\ client_new = 0
    /\ value = 1
    /\ ntfn = [p \in Prims |-> NtfnIdle]
    /\ buffer = 0
    /\ terminate_num = 0
    /\ loaded = [t \in Threads |-> 0]
    /\ ep = <<>>
    /\ req = [c \in Clients |-> "none"]
    /\ id = [c \in Clients |-> -1]
    /\ left = [c \in Clients |-> Rounds]

-----------------------------------------------------------------------------
(* The clients, as in GreenServer. *)

NextLabel(c) ==
    CASE id[c] = -1 -> "INIT"
      [] id[c] # -1 /\ left[c] = 0 -> "TMNT"
      [] id[c] # -1 /\ left[c] # 0 /\ id[c] % 2 = 1 -> "PRODUCER"
      [] id[c] # -1 /\ left[c] # 0 /\ id[c] % 2 = 0 -> "CONSUMER"

\* seL4_Call of a client: it blocks, and queues on the endpoint.
Call(c) ==
    /\ req[c] = "none"
    /\ req' = [req EXCEPT ![c] = NextLabel(c)]
    /\ ep' = Append(ep, c)
    /\ UNCHANGED <<pc, localVars, initVars, bufferVars, tmntVars, id, left>>

-----------------------------------------------------------------------------
(* server_loop. *)

Asleep(t) == \E p \in Prims : t \in Range(ntfn[p].queue)
At(t, where) == pc[t] = where /\ ~ Asleep(t)
Goto(t, where) == pc' = [pc EXCEPT ![t] = where]
Return(t) == Goto(t, "recv") /\ label' = [label EXCEPT ![t] = "none"]

FirstStep(l) ==
    CASE l = "INIT" -> "initial_client"
      [] l = "TMNT" -> "terminate"
      [] l \in {"PRODUCER", "CONSUMER"} -> IF SEL4_GREEN THEN "save" ELSE "lock"

\* seL4_Recv: the kernel drops a reply capability left in the caller slot.
Recv(t) ==
    /\ At(t, "recv")
    /\ ep # <<>>
    /\ caller' = [caller EXCEPT ![t] = Head(ep)]
    /\ label' = [label EXCEPT ![t] = req[Head(ep)]]
    /\ ep' = Tail(ep)
    /\ Goto(t, FirstStep(req[Head(ep)]))
    /\ UNCHANGED <<i, saved, initVars, bufferVars, tmntVars, req, id, left>>

\* The reply after process_message returned 1: by seL4_Send on the thread's
\* slot under SEL4_GREEN, else with the capability in the caller slot.
Reply(t) ==
    LET c == IF SEL4_GREEN THEN saved[t] ELSE caller[t]
    IN  /\ At(t, "reply")
        /\ IF SEL4_GREEN
           THEN saved' = [saved EXCEPT ![t] = NoClient] /\ UNCHANGED caller
           ELSE caller' = [caller EXCEPT ![t] = NoClient] /\ UNCHANGED saved
        /\ req' = [d \in Clients |-> IF d = c THEN "none" ELSE req[d]]
        /\ left' = [d \in Clients |-> IF d = c THEN left[d] - 1 ELSE left[d]]
        /\ Return(t)
        /\ UNCHANGED <<i, initVars, bufferVars, tmntVars, ep, id>>

-----------------------------------------------------------------------------
(* INIT. *)

\* initial_client returns client_new and increments it, with a load and a
\* store of its own.
InitialClientLoad(t) ==
    /\ At(t, "initial_client")
    /\ i' = [i EXCEPT ![t] = client_new]
    /\ Goto(t, "initial_client_store")
    /\ UNCHANGED <<label, caller, saved, initVars, bufferVars, tmntVars,
                   clientVars>>

InitialClientStore(t) ==
    /\ At(t, "initial_client_store")
    /\ client_new' = i[t] + 1
    /\ Goto(t, "init_save")
    /\ UNCHANGED <<localVars, reply_eps, bufferVars, tmntVars, clientVars>>

\* A new slot takes the reply capability and is entered under the id.
InitSave(t) ==
    /\ At(t, "init_save")
    /\ reply_eps' = [reply_eps EXCEPT ![i[t]] = caller[t]]
    /\ caller' = [caller EXCEPT ![t] = NoClient]
    /\ Goto(t, "client_barrier")
    /\ UNCHANGED <<label, i, saved, client_new, bufferVars, tmntVars,
                   clientVars>>

\* client_barrier compares the count of initial_client with client_num.
ClientBarrier(t) ==
    /\ At(t, "client_barrier")
    /\ i' = [i EXCEPT ![t] = 0]
    /\ IF client_new = client_num
       THEN Goto(t, "multicast") /\ UNCHANGED label
       ELSE Return(t)
    /\ UNCHANGED <<caller, saved, initVars, bufferVars, tmntVars,
                   clientVars>>

\* One seL4_Send on reply_eps[i], with told in the message; num ends the
\* loop.  A send on an empty slot has no effect.
SendAnswer(t, told, num) ==
    LET c == reply_eps[i[t]]
    IN  /\ At(t, "multicast")
        /\ reply_eps' = [reply_eps EXCEPT ![i[t]] = NoClient]
        /\ req' = [d \in Clients |-> IF d = c THEN "none" ELSE req[d]]
        /\ id' = [d \in Clients |-> IF d = c THEN told ELSE id[d]]
        /\ IF i[t] + 1 < num
           THEN i' = [i EXCEPT ![t] = @ + 1] /\ UNCHANGED <<pc, label>>
           ELSE i' = [i EXCEPT ![t] = 0] /\ Return(t)
        /\ UNCHANGED <<caller, saved, client_new, bufferVars,
                       tmntVars, ep, left>>

\* Mutants: every client is told the same id; the last one is left out.
MulticastSameId(t) == SendAnswer(t, 0, client_num)
MulticastShort(t) == SendAnswer(t, i[t], client_num - 1)

\* The answers of INIT, client 0 first, then process_message_multicast.
Multicast(t) == SendAnswer(t, i[t], client_num)

-----------------------------------------------------------------------------
(* sync_mutex_lock and sync_mutex_unlock of lock_global.  The CAS loop of  *)
(* the decrement is one step: it changes nothing until it succeeds.  Its   *)
(* underflow return needs 2^31 waiting threads and is left out.            *)

\* Mutant: a count of zero does not make the thread wait.
MutexDecrementBarging(t, from, wait, next) ==
    /\ At(t, from)
    /\ value' = value - 1
    /\ Goto(t, IF value < 0 THEN wait ELSE next)
    /\ UNCHANGED <<localVars, initVars, ntfn, buffer, tmntVars, clientVars>>

\* sync_bin_sem_bare_wait up to seL4_Wait.
MutexDecrement(t, from, wait, next) ==
    /\ At(t, from)
    /\ value' = value - 1
    /\ Goto(t, IF value <= 0 THEN wait ELSE next)
    /\ UNCHANGED <<localVars, initVars, ntfn, buffer, tmntVars, clientVars>>

\* sync_bin_sem_bare_post up to seL4_Signal.
MutexIncrement(t, from, signal, next) ==
    /\ At(t, from)
    /\ value' = value + 1
    /\ Goto(t, IF value + 1 <= 0 THEN signal ELSE next)
    /\ UNCHANGED <<localVars, initVars, ntfn, buffer, tmntVars, clientVars>>

\* seL4_Wait: the thread is at next, and goes on once it has the signal.
Wait(t, from, prim, next) ==
    /\ At(t, from)
    /\ ntfn' = [ntfn EXCEPT ![prim] = ReceiveSignal(@, t)]
    /\ Goto(t, next)
    /\ UNCHANGED <<localVars, initVars, value, buffer, tmntVars, clientVars>>

\* seL4_Signal.
Signal(t, from, prim, next) ==
    /\ At(t, from)
    /\ ntfn' = [ntfn EXCEPT ![prim] = SendSignal(@)]
    /\ Goto(t, next)
    /\ UNCHANGED <<localVars, initVars, value, buffer, tmntVars, clientVars>>

-----------------------------------------------------------------------------
(* PRODUCER and CONSUMER: one list to sleep on, the other to signal. *)

OwnList(t) == IF label[t] = "PRODUCER" THEN "producer_list" ELSE "consumer_list"
OtherList(t) == IF label[t] = "PRODUCER" THEN "consumer_list" ELSE "producer_list"
MustWait(t) == IF label[t] = "PRODUCER" THEN buffer = buffer_limit ELSE buffer = 0

\* Mutant: the reply capability is not saved.
SaveNothing(t) ==
    /\ At(t, "save")
    /\ Goto(t, "lock")
    /\ UNCHANGED <<localVars, initVars, bufferVars, tmntVars, clientVars>>

\* vka_cnode_saveCaller into the thread's slot.
Save(t) ==
    /\ At(t, "save")
    /\ saved' = [saved EXCEPT ![t] = caller[t]]
    /\ caller' = [caller EXCEPT ![t] = NoClient]
    /\ Goto(t, "lock")
    /\ UNCHANGED <<label, i, initVars, bufferVars, tmntVars, clientVars>>

Lock(t) == MutexDecrement(t, "lock", "lock_wait", "test")
LockWait(t) == Wait(t, "lock_wait", "lock_global", "test")

\* The test of the while loop.
Test(t) ==
    /\ At(t, "test")
    /\ Goto(t, IF MustWait(t) THEN "unlock" ELSE "update")
    /\ UNCHANGED <<localVars, initVars, bufferVars, tmntVars, clientVars>>

\* The body of the loop: unlock, wait for the list's notification, lock.
LoopUnlock(t) == MutexIncrement(t, "unlock", "unlock_signal", "sleep")
LoopUnlockSignal(t) == Signal(t, "unlock_signal", "lock_global", "sleep")

\* Mutant: the lock is not taken again after the wait.
SleepUnlocked(t) == Wait(t, "sleep", OwnList(t), "test")
LoopSleep(t) == Wait(t, "sleep", OwnList(t), "lock")

\* Mutant: a consumer leaves its item in the buffer.
UpdateKeeps(t) ==
    /\ At(t, "update")
    /\ buffer' = IF label[t] = "PRODUCER" THEN buffer + 1 ELSE buffer
    /\ Goto(t, "signal")
    /\ UNCHANGED <<localVars, initVars, value, ntfn, tmntVars, clientVars>>

Update(t) ==
    /\ At(t, "update")
    /\ buffer' = IF label[t] = "PRODUCER" THEN buffer + 1 ELSE buffer - 1
    /\ Goto(t, "signal")
    /\ UNCHANGED <<localVars, initVars, value, ntfn, tmntVars, clientVars>>

\* Mutants: the list of the thread's own role is signalled; none is.
SignalOwn(t) == Signal(t, "signal", OwnList(t), "done")
SignalNobody(t) ==
    /\ At(t, "signal")
    /\ Goto(t, "done")
    /\ UNCHANGED <<localVars, initVars, bufferVars, tmntVars, clientVars>>
SignalOther(t) == Signal(t, "signal", OtherList(t), "done")
Unlock(t) == MutexIncrement(t, "done", "done_signal", "reply")
UnlockSignal(t) == Signal(t, "done_signal", "lock_global", "reply")

\* TMNT: terminate_num++ outside the lock, with a load and a store of its
\* own.  The client is never answered, the next Recv drops its capability.
TerminateLoad(t) ==
    /\ At(t, "terminate")
    /\ loaded' = [loaded EXCEPT ![t] = terminate_num]
    /\ Goto(t, "terminate_store")
    /\ UNCHANGED <<localVars, initVars, bufferVars, terminate_num, clientVars>>

TerminateStore(t) ==
    /\ At(t, "terminate_store")
    /\ terminate_num' = loaded[t] + 1
    /\ loaded' = [loaded EXCEPT ![t] = 0]
    /\ Return(t)
    /\ UNCHANGED <<i, caller, saved, initVars, bufferVars, clientVars>>

HandleInit(t) ==
    \/ InitialClientLoad(t) \/ InitialClientStore(t) \/ InitSave(t)
    \/ ClientBarrier(t) \/ Multicast(t)

HandleRequest(t) ==
    \/ Save(t) \/ Lock(t) \/ LockWait(t) \/ Test(t)
    \/ LoopUnlock(t) \/ LoopUnlockSignal(t) \/ LoopSleep(t)
    \/ Update(t) \/ SignalOther(t) \/ Unlock(t) \/ UnlockSignal(t)

HandleTmnt(t) == TerminateLoad(t) \/ TerminateStore(t)

Server(t) ==
    Recv(t) \/ HandleInit(t) \/ HandleRequest(t) \/ Reply(t) \/ HandleTmnt(t)

\* The test is over: every client is blocked in its TMNT call.
Terminated == (\A c \in Clients : req[c] = "TMNT") /\ UNCHANGED vars

Next == (\E t \in Threads : Server(t)) \/ (\E c \in Clients : Call(c)) \/ Terminated

Spec == Init /\ [][Next]_vars

\* The kernel's round robin runs every runnable thread and client.
Fairness ==
    (\A t \in Threads : WF_vars(Server(t))) /\ (\A c \in Clients : WF_vars(Call(c)))

FairSpec == Spec /\ Fairness

-----------------------------------------------------------------------------
(* Properties. *)

Labels == {"INIT", "PRODUCER", "CONSUMER", "TMNT"}
Requests == {"PRODUCER", "CONSUMER"}
HoldsLock == {"test", "unlock", "update", "signal", "done"}
Places == HoldsLock \cup
          {"recv", "initial_client", "initial_client_store", "init_save",
           "client_barrier", "multicast", "save", "lock", "lock_wait",
           "unlock_signal", "sleep", "done_signal", "reply", "terminate",
           "terminate_store"}

\* The type invariant.
TypeOK ==
    /\ pc \in [Threads -> Places]
    /\ label \in [Threads -> Labels \cup {"none"}]
    /\ i \in [Threads -> ClientIds \cup {0}]
    /\ caller \in [Threads -> Clients \cup {NoClient}]
    /\ saved \in [Threads -> Clients \cup {NoClient}]
    /\ reply_eps \in [ClientIds -> Clients \cup {NoClient}]
    /\ client_new \in 0..client_num
    /\ value \in Int
    /\ ntfn \in [Prims -> [active : BOOLEAN, queue : Seq(Threads)]]
    /\ buffer \in 0..buffer_limit
    /\ terminate_num \in 0..client_num
    /\ loaded \in [Threads -> 0..client_num]
    /\ ep \in Seq(Clients)
    /\ req \in [Clients -> Labels \cup {"none"}]
    /\ id \in [Clients -> ClientIds \cup {-1}]
    /\ left \in [Clients -> 0..Rounds]

\* lock_global excludes: at most one thread is between sync_mutex_lock and
\* the increment of sync_mutex_unlock.  The count and the notification are
\* changed by separate steps, so a newcomer may decrement between the
\* holder's increment and its signal.
MutualExclusion ==
    \A s, t \in Threads :
      pc[s] \in HoldsLock /\ ~ Asleep(s) /\ pc[t] \in HoldsLock /\ ~ Asleep(t)
        => s = t

\* How far each thread is in the calls on lock_global.
LockAt ==
    [t \in Threads |->
       CASE pc[t] \in HoldsLock -> "in"
         [] pc[t] = "lock_wait" -> "wait"
         [] pc[t] \in {"unlock_signal", "done_signal"} -> "post"
         [] OTHER -> "out"]

\* The server uses lock_global as a mutex: its steps on the count and the
\* notification, in the handlers and in the loops, are those of BinSem.
Mutex == INSTANCE BinSem WITH ntfn <- ntfn["lock_global"], at <- LockAt
ImplementsMutex == Mutex!Spec

\* The assertions of the code hold.  Those on buffer in PRODUCER and
\* CONSUMER: what the loop tested still holds when the buffer is updated.
\* That of sync_bin_sem_bare_post: the count it reads again after its
\* increment, when others have gone on, is at most 1.
AssertsHold ==
    /\ \A t \in Threads : At(t, "update") => ~ MustWait(t)
    /\ value <= 1

\* Threads of a role that will test the buffer again without a new signal.
WillTest(role, list) ==
    {t \in Threads :
       /\ label[t] = role
       /\ t \notin Range(ntfn[list].queue)
       /\ \/ pc[t] \in {"save", "lock", "lock_wait", "test", "update"}
          \/ pc[t] \in {"unlock", "unlock_signal", "sleep"} /\ ntfn[list].active}

\* No sleeper is stranded: while a thread sleeps on a list and the buffer
\* would let it go on, another thread of its role will test the buffer or a
\* signal of the list is about to be sent, although signals that meet
\* nobody merge into one bit.  This needs a buffer of one item, the capacity
\* the build sets: with two, the signals of two items can merge.
NoStranding ==
    /\ ntfn["producer_list"].queue # <<>> /\ buffer < buffer_limit =>
         \/ WillTest("PRODUCER", "producer_list") # {}
         \/ \E t \in Threads : label[t] = "CONSUMER" /\ pc[t] = "signal"
    /\ ntfn["consumer_list"].queue # <<>> /\ buffer > 0 =>
         \/ WillTest("CONSUMER", "consumer_list") # {}
         \/ \E t \in Threads : label[t] = "PRODUCER" /\ pc[t] = "signal"

\* The places where the reply to client c can be.
Pending(c) ==
    {<<"ep", k>> : k \in {j \in DOMAIN ep : ep[j] = c}}
      \cup {<<"caller", t>> : t \in {s \in Threads : caller[s] = c}}
      \cup {<<"saved", t>> : t \in {s \in Threads : saved[s] = c}}

\* A client blocked in PRODUCER or CONSUMER is queued on the endpoint, or
\* exactly one thread holds its reply capability and is in the handler of
\* that request: no wait on a notification and no Recv loses it.
RequestsKept ==
    \A c \in Clients : req[c] \in Requests =>
      /\ Cardinality(Pending(c)) = 1
      /\ \A t \in Threads :
           caller[t] = c \/ saved[t] = c => label[t] = req[c]

\* Clients that have been told their ids have different ids.
UniqueIds ==
    \A c, d \in Clients : id[c] = id[d] /\ id[c] # -1 => c = d

\* "if received initial data from all clients, multicast responses to all of
\* them": once every INIT has been received and handled, nobody is still
\* blocked in it.
BarrierAnswersAll ==
    /\ \A c \in Clients : id[c] = -1 => req[c] = "INIT" /\ c \notin Range(ep)
    /\ \A t \in Threads : label[t] # "INIT"
    => \A c \in Clients : id[c] # -1

\* The thread that has stored or taken the item of client c.
Served(c) ==
    \E t \in Threads :
      /\ c \in {caller[t], saved[t]}
      /\ pc[t] \in {"signal", "done", "done_signal", "reply"}

\* The server implements the bounded buffer: each request takes effect once,
\* between its call and its reply, whatever the threads interleave.
Buffer == INSTANCE BoundedBuffer
            WITH asked <- [c \in Clients |->
                             IF req[c] \in Requests /\ ~ Served(c)
                             THEN req[c] ELSE "none"]
ImplementsBuffer == Buffer!Spec

\* Every buffer request is answered.
EveryRequestAnswered ==
    \A c \in Clients : req[c] \in Requests ~> req[c] = "none"

\* Once client_new has reached client_num every client is told its id,
\* although the barrier then opens for threads that ask while the slots of
\* others are not yet entered in reply_eps.
OpenBarrierAnswersAll ==
    client_new = client_num ~> \A c \in Clients : id[c] # -1
=============================================================================
