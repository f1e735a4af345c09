----------------------------- MODULE GreenServer -----------------------------
(***************************************************************************)
(* The producer/consumer server of main.c built with GREEN_THREAD and      *)
(* CONSUMER_PRODUCER: client_num green threads run server_loop on one      *)
(* kernel thread and one endpoint.  Each client calls INIT, then a fixed   *)
(* number of PRODUCER or CONSUMER requests, then TMNT.                     *)
(*                                                                         *)
(* A step is the code a green thread runs between two points where it can  *)
(* lose the processor, receive a message or find the lock taken; nothing   *)
(* else touches the server's memory meanwhile, only clients queue on the   *)
(* endpoint.  Left out: the counters wait_count, started and terminate_num *)
(* and the rdtsc calls, which feed only the benchmark output.              *)
(***************************************************************************)
EXTENDS GreenThreads, FiniteSets, Functions

CONSTANTS
    Clients,       \* the client processes
    NoClient,      \* an empty capability slot
    Rounds,        \* buffer requests of each client
    buffer_limit   \* capacity of the buffer

client_num == Cardinality(Clients)

ASSUME ClientsAssumption == IsFiniteSet(Clients) /\ client_num \in Nat \ {0}
ASSUME NoClientAssumption == NoClient \notin Clients
ASSUME RoundsAssumption == Rounds \in Nat
ASSUME LimitAssumption == buffer_limit \in Nat \ {0}

Threads == 1..client_num
ClientIds == 0..(client_num - 1)
Slots == 1..(2 * client_num)
Prims == {"lock_global", "producer_list", "consumer_list"}

VARIABLES
    pool,        \* the thread pool
    pc,          \* where each green thread is in server_loop
    slot,        \* t->slot: the capability slot of each thread
    caps,        \* the reply capability in each slot: the client it answers
    caller,      \* the reply capability of the last Recv, kept by the kernel
    reply_eps,   \* reply_eps[i]: the slot that answers the INIT of client i
    client_new,  \* clients that have called INIT
    buffer,      \* items in the buffer
    main,        \* progress of main_continued
    ep,          \* clients queued on the endpoint
    req,         \* the call each client is blocked in, or "none"
    id,          \* the id each client received, or -1
    left         \* buffer requests each client has still to make

serverVars == <<pool, pc, slot, caps, caller, reply_eps, client_new, buffer,
                main>>
clientVars == <<ep, req, id, left>>
vars == <<serverVars, clientVars>>

Init ==
    /\ pool = ThreadInitial(Prims)
    /\ pc = [t \in Threads |-> "recv"]
    /\ slot = [t \in Threads |-> t]
    /\ caps = [s \in Slots |-> NoClient]
    /\ caller = NoClient
    /\ reply_eps = [i \in ClientIds |-> 0]
    /\ client_new = 0
    /\ buffer = 0
    /\ main = "boot"
    /\ ep = <<>>
    /\ req = [c \in Clients |-> "none"]
    /\ id = [c \in Clients |-> -1]
    /\ left = [c \in Clients |-> Rounds]

-----------------------------------------------------------------------------
(* The clients. *)

\* Clients with an odd id produce, the others consume.
NextLabel(c) ==
    CASE id[c] = -1  -> "INIT"
      [] id[c] # -1 /\ left[c] = 0 -> "TMNT"
      [] id[c] # -1 /\ left[c] # 0 /\ id[c] % 2 = 1 -> "PRODUCER"
      [] id[c] # -1 /\ left[c] # 0 /\ id[c] % 2 = 0 -> "CONSUMER"

\* seL4_Call of a client: it blocks, and queues on the endpoint.
Call(c) ==
    /\ req[c] = "none"
    /\ req' = [req EXCEPT ![c] = NextLabel(c)]
    /\ ep' = Append(ep, c)
    /\ UNCHANGED <<serverVars, id, left>>

-----------------------------------------------------------------------------
(* The main thread. *)

\* Mutant: only one thread is created.
ThreadCreationOne(n) == [ThreadInitial(Prims) EXCEPT !.ready = <<n>>]

\* The pool after thread_creation has made threads 1 to n, each put at the
\* tail of the ready queue by thread_create.
ThreadCreation(n) ==
    [ThreadInitial(Prims) EXCEPT !.ready = [i \in 1..n |-> i]]

\* main_continued creates the threads and resumes the last one.
MainContinued ==
    /\ main = "boot"
    /\ pool' = MainResume(ThreadCreation(client_num), client_num)
    /\ main' = "resumed"
    /\ UNCHANGED <<pc, slot, caps, caller, reply_eps, client_new, buffer,
                   clientVars>>

\* The main thread runs again: it reports the end of the test.
MainEnd ==
    /\ main = "resumed"
    /\ pool.running = MainThread
    /\ main' = "end"
    /\ UNCHANGED <<pool, pc, slot, caps, caller, reply_eps, client_new, buffer,
                   clientVars>>

-----------------------------------------------------------------------------
(* The green threads: t is the running one. *)

At(t, where) == pool.running = t /\ pc[t] = where

\* seL4_Recv in server_loop: the kernel drops an unsaved reply capability
\* and hands over the first client in the queue.
Recv(t) ==
    /\ At(t, "recv")
    /\ ep # <<>>
    /\ caller' = Head(ep)
    /\ ep' = Tail(ep)
    /\ pc' = [pc EXCEPT ![t] = req[Head(ep)]]
    /\ UNCHANGED <<pool, slot, caps, reply_eps, client_new, buffer, main,
                   req, id, left>>

\* vka_cnode_saveCaller: moves the reply capability into s, and fails, with
\* only a message printed, when s is occupied.
SaveCaller(s) ==
    IF caps[s] = NoClient
    THEN caps' = [caps EXCEPT ![s] = caller] /\ caller' = NoClient
    ELSE UNCHANGED <<caps, caller>>

\* INIT: the client gets the next id and a fresh slot for its reply; the
\* last client's INIT answers all of them, the i-th with id i.
HandleInit(t) ==
    LET fresh == client_num + client_new + 1
        saved == [caps EXCEPT ![fresh] = caller]
        eps   == [reply_eps EXCEPT ![client_new] = fresh]
        told  == {i \in ClientIds : client_new + 1 = client_num}
        Answered(c) == \E i \in told : saved[eps[i]] = c
    IN  /\ At(t, "INIT")
        /\ client_new' = client_new + 1
        /\ slot' = [slot EXCEPT ![t] = fresh]
        /\ reply_eps' = eps
        /\ caps' = [s \in Slots |-> IF \E i \in told : eps[i] = s
                                    THEN NoClient ELSE saved[s]]
        /\ caller' = NoClient
        /\ req' = [c \in Clients |-> IF Answered(c) THEN "none" ELSE req[c]]
        /\ id' = [c \in Clients |->
                    IF Answered(c) THEN CHOOSE i \in told : saved[eps[i]] = c
                                   ELSE id[c]]
        /\ pc' = [pc EXCEPT ![t] = "recv"]
        /\ UNCHANGED <<pool, buffer, main, ep, left>>

\* Mutant: the reply capability is not saved.
SaveNothing(t, label, next) ==
    /\ At(t, label)
    /\ pc' = [pc EXCEPT ![t] = next]
    /\ UNCHANGED <<pool, slot, caps, caller, reply_eps, client_new, buffer,
                   main, clientVars>>

\* The head of PRODUCER and CONSUMER: the reply capability is saved in the
\* thread's slot before the lock is asked for.
SaveRequest(t, label, next) ==
    /\ At(t, label)
    /\ SaveCaller(slot[t])
    /\ pc' = [pc EXCEPT ![t] = next]
    /\ UNCHANGED <<pool, slot, reply_eps, client_new, buffer, main,
                   clientVars>>

\* thread_lock_acquire(lock_global), which sleeps while the lock is held.
Acquire(t, from, next) ==
    /\ At(t, from)
    /\ IF pool.held["lock_global"]
       THEN /\ pool' = ThreadSleep(pool, "lock_global")
            /\ UNCHANGED pc
       ELSE /\ pool' = LockTake(pool, "lock_global")
            /\ pc' = [pc EXCEPT ![t] = next]
    /\ UNCHANGED <<slot, caps, caller, reply_eps, client_new, buffer, main,
                   clientVars>>

\* Mutant: the thread sleeps with the lock held.
SleepLocked(t, from, prim, next) ==
    /\ At(t, from)
    /\ pool' = ThreadSleep(pool, prim)
    /\ pc' = [pc EXCEPT ![t] = next]
    /\ UNCHANGED <<slot, caps, caller, reply_eps, client_new, buffer, main,
                   clientVars>>

\* The body of the while loop: release the lock, sleep on prim, and acquire
\* the lock again once woken.
SleepOn(t, from, prim, next) ==
    /\ At(t, from)
    /\ pool' = ThreadSleep(LockRelease(pool, "lock_global"), prim)
    /\ pc' = [pc EXCEPT ![t] = next]
    /\ UNCHANGED <<slot, caps, caller, reply_eps, client_new, buffer, main,
                   clientVars>>

\* server_loop's seL4_Send on the thread's slot: answers the client whose
\* reply capability it holds.
Reply(t) ==
    /\ caps' = [caps EXCEPT ![slot[t]] = NoClient]
    /\ req' = [c \in Clients |-> IF c = caps[slot[t]] THEN "none" ELSE req[c]]
    /\ left' = [c \in Clients |->
                  IF c = caps[slot[t]] THEN left[c] - 1 ELSE left[c]]

\* Mutant: nobody is woken.
FinishSilent(t, prim) ==
    /\ pool' = LockRelease(pool, "lock_global")
    /\ Reply(t)
    /\ pc' = [pc EXCEPT ![t] = "recv"]
    /\ UNCHANGED <<slot, caller, reply_eps, client_new, main, ep, id>>

\* The end of PRODUCER and CONSUMER: wake a sleeper of prim, release the
\* lock, reply and receive again.
Finish(t, prim) ==
    /\ pool' = LockRelease(ThreadWakeup(pool, prim), "lock_global")
    /\ Reply(t)
    /\ pc' = [pc EXCEPT ![t] = "recv"]
    /\ UNCHANGED <<slot, caller, reply_eps, client_new, main, ep, id>>

ProducerSave(t) == SaveRequest(t, "PRODUCER", "p_lock")
ProducerAcquire(t) == Acquire(t, "p_lock", "p_loop")
ProducerSleep(t) ==
    /\ buffer = buffer_limit
    /\ SleepOn(t, "p_loop", "producer_list", "p_lock")
\* Mutant: a producer wakes a producer.
PutWakesProducer(t) ==
    /\ At(t, "p_loop")
    /\ buffer # buffer_limit
    /\ buffer' = buffer + 1
    /\ Finish(t, "producer_list")
ProducerPut(t) ==
    /\ At(t, "p_loop")
    /\ buffer # buffer_limit
    /\ buffer' = buffer + 1
    /\ Finish(t, "consumer_list")

ConsumerSave(t) == SaveRequest(t, "CONSUMER", "c_lock")
ConsumerAcquire(t) == Acquire(t, "c_lock", "c_loop")
ConsumerSleep(t) ==
    /\ buffer = 0
    /\ SleepOn(t, "c_loop", "consumer_list", "c_lock")
\* Mutant: the while loop is left although the buffer is empty.
TakeUnchecked(t) ==
    /\ At(t, "c_loop")
    /\ buffer' = buffer - 1
    /\ Finish(t, "producer_list")
\* Mutant: the item stays in the buffer.
TakeKeeps(t) ==
    /\ At(t, "c_loop")
    /\ buffer # 0
    /\ buffer' = buffer
    /\ Finish(t, "producer_list")
ConsumerTake(t) ==
    /\ At(t, "c_loop")
    /\ buffer # 0
    /\ buffer' = buffer - 1
    /\ Finish(t, "producer_list")

\* TMNT: the thread exits, and its client is never answered.
HandleTmnt(t) ==
    /\ At(t, "TMNT")
    /\ pool' = ThreadExit(pool)
    /\ pc' = [pc EXCEPT ![t] = "gone"]
    /\ UNCHANGED <<slot, caps, caller, reply_eps, client_new, buffer, main,
                   clientVars>>

Producer(t) ==
    ProducerSave(t) \/ ProducerAcquire(t) \/ ProducerSleep(t) \/ ProducerPut(t)

Consumer(t) ==
    ConsumerSave(t) \/ ConsumerAcquire(t) \/ ConsumerSleep(t) \/ ConsumerTake(t)

ServerStep(t) ==
    Recv(t) \/ HandleInit(t) \/ Producer(t) \/ Consumer(t) \/ HandleTmnt(t)

Server == MainContinued \/ MainEnd \/ \E t \in Threads : ServerStep(t)

\* The test is over: every client is blocked in its TMNT call.
Terminated == main = "end" /\ (\A c \in Clients : req[c] = "TMNT") /\ UNCHANGED vars

Next == Server \/ (\E c \in Clients : Call(c)) \/ Terminated

Spec == Init /\ [][Next]_vars

\* The kernel schedules the server and every runnable client.
Fairness == WF_vars(Server) /\ \A c \in Clients : WF_vars(Call(c))

FairSpec == Spec /\ Fairness

-----------------------------------------------------------------------------
(* Properties. *)

Labels == {"INIT", "PRODUCER", "CONSUMER", "TMNT"}
PRequest == {"PRODUCER", "p_lock", "p_loop"}
CRequest == {"CONSUMER", "c_lock", "c_loop"}
InLoop == {"p_loop", "c_loop"}

PoolType == [running : Threads \cup {MainThread},
             ready   : Seq(Threads),
             wait    : [Prims -> Seq(Threads)],
             held    : [Prims -> BOOLEAN],
             helder  : [Prims -> Threads \cup {MainThread, NoHelder}]]

\* The type invariant.  The bound on buffer is the one the assertions in
\* PRODUCER and CONSUMER rest on.
TypeOK ==
    /\ pool \in PoolType
    /\ pc \in [Threads -> Labels \cup {"recv", "p_lock", "p_loop", "c_lock",
                                       "c_loop", "gone"}]
    /\ slot \in [Threads -> Slots]
    /\ caps \in [Slots -> Clients \cup {NoClient}]
    /\ caller \in Clients \cup {NoClient}
    /\ reply_eps \in [ClientIds -> Slots \cup {0}]
    /\ client_new \in 0..client_num
    /\ buffer \in 0..buffer_limit
    /\ main \in {"boot", "resumed", "end"}
    /\ ep \in Seq(Clients)
    /\ req \in [Clients -> Labels \cup {"none"}]
    /\ id \in [Clients -> ClientIds \cup {-1}]
    /\ left \in [Clients -> 0..Rounds]

\* lock_global is never held across a switch: whoever holds it is the
\* running thread, between its acquire and its release, so no green thread
\* ever sleeps on the lock.
LockNeverContended ==
    /\ pool.wait["lock_global"] = <<>>
    /\ \A t \in Threads : pc[t] \in InLoop => pool.running = t
    /\ IF pool.held["lock_global"]
       THEN pool.helder["lock_global"] = pool.running
            /\ \E t \in Threads : At(t, "p_loop") \/ At(t, "c_loop")
       ELSE \A t \in Threads : pc[t] \notin InLoop

\* Threads with an unfinished request of the role that do not sleep on prim.
Awake(role, prim) ==
    {t \in Threads : pc[t] \in role /\ t \notin Range(pool.wait[prim])}

\* No wakeup is lost: while a producer sleeps, there are at least as many
\* awake producers in flight as free places in the buffer, and the same for
\* consumers and items, although a newcomer may take the place or the item
\* that a woken thread was woken for.
NoLostWakeup ==
    /\ pool.wait["producer_list"] # <<>> =>
         Cardinality(Awake(PRequest, "producer_list")) >= buffer_limit - buffer
    /\ pool.wait["consumer_list"] # <<>> =>
         Cardinality(Awake(CRequest, "consumer_list")) >= buffer

\* The places where the reply to client c can be: the endpoint queue, the
\* kernel's caller slot, or the capability slots.
Pending(c) ==
    {<<"ep", i>> : i \in {j \in DOMAIN ep : ep[j] = c}}
      \cup {<<"caller", 0>> : x \in {c} \cap {caller}}
      \cup {<<"cap", s>> : s \in {r \in Slots : caps[r] = c}}

\* A client blocked in a call other than TMNT is reachable in exactly one
\* way, and through a slot only if a thread works on its request or its INIT
\* waits for the others: no saved reply capability is overwritten, dropped
\* by the next Recv or kept twice.
NoRequestForgotten ==
    \A c \in Clients :
      /\ req[c] = "none" => Pending(c) = {}
      /\ req[c] \in Labels \ {"TMNT"} => Cardinality(Pending(c)) = 1
      /\ \A s \in Slots : caps[s] = c =>
           \/ \E t \in Threads :
                /\ slot[t] = s
                /\ \/ req[c] = "PRODUCER" /\ pc[t] \in {"p_lock", "p_loop"}
                   \/ req[c] = "CONSUMER" /\ pc[t] \in {"c_lock", "c_loop"}
           \/ \E i \in ClientIds : reply_eps[i] = s /\ req[c] = "INIT"

\* thread_sleep never returns at once: a thread about to sleep in the while
\* loop of PRODUCER or CONSUMER finds another thread ready.  (Otherwise the
\* loop would spin forever and no message would be received again.)
NeverSpins ==
    \A t \in Threads :
      /\ At(t, "p_loop") /\ buffer = buffer_limit => pool.ready # <<>>
      /\ At(t, "c_loop") /\ buffer = 0 => pool.ready # <<>>

\* The main thread gets the processor back, and reports the end of the test,
\* only after the last TMNT: no client is left in a buffer request, and no
\* green thread is left asleep or ready.
EndMeansServed ==
    main # "boot" /\ pool.running = MainThread =>
      /\ \A c \in Clients : req[c] = "TMNT" /\ left[c] = 0
      /\ \A t \in Threads : pc[t] = "gone"
      /\ pool.ready = <<>> /\ \A p \in Prims : pool.wait[p] = <<>>

\* Every step changes the buffer and answers clients only as a bounded
\* buffer may: the item is stored or taken in the step that answers its own
\* client.
Buffer == INSTANCE BoundedBuffer
            WITH asked <- [c \in Clients |->
                             IF req[c] \in {"PRODUCER", "CONSUMER"}
                             THEN req[c] ELSE "none"]
ImplementsBuffer == Buffer!Spec

\* Every buffer request is answered, although the server may keep receiving
\* while the woken thread that holds the reply waits in the ready queue.
EveryRequestAnswered ==
    \A c \in Clients :
      req[c] \in {"INIT", "PRODUCER", "CONSUMER"} ~> req[c] = "none"

\* The test ends.
TestEnds == <>(main = "end")
=============================================================================
