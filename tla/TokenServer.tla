----------------------------- MODULE TokenServer -----------------------------
(***************************************************************************)
(* The token server of main.c built with GREEN_THREAD and without          *)
(* CONSUMER_PRODUCER: client_num green threads run server_loop on one      *)
(* kernel thread and pass a token between the clients, with the lock or    *)
(* with the semaphore of the green-thread library (variable build).        *)
(*                                                                         *)
(* The token clients are not in the repository.  What main.c tells them    *)
(* fixes what they do: INIT is answered with an id and a flag; the client  *)
(* with the flag calls WAIT; its WAIT is what answers the others, and each *)
(* client then calls SEND_WAIT a number of times and TMNT.                 *)
(*                                                                         *)
(* A step is the code a green thread runs between two points where it can  *)
(* lose the processor or receive a message.  Not modelled: THREAD_CV,      *)
(* whose primitive is the address of an uninitialised int that the library *)
(* reads as a queue; and the rdtsc output.                                 *)
(***************************************************************************)
EXTENDS GreenThreads, FiniteSets, Functions

CONSTANTS
    Clients,    \* the client processes
    NoClient,   \* an empty capability slot
    Rounds      \* SEND_WAIT calls of each client

client_num == Cardinality(Clients)

ASSUME TokenClients ==
    IsFiniteSet(Clients) /\ client_num \in Nat \ {0} /\ NoClient \notin Clients
ASSUME TokenRounds == Rounds \in Nat

Threads == 1..client_num
ClientIds == 0..(client_num - 1)
Slots == 1..(2 * client_num)
token == "sync_prim"

VARIABLES
    build,          \* the primitive the program is built with; never changes
    pool,           \* the thread pool
    count,          \* the count of the semaphore
    pc,             \* where each green thread is in server_loop
    slot,           \* t->slot: the capability slot of each thread
    caps,           \* the reply capability in each slot: the client it answers
    caller,         \* the reply capability of the last Recv, kept by the kernel
    reply_eps,      \* reply_eps[i]: the slot that answers the INIT of client i
    client_new,     \* clients that have called INIT
    terminate_num,  \* TMNT calls received
    main,           \* progress of main_continued
    ep,             \* clients queued on the endpoint
    req,            \* the call each client is blocked in, or "none"
    id,             \* the id each client received, or -1
    flag,           \* whether the client has still to call WAIT
    left            \* SEND_WAIT calls each client has still to make

serverVars == <<build, pool, count, pc, slot, caps, caller, reply_eps, client_new,
                terminate_num, main>>
clientVars == <<ep, req, id, flag, left>>
vars == <<serverVars, clientVars>>

Init ==
    /\ build \in {"THREAD_LOCK", "THREAD_SEMAPHORE"}
    /\ pool = ThreadInitial({token})
    /\ count = 0
    /\ pc = [t \in Threads |-> "recv"]
    /\ slot = [t \in Threads |-> t]
    /\ caps = [s \in Slots |-> NoClient]
    /\ caller = NoClient
    /\ reply_eps = [i \in ClientIds |-> 0]
    /\ client_new = 0
    /\ terminate_num = 0
    /\ main = "boot"
    /\ ep = <<>>
    /\ req = [c \in Clients |-> "none"]
    /\ id = [c \in Clients |-> -1]
    /\ flag = [c \in Clients |-> FALSE]
    /\ left = [c \in Clients |-> Rounds]

-----------------------------------------------------------------------------
(* The clients. *)

NextLabel(c) ==
    CASE id[c] = -1 -> "INIT"
      [] id[c] # -1 /\ flag[c] -> "WAIT"
      [] id[c] # -1 /\ ~flag[c] /\ left[c] # 0 -> "SEND_WAIT"
      [] id[c] # -1 /\ ~flag[c] /\ left[c] = 0 -> "TMNT"

\* seL4_Call of a client: it blocks, and queues on the endpoint.
Call(c) ==
    /\ req[c] = "none"
    /\ req' = [req EXCEPT ![c] = NextLabel(c)]
    /\ ep' = Append(ep, c)
    /\ UNCHANGED <<serverVars, id, flag, left>>

\* The clients in who get the reply to their call.
Answer(who) ==
    /\ req' = [c \in Clients |-> IF c \in who THEN "none" ELSE req[c]]
    /\ left' = [c \in Clients |-> IF c \in who /\ req[c] = "SEND_WAIT"
                                  THEN left[c] - 1 ELSE left[c]]

-----------------------------------------------------------------------------
(* The main thread. *)

\* main_continued creates the primitive, taken if it is the lock, and the
\* threads, and resumes the last one.
MainContinued ==
    /\ main = "boot"
    /\ pool' = MainResume([pool EXCEPT !.held[token] = (build = "THREAD_LOCK"),
                                       !.ready = [i \in Threads |-> i]],
                          client_num)
    /\ main' = "resumed"
    /\ UNCHANGED <<count, pc, slot, caps, caller, reply_eps, client_new,
                   terminate_num, clientVars>>

\* The main thread runs again: it reports the end of the test.
MainEnd ==
    /\ main = "resumed"
    /\ pool.running = MainThread
    /\ main' = "end"
    /\ UNCHANGED <<pool, count, pc, slot, caps, caller, reply_eps, client_new,
                   terminate_num, clientVars>>

-----------------------------------------------------------------------------
(* The green threads: t is the running one. *)

At(t, where) == pool.running = t /\ pc[t] = where

\* seL4_Recv in server_loop.
Recv(t) ==
    /\ At(t, "recv")
    /\ ep # <<>>
    /\ caller' = Head(ep)
    /\ ep' = Tail(ep)
    /\ pc' = [pc EXCEPT ![t] = req[Head(ep)]]
    /\ UNCHANGED <<pool, count, slot, caps, reply_eps, client_new,
                   terminate_num, main, req, id, flag, left>>

\* seL4_Send on reply_eps[i] for each i in ids, with id i and, for client 0
\* only, the flag; held says what is in the slots.
Emptied(held, eps, ids) ==
    [s \in Slots |-> IF \E i \in ids : eps[i] = s THEN NoClient ELSE held[s]]
SendIds(held, eps, ids) ==
    LET told == {c \in Clients : \E i \in ids : held[eps[i]] = c}
        IdOf(c) == CHOOSE i \in ids : held[eps[i]] = c
    IN  /\ Answer(told)
        /\ id' = [c \in Clients |-> IF c \in told THEN IdOf(c) ELSE id[c]]
        /\ flag' = [c \in Clients |-> IF c \in told THEN IdOf(c) = 0 ELSE flag[c]]

\* Mutant: the last INIT answers every client, as the other build does.
HandleInitAll(t) ==
    LET fresh == client_num + client_new + 1
        saved == [caps EXCEPT ![fresh] = caller]
        eps   == [reply_eps EXCEPT ![client_new] = fresh]
        ids   == {i \in ClientIds : client_new + 1 = client_num}
    IN  /\ At(t, "INIT")
        /\ client_new' = client_new + 1
        /\ slot' = [slot EXCEPT ![t] = fresh]
        /\ reply_eps' = eps
        /\ caps' = Emptied(saved, eps, ids)
        /\ SendIds(saved, eps, ids)
        /\ caller' = NoClient
        /\ pc' = [pc EXCEPT ![t] = "recv"]
        /\ UNCHANGED <<pool, count, terminate_num, main, ep>>

\* INIT: the client gets the next id and a fresh slot for its reply, which
\* becomes the thread's slot; the last INIT answers client 0 alone.
HandleInit(t) ==
    LET fresh == client_num + client_new + 1
        saved == [caps EXCEPT ![fresh] = caller]
        eps   == [reply_eps EXCEPT ![client_new] = fresh]
        ids   == {i \in {0} : client_new + 1 = client_num}
    IN  /\ At(t, "INIT")
        /\ client_new' = client_new + 1
        /\ slot' = [slot EXCEPT ![t] = fresh]
        /\ reply_eps' = eps
        /\ caps' = Emptied(saved, eps, ids)
        /\ SendIds(saved, eps, ids)
        /\ caller' = NoClient
        /\ pc' = [pc EXCEPT ![t] = "recv"]
        /\ UNCHANGED <<pool, count, terminate_num, main, ep>>

\* vka_cnode_saveCaller: moves the reply capability into s, and fails, with
\* only a message printed, when s is occupied.
SaveCaller(held, s) ==
    IF held[s] = NoClient
    THEN caps' = [held EXCEPT ![s] = caller] /\ caller' = NoClient
    ELSE caps' = held /\ UNCHANGED caller

\* Mutant: the reply capability is saved before the others are answered.
HandleWaitSaveFirst(t) ==
    LET saved == [caps EXCEPT ![slot[t]] = IF @ = NoClient THEN caller ELSE @]
    IN  /\ At(t, "WAIT")
        /\ SendIds(caps, reply_eps, ClientIds \ {0})
        /\ caps' = Emptied(saved, reply_eps, ClientIds \ {0})
        /\ caller' = IF caps[slot[t]] = NoClient THEN NoClient ELSE caller
        /\ pc' = [pc EXCEPT ![t] = "acquire"]
        /\ UNCHANGED <<pool, count, slot, reply_eps, client_new, terminate_num,
                       main, ep>>

\* WAIT: process_message_multicast answers the INIT of every other client,
\* then the reply capability is saved and the token asked for.  The thread
\* that handled the INITs saves in the slot of the last one.
HandleWait(t) ==
    /\ At(t, "WAIT")
    /\ SendIds(caps, reply_eps, ClientIds \ {0})
    /\ SaveCaller(Emptied(caps, reply_eps, ClientIds \ {0}), slot[t])
    /\ pc' = [pc EXCEPT ![t] = "acquire"]
    /\ UNCHANGED <<pool, count, slot, reply_eps, client_new, terminate_num,
                   main, ep>>

\* server_loop's seL4_Send on the thread's slot, after process_message.
Reply(t) ==
    LET c == caps[slot[t]]
    IN  /\ caps' = [caps EXCEPT ![slot[t]] = NoClient]
        /\ Answer({c})
        /\ flag' = [d \in Clients |-> flag[d] /\ d # c]
        /\ pc' = [pc EXCEPT ![t] = "recv"]
        /\ UNCHANGED <<slot, caller, reply_eps, client_new, terminate_num, main,
                       ep, id>>

\* The token is not there: the thread sleeps.  thread_sleep returns at once
\* when no thread is ready, and the loop of the library calls it again.
AcquireSleep(t) ==
    /\ At(t, "acquire")
    /\ IF build = "THREAD_LOCK" THEN pool.held[token] ELSE count = 0
    /\ pool' = ThreadSleep(pool, token)
    /\ UNCHANGED <<count, pc, slot, caps, caller, reply_eps, client_new,
                   terminate_num, main, clientVars>>

\* thread_lock_acquire or thread_semaphore_P gets the token: reply.
AcquireTake(t) ==
    /\ At(t, "acquire")
    /\ IF build = "THREAD_LOCK"
       THEN ~pool.held[token] /\ pool' = LockTake(pool, token) /\ UNCHANGED count
       ELSE count > 0 /\ count' = count - 1 /\ UNCHANGED pool
    /\ Reply(t)

\* Mutant: the two calls that main.c keeps as a comment, thread_lock_release
\* and thread_lock_acquire.
HandleSendWaitApart(t) ==
    /\ At(t, "SEND_WAIT")
    /\ SaveCaller(caps, slot[t])
    /\ pool' = LockRelease(pool, token)
    /\ count' = count
    /\ pc' = [pc EXCEPT ![t] = "acquire"]
    /\ UNCHANGED <<slot, reply_eps, client_new, terminate_num, main, clientVars>>

\* SEND_WAIT: the reply capability is saved and the token passed on.  With
\* the lock, thread_lock_release_acquire trades places with the sleeper; with
\* the semaphore, thread_semaphore_V is followed by thread_semaphore_P.
HandleSendWait(t) ==
    /\ At(t, "SEND_WAIT")
    /\ SaveCaller(caps, slot[t])
    /\ IF build = "THREAD_LOCK"
       THEN /\ pool' = LockReleaseAcquire(pool, token)
            /\ count' = count
            /\ pc' = [pc EXCEPT ![t] = "handed"]
       ELSE /\ pool' = ThreadWakeup(pool, token)
            /\ count' = count + 1
            /\ pc' = [pc EXCEPT ![t] = "acquire"]
    /\ UNCHANGED <<slot, reply_eps, client_new, terminate_num, main, clientVars>>

\* thread_lock_release_acquire returns: reply.
HandedReply(t) ==
    /\ At(t, "handed")
    /\ Reply(t)
    /\ UNCHANGED <<pool, count>>

\* Mutant: the thread wakes a sleeper before it exits.
HandleTmntWakes(t) ==
    /\ At(t, "TMNT")
    /\ terminate_num' = terminate_num + 1
    /\ pool' = ThreadExit(LockRelease(pool, token))
    /\ count' = count + 1
    /\ pc' = [pc EXCEPT ![t] = "gone"]
    /\ UNCHANGED <<slot, caps, caller, reply_eps, client_new, main, clientVars>>

\* TMNT: the thread exits, and its client is never answered.
HandleTmnt(t) ==
    /\ At(t, "TMNT")
    /\ terminate_num' = terminate_num + 1
    /\ pool' = ThreadExit(pool)
    /\ pc' = [pc EXCEPT ![t] = "gone"]
    /\ UNCHANGED <<count, slot, caps, caller, reply_eps, client_new, main,
                   clientVars>>

ServerStep(t) ==
    \/ Recv(t) \/ HandleInit(t) \/ HandleWait(t) \/ AcquireSleep(t)
    \/ AcquireTake(t) \/ HandleSendWait(t) \/ HandedReply(t) \/ HandleTmnt(t)

Server ==
    /\ MainContinued \/ MainEnd \/ \E t \in Threads : ServerStep(t)
    /\ UNCHANGED build

\* The test is over.
Terminated == main = "end" /\ UNCHANGED vars

Next == Server \/ (\E c \in Clients : Call(c)) \/ Terminated

Spec == Init /\ [][Next]_vars

\* The kernel schedules the server and every runnable client.
Fairness == WF_vars(Server) /\ \A c \in Clients : WF_vars(Call(c))

FairSpec == Spec /\ Fairness
-----------------------------------------------------------------------------
(* Properties. *)

Labels == {"INIT", "WAIT", "SEND_WAIT", "TMNT"}

\* The places where the reply to client c can be: the endpoint queue, the
\* kernel's caller slot, or the capability slots.
Pending(c) ==
    {<<"ep", i>> : i \in {j \in DOMAIN ep : ep[j] = c}}
      \cup {<<"caller", 0>> : x \in {c} \cap {caller}}
      \cup {<<"cap", s>> : s \in {r \in Slots : caps[r] = c}}

\* No reply is lost: although the slot of the thread that handles WAIT is
\* also the one of the last INIT, every client blocked in a call other than
\* TMNT can be answered in exactly one way, and no other client can.
NoReplyLost ==
    \A c \in Clients :
      /\ req[c] = "none" => Pending(c) = {}
      /\ req[c] \in Labels \ {"TMNT"} => Cardinality(Pending(c)) = 1

\* The threads that keep the request of a client asleep on the token.
Keepers(c) == {t \in Range(pool.wait[token]) : caps[slot[t]] = c}

\* The token is passed, not copied: a WAIT or SEND_WAIT is answered only once
\* the call of another client sleeps in its place (thread_wakeup_wait).  With
\* the semaphore, a client may get back what it has just passed on.
PassedToAnother ==
    [][build = "THREAD_LOCK" => \A c \in Clients :
         req[c] \in {"WAIT", "SEND_WAIT"} /\ req'[c] = "none" =>
           \E d \in Clients \ {c} : Keepers(d)' # {}]_vars

\* When the main thread gets the processor back, and reports the end of the
\* test, one client still waits for the token, its reply capability saved by
\* a thread that sleeps: TMNT passes nothing on, so terminate_num never
\* reaches client_num and the total time is never printed.
EndStrandsOne ==
    main # "boot" /\ pool.running = MainThread =>
      /\ terminate_num = client_num - 1
      /\ \E c \in Clients :
           /\ Keepers(c) # {}
           /\ \A d \in Clients \ {c} : req[d] = "TMNT"

\* With the lock, every test ends: the main thread gets the processor back
\* and reports it.
EndOfTest == build = "THREAD_LOCK" => <>(main = "end")

\* The line "end of test", which run_test.sh waits for, is printed in either
\* build.
EndReported == <>(main = "end")
=============================================================================
