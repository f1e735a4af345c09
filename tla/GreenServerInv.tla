--------------------------- MODULE GreenServerInv ---------------------------
(***************************************************************************)
(* The inductive invariant of GreenServer: what each part of the state     *)
(* says about the others between any two steps.                            *)
(***************************************************************************)
EXTENDS GreenServer

\* Slots handed out so far; every thread has its own.
SlotsInv ==
    /\ \A t \in Threads :
         slot[t] = t \/ slot[t] \in (client_num + 1)..(client_num + client_new)
    /\ \A t, u \in Threads : slot[t] = slot[u] => t = u

\* Ids are given out together, by the INIT of the last client; until then
\* the i-th caller's reply capability is in the i-th slot after the threads'.
BarrierInv ==
    /\ client_new < client_num =>
         /\ \A c \in Clients : id[c] = -1
         /\ \A i \in 0..(client_new - 1) :
              /\ reply_eps[i] = client_num + 1 + i
              /\ caps[client_num + 1 + i] \in Clients
              /\ req[caps[client_num + 1 + i]] = "INIT"
    /\ client_new = client_num => \A c \in Clients : id[c] # -1

\* A client's call fits its history.
ClientInv ==
    \A c \in Clients :
      /\ req[c] = "INIT" => id[c] = -1
      /\ req[c] \in Labels \ {"INIT"} => id[c] # -1
      /\ req[c] \in {"PRODUCER", "CONSUMER"} => left[c] > 0

\* A client is in at most one of the endpoint queue, the caller slot and the
\* capability slots, and only while it is blocked in a call.
PlaceInv ==
    /\ IsInjective(ep)
    /\ \A c \in Range(ep) : req[c] # "none" /\ c # caller
    /\ \A s \in Slots : caps[s] # NoClient =>
         /\ caps[s] \notin Range(ep)
         /\ caps[s] # caller
         /\ \A r \in Slots : caps[r] = caps[s] => r = s
    /\ caller # NoClient => req[caller] # "none"

\* A thread works on the request of the client its slot answers, and a
\* message in hand is the running thread's, with its caller unsaved.
WorkInv ==
    /\ \A t \in Threads :
         /\ pc[t] \in {"p_lock", "p_loop"} =>
              caps[slot[t]] \in Clients /\ req[caps[slot[t]]] = "PRODUCER"
         /\ pc[t] \in {"c_lock", "c_loop"} =>
              caps[slot[t]] \in Clients /\ req[caps[slot[t]]] = "CONSUMER"
         /\ pc[t] \in Labels =>
              /\ pool.running = t
              /\ caller \in Clients
              /\ req[caller] = pc[t]
    /\ \A s \in Slots : caps[s] # NoClient =>
         \/ \E t \in Threads :
              slot[t] = s /\ pc[t] \in {"p_lock", "p_loop", "c_lock", "c_loop"}
         \/ req[caps[s]] = "INIT" /\ client_new < client_num
                                  /\ s \in (client_num + 1)..(client_num + client_new)

\* Every thread is in at most one queue of the pool, the running one in none.
QueuesInv(p) ==
    /\ IsInjective(p.ready)
    /\ p.running \notin Range(p.ready)
    /\ \A q \in Prims :
         /\ IsInjective(p.wait[q])
         /\ p.running \notin Range(p.wait[q])
         /\ Range(p.ready) \cap Range(p.wait[q]) = {}
         /\ \A r \in Prims \ {q} : Range(p.wait[q]) \cap Range(p.wait[r]) = {}

\* Only threads with a request of the role sleep on the role's list.
PoolInv ==
    /\ QueuesInv(pool)
    /\ \A t \in Range(pool.wait["producer_list"]) : pc[t] = "p_lock"
    /\ \A t \in Range(pool.wait["consumer_list"]) : pc[t] = "c_lock"

\* Before the main thread starts the others nothing has happened to them.
BootInv ==
    main = "boot" => /\ pool = ThreadInitial(Prims)
                     /\ \A t \in Threads : pc[t] = "recv"

\* The inductive invariant.
IInv ==
    /\ TypeOK
    /\ SlotsInv
    /\ BarrierInv
    /\ ClientInv
    /\ PlaceInv
    /\ WorkInv
    /\ PoolInv
    /\ BootInv
    /\ LockNeverContended
    /\ NoLostWakeup

\* A client blocked in a call other than TMNT is in one of the three places,
\* and the caller slot is read only for the message in hand: what the next
\* Recv drops there belongs to a client in its TMNT call.
KeptInv ==
    /\ \A c \in Clients : req[c] \in Labels \ {"TMNT"} =>
         c \in Range(ep) \/ c = caller \/ \E s \in Slots : caps[s] = c
    /\ caller \in Clients /\ req[caller] # "TMNT" =>
         \E t \in Threads : At(t, req[caller])

-----------------------------------------------------------------------------
(* What the end of the test rests on. *)

\* The threads that the pool still knows.
Alive(p) ==
    {p.running} \cup Range(p.ready) \cup UNION {Range(p.wait[q]) : q \in Prims}

\* A thread is known to the pool until it exits.
AliveInv ==
    main # "boot" =>
      \A t \in Threads : t \in Alive(pool) <=> pc[t] # "gone"

\* Clients whose TMNT was received, and threads that received one.
Left == {c \in Clients : req[c] = "TMNT" /\ c \notin Range(ep)}
Leaving == {t \in Threads : pc[t] \in {"TMNT", "gone"}}

\* One thread leaves for every client that does.
LeaveInv == Cardinality(Left) = Cardinality(Leaving)

\* Every id is given to one client, which calls what its id says, as often
\* as it should, before its TMNT.
RoleInv ==
    /\ client_new = client_num =>
         /\ \A c, d \in Clients : id[c] = id[d] => c = d
         /\ \A i \in ClientIds : \E c \in Clients : id[c] = i
    /\ \A c \in Clients :
         /\ id[c] = -1 => left[c] = Rounds
         /\ req[c] = "TMNT" => left[c] = 0
         /\ req[c] = "PRODUCER" => id[c] % 2 = 1
         /\ req[c] = "CONSUMER" => id[c] % 2 = 0

\* The requests still to be answered of the clients with ids of the parity.
ToDo(parity) ==
    {x \in Clients \X (1..Rounds) : id[x[1]] % 2 = parity /\ x[2] <= left[x[1]]}

\* Before the barrier opens the buffer is empty; afterwards what is in it and
\* what will be put there is what will be taken, when there are as many
\* producers as consumers.
BalanceInv ==
    /\ client_new < client_num => buffer = 0
    /\ client_num % 2 = 0 /\ client_new = client_num =>
         Cardinality(ToDo(0)) = buffer + Cardinality(ToDo(1))

\* The invariant, on top of IInv, of the end of the test.
EndInv ==
    /\ AliveInv
    /\ LeaveInv
    /\ RoleInv
    /\ BalanceInv

=============================================================================
