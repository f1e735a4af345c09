----------------------------- MODULE TokenProofs -----------------------------
(***************************************************************************)
(* The token server keeps every reply, passes the token to another client  *)
(* and leaves one client behind at the end, for every number of clients    *)
(* and of rounds and with either primitive.                                *)
(***************************************************************************)
EXTENDS TokenServer, QueueLemmas

\* The last thread, which the main thread resumes and which handles INIT.
Last == client_num

Runs == pool.running
Sleepers == pool.wait[token]
Held == pool.held[token]

\* A thread that asked for the token and has a client to answer.
Parked == {"acquire", "handed"}

Blocking == {"INIT", "WAIT", "SEND_WAIT"}

PoolType ==
    [running: Threads \cup {MainThread},
     ready: Seq(Threads),
     wait: [{token} -> Seq(Threads)],
     held: [{token} -> BOOLEAN],
     helder: [{token} -> Threads \cup {MainThread, NoHelder}]]

TypeInv ==
    /\ build \in {"THREAD_LOCK", "THREAD_SEMAPHORE"}
    /\ pool \in PoolType
    /\ count \in Nat
    /\ pc \in [Threads -> Labels \cup Parked \cup {"recv", "gone"}]
    /\ slot \in [Threads -> Slots]
    /\ caps \in [Slots -> Clients \cup {NoClient}]
    /\ caller \in Clients \cup {NoClient}
    /\ reply_eps \in [ClientIds -> Nat]
    /\ client_new \in 0..client_num
    /\ terminate_num \in Nat
    /\ main \in {"boot", "resumed", "end"}
    /\ ep \in Seq(Clients)
    /\ req \in [Clients -> Labels \cup {"none"}]
    /\ id \in [Clients -> ClientIds \cup {-1}]
    /\ flag \in [Clients -> BOOLEAN]

\* A client is in at most one of the endpoint queue, the caller slot and the
\* capability slots, in one while it waits for an answer, and in none while it
\* is not in a call.
PlaceInv ==
    /\ IsInjective(ep)
    /\ \A c \in Range(ep) : req[c] # "none" /\ c # caller
    /\ caller # NoClient => req[caller] # "none"
    /\ \A s \in Slots : caps[s] # NoClient =>
         /\ req[caps[s]] \in Blocking
         /\ caps[s] \notin Range(ep)
         /\ caps[s] # caller
         /\ \A r \in Slots : caps[r] = caps[s] => r = s
    /\ \A c \in Clients : req[c] \in Blocking =>
         c \in Range(ep) \/ c = caller \/ \E s \in Slots : caps[s] = c

\* A message in hand is the running thread's; what is left in the caller slot
\* otherwise is a TMNT.
HandInv ==
    /\ \A t \in Threads : pc[t] \in Labels =>
         Runs = t /\ caller \in Clients /\ req[caller] = pc[t]
    /\ caller # NoClient =>
         req[caller] = "TMNT" \/ \E t \in Threads : pc[t] = req[caller]

\* The WAIT of client 0 has been handled.
Asked == pc[Last] = "acquire" \/ Sleepers # <<>>

\* Until then the last thread alone runs, and saves the i-th caller's reply
\* capability in the i-th slot after the threads'.
BeforeInv ==
    ~Asked =>
      /\ main = "boot" => pool = ThreadInitial({token}) /\ pc[Last] = "recv"
      /\ main # "boot" =>
           /\ main = "resumed" /\ Runs = Last
           /\ IsInjective(pool.ready) /\ Range(pool.ready) = Threads \ {Last}
           /\ Held <=> build = "THREAD_LOCK"
      /\ \A t \in Threads \ {Last} : pc[t] = "recv" /\ slot[t] = t
      /\ pc[Last] \in {"recv", "INIT", "WAIT"} /\ slot[Last] = Last + client_new
      /\ count = 0
      /\ \A s \in Slots : s <= Last \/ s > Last + client_new => caps[s] = NoClient
      /\ \A i \in ClientIds : i < client_new => reply_eps[i] = Last + 1 + i

\* Nobody has an answer before the last INIT.
InitsInv ==
    client_new < client_num =>
      /\ ~Asked
      /\ \A c \in Clients : id[c] = -1 /\ ~flag[c] /\ req[c] \in {"none", "INIT"}
      /\ \A i \in ClientIds : i < client_new => caps[Last + 1 + i] \in Clients

\* Client 0 is told its id and the others wait for its WAIT.
FirstInv ==
    ~Asked /\ client_new = client_num =>
      /\ caps[Last + 1] = NoClient
      /\ \E c \in Clients :
           /\ id[c] = 0 /\ flag[c] /\ req[c] \in {"none", "WAIT"}
           /\ \A s \in Slots : caps[s] # c
           /\ \A d \in Clients \ {c} :
                /\ id[d] = -1 /\ ~flag[d] /\ req[d] = "INIT"
                /\ \E i \in ClientIds \ {0} : caps[Last + 1 + i] = d

\* From then on a client waits for the token in the slot of a thread that has
\* asked for it.
AfterInv ==
    Asked =>
      /\ main # "boot"
      /\ \A t \in Threads : slot[t] = IF t = Last THEN 2 * client_num ELSE t
      /\ \A c \in Clients :
           /\ id[c] # -1 /\ req[c] # "INIT"
           /\ flag[c] => req[c] = "WAIT"
           /\ req[c] = "WAIT" => \E s \in Slots : caps[s] = c
      /\ \A s \in Slots : caps[s] # NoClient =>
           \E t \in Threads : slot[t] = s /\ pc[t] \in Parked
      /\ \A t \in Threads : pc[t] \in Parked => caps[slot[t]] \in Clients

\* Every thread is in one place; at most one sleeps.
QueueInv ==
    Asked =>
      /\ IsInjective(pool.ready) /\ Runs \notin Range(pool.ready)
      /\ \A t \in Threads : pc[t] = "gone" <=>
           t # Runs /\ t \notin Range(pool.ready) /\ t \notin Range(Sleepers)
      /\ \A t \in Range(pool.ready) :
           pc[t] = "recv" \/ (build = "THREAD_SEMAPHORE" /\ t = Last)
      /\ \A t \in Range(Sleepers) :
           /\ Sleepers = <<t>> /\ pc[t] \in Parked
           /\ t # Runs /\ t \notin Range(pool.ready)

\* With the lock a thread sleeps at all times, or is about to.
LockInv ==
    Asked /\ build = "THREAD_LOCK" =>
      /\ \A t \in Threads \ {Last} : pc[t] # "acquire"
      /\ Sleepers = <<>> => Runs = Last /\ Held
      /\ Sleepers # <<>> /\ Runs = Last /\ pc[Last] = "acquire" => ~Held

\* With the semaphore the last thread never gets the unit, and only that
\* thread sleeps.
SemInv ==
    Asked /\ build = "THREAD_SEMAPHORE" =>
      /\ pc[Last] = "acquire"
      /\ \A t \in Threads : pc[t] # "handed"
      /\ \A t \in Range(Sleepers) : t = Last
      /\ \A t \in Threads \ {Last} : pc[t] = "acquire" => t = Runs
      /\ count = IF Runs \in Threads \ {Last} /\ pc[Runs] = "acquire" THEN 1 ELSE 0

IInv ==
    /\ TypeInv /\ PlaceInv /\ HandInv /\ BeforeInv /\ InitsInv /\ FirstInv
    /\ AfterInv /\ QueueInv /\ LockInv /\ SemInv

\* The threads that exited, and the clients whose TMNT they handled.
Gone == {t \in Threads : pc[t] = "gone"}
Done == {c \in Clients : /\ req[c] = "TMNT" /\ c \notin Range(ep)
                         /\ \A t \in Threads : pc[t] = "TMNT" => c # caller}
DoneInv == Cardinality(Gone) = terminate_num /\ Cardinality(Done) = terminate_num
-----------------------------------------------------------------------------
(* The sets. *)

LEMMA NumFacts ==
    /\ client_num \in Nat /\ client_num >= 1
    /\ Last \in Threads /\ MainThread \notin Threads
    /\ \A t \in Threads : t \in Nat /\ t >= 1 /\ t <= Last /\ t \in Slots
<1>1. client_num \in Nat /\ client_num >= 1
  BY TokenClients
<1>2. QED
  BY <1>1 DEF Last, Threads, MainThread, Slots

\* The slots are the threads' and one for the INIT of each client.
LEMMA SlotFacts ==
    /\ 2 * client_num \in Slots
    /\ \A s \in Slots : s \in Nat
    /\ \A i \in ClientIds :
         i \in Nat /\ i < client_num /\ Last + 1 + i \in Slots /\ Last + 1 + i > Last
    /\ \A s \in Slots : s > Last => \E i \in ClientIds : s = Last + 1 + i
    /\ 0 \in ClientIds
<1>1. client_num \in Nat /\ client_num >= 1
  BY NumFacts, Zenon
<1>2. /\ 2 * client_num \in Slots
      /\ \A s \in Slots : s \in Nat
      /\ 0 \in ClientIds
      /\ \A i \in ClientIds :
           i \in Nat /\ i < client_num /\ Last + 1 + i \in Slots /\ Last + 1 + i > Last
  BY <1>1 DEF Slots, ClientIds, Last
<1>3. ASSUME NEW s \in Slots, s > Last
      PROVE  \E i \in ClientIds : s = Last + 1 + i
  <2>1. s - Last - 1 \in ClientIds /\ s = Last + 1 + (s - Last - 1)
    BY <1>1, <1>3 DEF Slots, ClientIds, Last
  <2>2. QED
    BY <2>1, Zenon
<1>4. QED
  BY <1>2, <1>3, Zenon

LEMMA LabelFacts ==
    /\ "recv" \notin Labels \cup Parked /\ "gone" \notin Labels \cup Parked
    /\ Labels \cap Parked = {} /\ "none" \notin Labels
    /\ Blocking \subseteq Labels /\ "TMNT" \in Labels \ Blocking
    /\ \A x \in Labels : x # "TMNT" => x \in Blocking
    /\ "acquire" \in Parked /\ "handed" \in Parked
  BY Zenon DEF Labels, Parked, Blocking

-----------------------------------------------------------------------------
(* The initial state. *)

LEMMA InitInv == Init => IInv
<1> SUFFICES ASSUME Init PROVE IInv
  BY Zenon
<1>1. TypeInv
  <2>1. pool \in PoolType /\ Sleepers = <<>> /\ pool.ready = <<>>
    BY DEF Init, ThreadInitial, PoolType, Sleepers
  <2>2. /\ slot \in [Threads -> Slots] /\ reply_eps \in [ClientIds -> Nat]
        /\ client_new \in 0..client_num /\ id \in [Clients -> ClientIds \cup {-1}]
    BY NumFacts DEF Init
  <2>3. QED
    BY <2>1, <2>2 DEF Init, TypeInv, Labels
<1>2. Sleepers = <<>> /\ pc[Last] = "recv" /\ ~Asked
  BY NumFacts, Zenon DEF Init, ThreadInitial, Sleepers, Asked
<1>3. PlaceInv
  BY DEF Init, PlaceInv, IsInjective, Range, Blocking
<1>4. HandInv
  BY Zenon DEF Init, HandInv, Labels
<1>5. BeforeInv
  BY NumFacts, <1>2 DEF Init, BeforeInv, Slots, ClientIds
<1>6. InitsInv
  BY NumFacts, <1>2 DEF Init, InitsInv, ClientIds
<1>7. FirstInv
  BY NumFacts DEF Init, FirstInv
<1>8. AfterInv /\ QueueInv /\ LockInv /\ SemInv
  BY <1>2, Zenon DEF AfterInv, QueueInv, LockInv, SemInv
<1>9. QED
  BY <1>1, <1>3, <1>4, <1>5, <1>6, <1>7, <1>8, Zenon DEF IInv
-----------------------------------------------------------------------------
(* The clients, and the receipt of a message. *)

\* A client outside of a call is in no place.
LEMMA Nowhere ==
    ASSUME IInv, NEW c \in Clients, req[c] = "none"
    PROVE  c \notin Range(ep) /\ c # caller /\ \A s \in Slots : caps[s] # c
<1>1. NoClient # c /\ "none" \notin Blocking
  BY TokenClients, Zenon DEF Blocking
<1>2. QED
  BY <1>1 DEF IInv, PlaceInv

\* The next call of a client fits the phase of the test.
LEMMA NextFacts ==
    ASSUME IInv, NEW c \in Clients, req[c] = "none"
    PROVE  /\ NextLabel(c) \in Labels
           /\ client_new < client_num => NextLabel(c) = "INIT"
           /\ ~Asked /\ client_new = client_num => NextLabel(c) = "WAIT"
           /\ Asked => NextLabel(c) \in {"SEND_WAIT", "TMNT"}
<1>1. /\ id[c] = -1 => NextLabel(c) = "INIT"
      /\ id[c] # -1 /\ flag[c] => NextLabel(c) = "WAIT"
      /\ id[c] # -1 /\ ~flag[c] => NextLabel(c) \in {"SEND_WAIT", "TMNT"}
  BY Zenon DEF NextLabel
<1>2. flag[c] \in BOOLEAN
  BY Zenon DEF IInv, TypeInv
<1>3. client_new < client_num => id[c] = -1
  BY Zenon DEF IInv, InitsInv
<1>4. ~Asked /\ client_new = client_num => id[c] = 0 /\ flag[c]
  BY Zenon DEF IInv, FirstInv
<1>5. Asked => id[c] # -1 /\ ~flag[c]
  BY Zenon DEF IInv, AfterInv
<1>6. QED
  BY <1>1, <1>2, <1>3, <1>4, <1>5 DEF Labels

LEMMA CallStep ==
    ASSUME IInv, NEW c \in Clients, Call(c)
    PROVE  IInv'
<1> DEFINE m == NextLabel(c)
<1>1. /\ req[c] = "none" /\ req' = [req EXCEPT ![c] = m] /\ ep' = Append(ep, c)
      /\ UNCHANGED <<build, pool, count, pc, slot, caps, caller, reply_eps,
                     client_new, terminate_num, main, id, flag>>
  BY Zenon DEF Call, serverVars
<1>2. /\ ep \in Seq(Clients) /\ req \in [Clients -> Labels \cup {"none"}]
      /\ caller \in Clients \cup {NoClient} /\ caps \in [Slots -> Clients \cup {NoClient}]
  BY Zenon DEF IInv, TypeInv
<1>3. c \notin Range(ep) /\ c # caller /\ \A s \in Slots : caps[s] # c
  BY <1>1, Nowhere, Zenon
<1>4. /\ m \in Labels
      /\ client_new < client_num => m = "INIT"
      /\ ~Asked /\ client_new = client_num => m = "WAIT"
      /\ Asked => m \in {"SEND_WAIT", "TMNT"}
  BY <1>1, NextFacts, Zenon
<1> HIDE DEF m
<1>5. /\ ep' \in Seq(Clients) /\ Range(ep') = Range(ep) \cup {c}
      /\ IsInjective(ep')
  BY <1>1, <1>2, <1>3, AppendFacts DEF IInv, PlaceInv
<1>6. /\ req' \in [Clients -> Labels \cup {"none"}] /\ req'[c] = m
      /\ \A d \in Clients : d # c => req'[d] = req[d]
  BY <1>1, <1>2, <1>4, Zenon
<1>7. UNCHANGED <<Asked, Runs, Sleepers, Held>>
  BY <1>1, Zenon DEF Asked, Runs, Sleepers, Held
<1>8. TypeInv'
  BY <1>1, <1>5, <1>6, Zenon DEF IInv, TypeInv
<1>9. PlaceInv'
  <2>1. IsInjective(ep') /\ \A d \in Range(ep') : req'[d] # "none" /\ d # caller'
    BY <1>1, <1>2, <1>3, <1>4, <1>5, <1>6, LabelFacts, RangeFacts DEF IInv, PlaceInv
  <2>2. caller' # NoClient => req'[caller'] # "none"
    BY <1>1, <1>2, <1>3, <1>6, Zenon DEF IInv, PlaceInv
  <2>3. ASSUME NEW s \in Slots, caps'[s] # NoClient
        PROVE  /\ req'[caps'[s]] \in Blocking
               /\ caps'[s] \notin Range(ep')
               /\ caps'[s] # caller'
               /\ \A r \in Slots : caps'[r] = caps'[s] => r = s
    BY <1>1, <1>2, <1>3, <1>5, <1>6, <2>3 DEF IInv, PlaceInv
  <2>4. ASSUME NEW d \in Clients, req'[d] \in Blocking
        PROVE  d \in Range(ep') \/ d = caller' \/ \E s \in Slots : caps'[s] = d
    BY <1>1, <1>5, <1>6, <2>4, Zenon DEF IInv, PlaceInv
  <2>5. QED
    BY <2>1, <2>2, <2>3, <2>4, Zenon DEF PlaceInv
<1>10. HandInv'
  BY <1>1, <1>2, <1>3, <1>6, <1>7, TokenClients, Zenon DEF IInv, HandInv
<1>11. BeforeInv' /\ QueueInv' /\ LockInv' /\ SemInv'
  BY <1>1, <1>7, Zenon DEF IInv, BeforeInv, QueueInv, LockInv, SemInv
<1>12. InitsInv'
  BY <1>1, <1>4, <1>6, <1>7, Zenon DEF IInv, InitsInv
<1>13. FirstInv'
  BY <1>1, <1>4, <1>6, <1>7 DEF IInv, FirstInv
<1>14. AfterInv'
  BY <1>1, <1>4, <1>6, <1>7 DEF IInv, AfterInv
<1>15. QED
  BY <1>8, <1>9, <1>10, <1>11, <1>12, <1>13, <1>14, Zenon DEF IInv
\* The running thread receives a message: it belongs to the phase of the test.
LEMMA RecvStep ==
    ASSUME IInv, NEW t \in Threads, Recv(t), UNCHANGED build
    PROVE  IInv'
<1> DEFINE c == Head(ep)
<1>1. /\ Runs = t /\ pc[t] = "recv" /\ ep # <<>>
      /\ caller' = c /\ ep' = Tail(ep) /\ pc' = [pc EXCEPT ![t] = req[c]]
      /\ UNCHANGED <<build, pool, count, slot, caps, reply_eps, client_new,
                     terminate_num, main, req, id, flag>>
  BY Zenon DEF Recv, At, Runs
<1>2. /\ ep \in Seq(Clients) /\ req \in [Clients -> Labels \cup {"none"}]
      /\ caller \in Clients \cup {NoClient} /\ caps \in [Slots -> Clients \cup {NoClient}]
      /\ pc \in [Threads -> Labels \cup Parked \cup {"recv", "gone"}]
  BY Zenon DEF IInv, TypeInv
<1>3. /\ c \in Clients /\ ep' \in Seq(Clients)
      /\ Range(ep) = Range(ep') \cup {c}
      /\ IsInjective(ep') /\ c \notin Range(ep')
  BY <1>1, <1>2, TailFacts, Zenon DEF IInv, PlaceInv
<1>4. /\ req[c] \in Labels /\ \A s \in Slots : caps[s] # c
      /\ c # NoClient /\ c # caller
  BY <1>2, <1>3, TokenClients DEF IInv, PlaceInv
<1> HIDE DEF c
<1>5. /\ pc' \in [Threads -> Labels \cup Parked \cup {"recv", "gone"}]
      /\ pc'[t] = req[c]
      /\ \A u \in Threads : u # t => pc'[u] = pc[u]
  BY <1>1, <1>2, <1>4, Zenon
<1>6. \A u \in Threads : pc[u] \notin Labels
  BY <1>1, LabelFacts, Zenon DEF IInv, HandInv
<1>7. UNCHANGED <<Asked, Runs, Sleepers, Held>>
  BY <1>1, <1>4, <1>5, LabelFacts DEF Asked, Runs, Sleepers, Held
<1>8. TypeInv'
  BY <1>1, <1>3, <1>5, Zenon DEF IInv, TypeInv
<1>9. PlaceInv'
  <2>1. \A d \in Range(ep') : req'[d] # "none" /\ d # caller'
    BY <1>1, <1>3, Zenon DEF IInv, PlaceInv
  <2>2. caller' # NoClient => req'[caller'] # "none"
    BY <1>1, <1>4, LabelFacts, Zenon
  <2>3. ASSUME NEW s \in Slots, caps'[s] # NoClient
        PROVE  /\ req'[caps'[s]] \in Blocking
               /\ caps'[s] \notin Range(ep')
               /\ caps'[s] # caller'
               /\ \A r \in Slots : caps'[r] = caps'[s] => r = s
    BY <1>1, <1>3, <1>4, <2>3, Zenon DEF IInv, PlaceInv
  <2>4. ASSUME NEW d \in Clients, req'[d] \in Blocking
        PROVE  d \in Range(ep') \/ d = caller' \/ \E s \in Slots : caps'[s] = d
    <3>1. d # caller
      BY <1>1, <1>6, <2>4, TokenClients, LabelFacts, Zenon DEF IInv, HandInv
    <3>2. QED
      BY <1>1, <1>3, <2>4, <3>1, Zenon DEF IInv, PlaceInv
  <2>5. QED
    BY <1>3, <2>1, <2>2, <2>3, <2>4, Zenon DEF PlaceInv
<1>10. HandInv'
  BY <1>1, <1>3, <1>5, <1>6, <1>7, Zenon DEF IInv, HandInv, Runs
<1>11. BeforeInv'
  <2>1. ASSUME ~Asked PROVE main # "boot" /\ t = Last /\ req[c] \in {"INIT", "WAIT"}
    <3>1. main # "boot" /\ t = Last
      BY <1>1, <2>1, NumFacts DEF IInv, BeforeInv, Runs, ThreadInitial
    <3>2. req[c] \in {"INIT", "WAIT"}
      <4>1. client_new < client_num \/ client_new = client_num
        BY NumFacts DEF IInv, TypeInv
      <4>2. CASE client_new < client_num
        BY <1>3, <1>4, <4>2, LabelFacts, Zenon DEF IInv, InitsInv
      <4>3. CASE client_new = client_num
        BY <1>3, <1>4, <2>1, <4>3, LabelFacts DEF IInv, FirstInv
      <4>4. QED
        BY <4>1, <4>2, <4>3, Zenon
    <3>3. QED
      BY <3>1, <3>2, Zenon
  <2>2. QED
    BY <1>1, <1>5, <1>7, <2>1 DEF IInv, BeforeInv
<1>12. InitsInv' /\ FirstInv'
  BY <1>1, <1>7 DEF IInv, InitsInv, FirstInv
<1>13. AfterInv'
  BY <1>1, <1>4, <1>5, <1>7, LabelFacts DEF IInv, AfterInv
<1>14. QueueInv'
  BY <1>1, <1>4, <1>5, <1>7, LabelFacts DEF IInv, QueueInv
<1>15. LockInv' /\ SemInv'
  BY <1>1, <1>4, <1>5, <1>7, LabelFacts DEF IInv, LockInv, SemInv
<1>16. QED
  BY <1>8, <1>9, <1>10, <1>11, <1>12, <1>13, <1>14, <1>15, Zenon DEF IInv
-----------------------------------------------------------------------------
(* The main thread. *)

\* thread_resume starts the last thread and leaves the others ready.
LEMMA ResumeFacts ==
    ASSUME NEW held \in BOOLEAN
    PROVE  LET p == ThreadInitial({token})
               q == MainResume([p EXCEPT !.held[token] = held,
                                         !.ready = [i \in Threads |-> i]], client_num)
           IN  /\ q \in PoolType /\ q.running = Last
               /\ IsInjective(q.ready) /\ Range(q.ready) = Threads \ {Last}
               /\ q.wait[token] = <<>> /\ q.held[token] = held
<1> DEFINE ids == [i \in 1..client_num |-> i]
           rest == [i \in 1..(client_num - 1) |-> i]
           wait == [r \in {token} |-> <<>>]
           taken == [r \in {token} |-> held]
           helder == [r \in {token} |-> NoHelder]
           p == [ThreadInitial({token}) EXCEPT !.held[token] = held,
                                               !.ready = [i \in Threads |-> i]]
           q == MainResume(p, client_num)
           less == [i \in 1..(Len(p.ready) - 1) |->
                      IF i < client_num THEN p.ready[i] ELSE p.ready[i + 1]]
<1>1. client_num \in Nat /\ client_num >= 1 /\ Last = client_num
  BY NumFacts, Zenon DEF Last
<1>2. p = [running |-> MainThread, ready |-> ids, wait |-> wait,
           held |-> taken, helder |-> helder]
  <2> DEFINE free == [r \in {token} |-> FALSE]
             i0 == [running |-> MainThread, ready |-> <<>>, wait |-> wait,
                    held |-> free, helder |-> helder]
  <2>1. ThreadInitial({token}) = i0 /\ [i \in Threads |-> i] = ids
    BY Zenon DEF ThreadInitial, Threads
  <2>2. [free EXCEPT ![token] = held] = taken
    BY Zenon
  <2>3. p = [i0 EXCEPT !.held[token] = held, !.ready = ids]
    BY <2>1, Zenon
  <2> HIDE DEF free, wait, helder, ids, taken
  <2>4. p = [i0 EXCEPT !.held = [i0.held EXCEPT ![token] = held], !.ready = ids]
    BY <2>3, Zenon
  <2>5. [i0.held EXCEPT ![token] = held] = taken
    BY <2>2, Zenon
  <2>6. p = [i0 EXCEPT !.held = taken, !.ready = ids]
    BY <2>4, <2>5, Zenon
  <2> HIDE DEF p
  <2>7. QED
    BY <2>6, Zenon
<1>3. Len(ids) = client_num /\ DOMAIN ids = 1..client_num
  BY <1>1
<1>4. (CHOOSE i \in DOMAIN ids : ids[i] = client_num) = client_num
  BY <1>1, <1>3
<1>5. /\ wait \in [{token} -> Seq(Threads)] /\ wait[token] = <<>>
      /\ taken \in [{token} -> BOOLEAN] /\ taken[token] = held
      /\ helder \in [{token} -> Threads \cup {MainThread, NoHelder}]
  OBVIOUS
<1>6. /\ rest \in Seq(Threads) /\ IsInjective(rest)
      /\ Range(rest) = Threads \ {Last}
  BY <1>1 DEF Threads, IsInjective, Range
<1> HIDE DEF wait, taken, helder
<1>7. p.ready = ids
  BY <1>2, Zenon
<1>8. less = rest
  BY <1>1, <1>3, <1>7
<1>9. q = [p EXCEPT !.running = client_num, !.ready = less]
  <2>1. q = [p EXCEPT !.running = client_num,
                      !.ready = [i \in 1..(Len(p.ready) - 1) |->
                                   IF i < (CHOOSE j \in DOMAIN p.ready :
                                             p.ready[j] = client_num)
                                   THEN p.ready[i] ELSE p.ready[i + 1]]]
    BY Zenon DEF MainResume
  <2>2. (CHOOSE j \in DOMAIN p.ready : p.ready[j] = client_num) = client_num
    BY <1>4, <1>7, Zenon
  <2> HIDE DEF p, q
  <2>3. QED
    BY <2>1, <2>2, Zenon
<1> HIDE DEF q, p, rest, ids, less
<1>10. q = [running |-> client_num, ready |-> rest, wait |-> wait,
            held |-> taken, helder |-> helder]
  BY <1>2, <1>8, <1>9, Zenon
<1>11. q \in PoolType
  BY <1>1, <1>5, <1>6, <1>10, NumFacts, Zenon DEF PoolType
<1>12. /\ q.running = Last /\ q.ready = rest
       /\ q.wait[token] = <<>> /\ q.held[token] = held
  BY <1>1, <1>5, <1>10, Zenon
<1>13. QED
  BY <1>6, <1>11, <1>12, Zenon DEF q, p

LEMMA MainStep ==
    ASSUME IInv, MainContinued \/ MainEnd, UNCHANGED build
    PROVE  IInv'
<1>1. /\ UNCHANGED <<build, count, pc, slot, caps, caller, reply_eps, client_new,
                     terminate_num, ep, req, id, flag>>
      /\ main' \in {"resumed", "end"}
  BY Zenon DEF MainContinued, MainEnd, clientVars
<1>2. PlaceInv'
  BY <1>1, Zenon DEF IInv, PlaceInv
<1>3. CASE MainContinued
  <2>1. /\ main = "boot" /\ main' = "resumed" /\ ~Asked
        /\ pool = ThreadInitial({token}) /\ pc[Last] = "recv"
    <3>1. main = "boot" /\ main' = "resumed"
      BY <1>3, Zenon DEF MainContinued
    <3>2. ~Asked
      BY <3>1, Zenon DEF IInv, AfterInv
    <3>3. QED
      BY <3>1, <3>2, Zenon DEF IInv, BeforeInv
  <2>2. /\ pool' \in PoolType /\ Runs' = Last
        /\ IsInjective(pool'.ready) /\ Range(pool'.ready) = Threads \ {Last}
        /\ Sleepers' = <<>> /\ (Held' <=> build = "THREAD_LOCK")
    BY <1>3, <2>1, ResumeFacts, Zenon DEF MainContinued, Runs, Sleepers, Held
  <2>3. ~Asked' /\ TypeInv'
    <3>1. ~Asked'
      BY <1>1, <2>1, <2>2, Zenon DEF Asked
    <3>2. TypeInv'
      <4>1. main' \in {"boot", "resumed", "end"} /\ pool' \in PoolType
        BY <2>1, <2>2, Zenon
      <4>2. QED
        BY <1>1, <4>1, Zenon DEF IInv, TypeInv
    <3>3. QED
      BY <3>1, <3>2, Zenon
  <2>4. BeforeInv' /\ InitsInv' /\ FirstInv'
    <3>1. BeforeInv'
      BY <1>1, <2>1, <2>2, <2>3, Zenon DEF IInv, BeforeInv
    <3>2. InitsInv' /\ FirstInv'
      BY <1>1, <2>1, <2>3 DEF IInv, InitsInv, FirstInv
    <3>3. QED
      BY <3>1, <3>2, Zenon
  <2>5. HandInv'
    <3>1. \A t \in Threads : pc[t] \notin Labels
      BY <2>1, LabelFacts DEF IInv, BeforeInv
    <3>2. QED
      BY <1>1, <3>1, Zenon DEF IInv, HandInv
  <2>6. AfterInv' /\ QueueInv' /\ LockInv' /\ SemInv'
    BY <2>3, Zenon DEF AfterInv, QueueInv, LockInv, SemInv
  <2>7. QED
    BY <1>2, <2>3, <2>4, <2>5, <2>6, Zenon DEF IInv
<1>4. CASE MainEnd
  <2>1. main = "resumed" /\ main' = "end" /\ UNCHANGED pool /\ Runs = MainThread
    BY <1>4, Zenon DEF MainEnd, Runs
  <2>2. Asked /\ UNCHANGED <<Asked, Runs, Sleepers, Held>>
    BY <1>1, <2>1, NumFacts, Zenon DEF IInv, BeforeInv, Asked, Runs, Sleepers, Held
  <2>3. TypeInv' /\ HandInv'
    BY <1>1, <2>1, <2>2, Zenon DEF IInv, TypeInv, HandInv
  <2>4. BeforeInv' /\ InitsInv' /\ FirstInv'
    BY <1>1, <2>2, Zenon DEF IInv, BeforeInv, InitsInv, FirstInv
  <2>5. AfterInv' /\ QueueInv' /\ LockInv' /\ SemInv'
    BY <1>1, <2>1, <2>2 DEF IInv, AfterInv, QueueInv, LockInv, SemInv
  <2>6. QED
    BY <1>2, <2>3, <2>4, <2>5, Zenon DEF IInv
<1>5. QED
  BY <1>3, <1>4, Zenon
-----------------------------------------------------------------------------
(* INIT. *)

\* There are as many ids as clients: different clients for all the ids are all
\* the clients (lemma ClientsCounted, below).
Counted ==
    \A f \in [ClientIds -> Clients] :
      (\A i, j \in ClientIds : f[i] = f[j] => i = j) =>
        \A c \in Clients : \E i \in ClientIds : f[i] = c

\* The thread that handles an INIT is the last one, and not all clients have
\* called INIT before.
LEMMA AtInit ==
    ASSUME IInv, NEW t \in Threads, At(t, "INIT")
    PROVE  /\ caller \in Clients /\ caller # NoClient /\ req[caller] = "INIT"
           /\ \A s \in Slots : caps[s] # caller
           /\ caller \notin Range(ep)
           /\ ~Asked /\ t = Last /\ main = "resumed"
           /\ client_new \in ClientIds /\ client_new + 1 <= client_num
<1>1. pc[t] = "INIT" /\ caller \in Clients /\ caller # NoClient /\ req[caller] = "INIT"
  BY TokenClients, Zenon DEF At, IInv, HandInv, Labels
<1>2. caller \notin Range(ep) /\ \A s \in Slots : caps[s] # caller
  BY <1>1, Zenon DEF IInv, PlaceInv
<1>3. ~Asked
  BY <1>1, Zenon DEF IInv, AfterInv
<1>4. t = Last /\ main = "resumed"
  BY <1>1, <1>3, Zenon DEF IInv, BeforeInv
<1>5. client_new # client_num
  <2>1. SUFFICES ASSUME client_new = client_num PROVE FALSE
    BY Zenon
  <2>2. \E i \in ClientIds : caps[Last + 1 + i] = caller
    BY <1>1, <1>3, <2>1 DEF IInv, FirstInv
  <2>3. QED
    BY <1>2, <2>2, SlotFacts, Zenon
<1>6. client_new \in ClientIds /\ client_new + 1 <= client_num
  BY <1>5, NumFacts DEF IInv, TypeInv, ClientIds
<1>7. QED
  BY <1>1, <1>2, <1>3, <1>4, <1>6, Zenon

\* The slots and reply_eps once the caller is saved.
LEMMA SavedFacts ==
    ASSUME IInv, NEW t \in Threads, At(t, "INIT"),
           NEW saved, saved = [caps EXCEPT ![client_num + client_new + 1] = caller],
           NEW eps, eps = [reply_eps EXCEPT ![client_new] = client_num + client_new + 1]
    PROVE  /\ client_num + client_new + 1 \in Slots
           /\ saved \in [Slots -> Clients \cup {NoClient}]
           /\ eps \in [ClientIds -> Nat]
           /\ \A i \in ClientIds : i < client_new + 1 =>
                eps[i] = Last + 1 + i /\ saved[Last + 1 + i] \in Clients
           /\ \A s \in Slots :
                s <= Last \/ s > Last + (client_new + 1) => saved[s] = NoClient
           /\ \A s \in Slots : saved[s] # NoClient =>
                /\ req[saved[s]] = "INIT" /\ saved[s] \notin Range(ep)
                /\ \A r \in Slots : saved[r] = saved[s] => r = s
           /\ \A c \in Clients : (\E s \in Slots : caps[s] = c) \/ c = caller =>
                \E s \in Slots : saved[s] = c
<1> DEFINE fresh == client_num + client_new + 1
<1>1. /\ caller \in Clients /\ caller # NoClient /\ req[caller] = "INIT"
      /\ \A s \in Slots : caps[s] # caller
      /\ caller \notin Range(ep) /\ ~Asked
      /\ client_new \in ClientIds /\ client_new + 1 <= client_num
  BY AtInit, Zenon
<1>2. /\ caps \in [Slots -> Clients \cup {NoClient}] /\ reply_eps \in [ClientIds -> Nat]
      /\ client_num \in Nat /\ client_new \in Nat /\ Last = client_num
  <2>1. caps \in [Slots -> Clients \cup {NoClient}] /\ reply_eps \in [ClientIds -> Nat]
    BY Zenon DEF IInv, TypeInv
  <2>2. client_num \in Nat /\ Last = client_num
    BY NumFacts, Zenon DEF Last
  <2>3. client_new \in Nat
    BY <1>1, <2>2 DEF ClientIds
  <2>4. QED
    BY <2>1, <2>2, <2>3, Zenon
<1>3. fresh \in Slots /\ fresh \in Nat /\ fresh = Last + 1 + client_new
  BY <1>1, <1>2, SlotFacts
<1>4. /\ saved \in [Slots -> Clients \cup {NoClient}] /\ saved[fresh] = caller
      /\ \A s \in Slots : s # fresh => saved[s] = caps[s]
  BY <1>1, <1>2, <1>3, Zenon
<1>5. /\ eps \in [ClientIds -> Nat] /\ eps[client_new] = fresh
      /\ \A i \in ClientIds : i # client_new => eps[i] = reply_eps[i]
  BY <1>1, <1>2, <1>3, Zenon
<1>6. /\ \A i \in ClientIds : i < client_new =>
           reply_eps[i] = Last + 1 + i /\ caps[Last + 1 + i] \in Clients
      /\ \A s \in Slots : s <= Last \/ s > Last + client_new => caps[s] = NoClient
      /\ \A c \in Clients : req[c] \in {"none", "INIT"}
  BY <1>1, <1>2, NumFacts DEF IInv, BeforeInv, InitsInv
<1> HIDE DEF fresh
<1>7. ASSUME NEW i \in ClientIds, i < client_new + 1
      PROVE  eps[i] = Last + 1 + i /\ saved[Last + 1 + i] \in Clients
  <2>1. CASE i = client_new
    BY <1>1, <1>3, <1>4, <1>5, <2>1, Zenon
  <2>2. CASE i # client_new
    <3>1. i < client_new /\ Last + 1 + i \in Slots /\ Last + 1 + i # fresh
      BY <1>2, <1>3, <1>7, <2>2, SlotFacts
    <3>2. QED
      BY <1>4, <1>5, <1>6, <2>2, <3>1, Zenon
  <2>3. QED
    BY <2>1, <2>2, Zenon
<1>8. ASSUME NEW s \in Slots, s <= Last \/ s > Last + (client_new + 1)
      PROVE  saved[s] = NoClient
  <2>1. s # fresh /\ (s <= Last \/ s > Last + client_new)
    BY <1>2, <1>3, <1>8, SlotFacts
  <2>2. QED
    BY <1>4, <1>6, <2>1, Zenon
<1>9. ASSUME NEW s \in Slots, saved[s] # NoClient
      PROVE  /\ req[saved[s]] = "INIT" /\ saved[s] \notin Range(ep)
             /\ \A r \in Slots : saved[r] = saved[s] => r = s
  <2>1. CASE s = fresh
    BY <1>1, <1>4, <2>1, Zenon
  <2>2. CASE s # fresh
    <3>1. saved[s] = caps[s] /\ caps[s] \in Clients
      BY <1>2, <1>4, <1>9, <2>2, Zenon
    <3>2. /\ req[caps[s]] \in Blocking /\ caps[s] \notin Range(ep)
          /\ \A r \in Slots : caps[r] = caps[s] => r = s
      BY <1>9, <3>1, Zenon DEF IInv, PlaceInv
    <3>3. req[caps[s]] = "INIT"
      BY <1>6, <3>1, <3>2, Zenon DEF Blocking
    <3>4. QED
      BY <1>1, <1>4, <3>1, <3>2, <3>3, Zenon
  <2>3. QED
    BY <2>1, <2>2, Zenon
<1>10. ASSUME NEW c \in Clients, (\E s \in Slots : caps[s] = c) \/ c = caller
       PROVE  \E s \in Slots : saved[s] = c
  <2>1. caps[fresh] \notin Clients
    <3>1. fresh > Last + client_new
      BY <1>2, <1>3
    <3>2. QED
      BY <1>3, <1>6, <3>1, TokenClients, Zenon
  <2>2. QED
    BY <1>3, <1>4, <1>10, <2>1, Zenon
<1>11. QED
  BY <1>3, <1>4, <1>5, <1>7, <1>8, <1>9, <1>10, Zenon DEF fresh
\* What any INIT does: the thread is back at Recv, in the fresh slot.
LEMMA InitCommon ==
    ASSUME IInv, NEW t \in Threads, HandleInit(t), UNCHANGED build
    PROVE  /\ HandInv' /\ BeforeInv' /\ AfterInv' /\ QueueInv' /\ LockInv' /\ SemInv'
           /\ ~Asked' /\ caller' = NoClient
           /\ (id' \in [Clients -> ClientIds \cup {-1}] /\ flag' \in [Clients -> BOOLEAN]
               => TypeInv')
<1> DEFINE saved == [caps EXCEPT ![client_num + client_new + 1] = caller]
           eps == [reply_eps EXCEPT ![client_new] = client_num + client_new + 1]
           ids == {i \in {0} : client_new + 1 = client_num}
<1>1. /\ At(t, "INIT") /\ client_new' = client_new + 1
      /\ slot' = [slot EXCEPT ![t] = client_num + client_new + 1]
      /\ reply_eps' = eps /\ caps' = Emptied(saved, eps, ids) /\ SendIds(saved, eps, ids)
      /\ caller' = NoClient /\ pc' = [pc EXCEPT ![t] = "recv"]
      /\ UNCHANGED <<build, pool, count, terminate_num, main, ep>>
  BY Zenon DEF HandleInit
<1>2. client_num \in Nat /\ client_new \in Nat /\ Last = client_num
  BY NumFacts DEF IInv, TypeInv, Last
<1>3. /\ client_num + client_new + 1 \in Slots
      /\ saved \in [Slots -> Clients \cup {NoClient}]
      /\ eps \in [ClientIds -> Nat]
      /\ \A i \in ClientIds : i < client_new + 1 =>
           eps[i] = Last + 1 + i /\ saved[Last + 1 + i] \in Clients
      /\ \A s \in Slots :
           s <= Last \/ s > Last + (client_new + 1) => saved[s] = NoClient
  BY <1>1, SavedFacts, Zenon
<1>4. /\ ~Asked /\ t = Last /\ main = "resumed" /\ client_new + 1 <= client_num
  BY <1>1, AtInit, Zenon
<1> HIDE DEF saved, eps, ids
<1>5. /\ caps' \in [Slots -> Clients \cup {NoClient}]
      /\ \A s \in Slots : caps'[s] = NoClient \/ caps'[s] = saved[s]
  BY <1>1, <1>3, Zenon DEF Emptied
<1>6. pc' \in [Threads -> {"recv"}] /\ ~Asked' /\ UNCHANGED <<Runs, Sleepers, Held>>
  <2>1. \A u \in Threads \ {Last} : pc[u] = "recv"
    BY <1>4, Zenon DEF IInv, BeforeInv
  <2>2. pc \in [Threads -> Labels \cup Parked \cup {"recv", "gone"}]
    BY Zenon DEF IInv, TypeInv
  <2>3. pc' \in [Threads -> {"recv"}]
    BY <1>1, <1>4, <2>1, <2>2, Zenon
  <2>4. UNCHANGED <<Runs, Sleepers, Held>>
    BY <1>1, Zenon DEF Runs, Sleepers, Held
  <2>5. ~Asked'
    BY <1>4, <2>3, <2>4, NumFacts, Zenon DEF Asked
  <2>6. QED
    BY <2>3, <2>4, <2>5, Zenon
<1>7. /\ client_new' \in 0..client_num
      /\ slot' \in [Threads -> Slots] /\ slot'[Last] = Last + client_new'
      /\ \A u \in Threads \ {Last} : slot'[u] = slot[u]
  BY <1>1, <1>2, <1>3, <1>4 DEF IInv, TypeInv
<1>8. ASSUME id' \in [Clients -> ClientIds \cup {-1}], flag' \in [Clients -> BOOLEAN]
      PROVE  TypeInv'
  <2>1. pc' \in [Threads -> Labels \cup Parked \cup {"recv", "gone"}]
    BY <1>6, Zenon
  <2>2. req' \in [Clients -> Labels \cup {"none"}]
    BY <1>1, Zenon DEF SendIds, Answer, IInv, TypeInv
  <2>3. QED
    BY <1>1, <1>3, <1>5, <1>7, <1>8, <2>1, <2>2, Zenon DEF IInv, TypeInv
<1>9. HandInv'
  BY <1>1, <1>6, LabelFacts, Zenon DEF HandInv
<1>10. BeforeInv'
  <2>1. /\ main # "boot" /\ Runs = Last /\ count = 0
        /\ IsInjective(pool.ready) /\ Range(pool.ready) = Threads \ {Last}
        /\ Held <=> build = "THREAD_LOCK"
        /\ \A u \in Threads \ {Last} : slot[u] = u
    BY <1>4, Zenon DEF IInv, BeforeInv
  <2>2. /\ \A s \in Slots : s <= Last \/ s > Last + client_new' => caps'[s] = NoClient
        /\ \A i \in ClientIds : i < client_new' => reply_eps'[i] = Last + 1 + i
    BY <1>1, <1>3, <1>5, Zenon
  <2>3. /\ \A u \in Threads \ {Last} : pc'[u] = "recv" /\ slot'[u] = u
        /\ pc'[Last] \in {"recv", "INIT", "WAIT"}
    BY <1>6, <1>7, <2>1, NumFacts, Zenon
  <2>4. QED
    BY <1>1, <1>4, <1>6, <1>7, <2>1, <2>2, <2>3, Zenon DEF BeforeInv, Last
<1>11. AfterInv' /\ QueueInv' /\ LockInv' /\ SemInv'
  BY <1>6, Zenon DEF AfterInv, QueueInv, LockInv, SemInv
<1>12. QED
  BY <1>1, <1>6, <1>8, <1>9, <1>10, <1>11, Zenon

\* Not the last INIT: nobody is answered.
LEMMA EarlierInit ==
    ASSUME IInv, NEW t \in Threads, HandleInit(t), UNCHANGED build,
           client_new + 1 < client_num
    PROVE  IInv'
<1> DEFINE saved == [caps EXCEPT ![client_num + client_new + 1] = caller]
           eps == [reply_eps EXCEPT ![client_new] = client_num + client_new + 1]
           ids == {i \in {0} : client_new + 1 = client_num}
<1>1. /\ At(t, "INIT") /\ client_new' = client_new + 1
      /\ caps' = Emptied(saved, eps, ids) /\ SendIds(saved, eps, ids)
      /\ UNCHANGED ep
  BY Zenon DEF HandleInit
<1>2. client_num \in Nat /\ client_new \in Nat /\ client_new < client_num
  BY NumFacts DEF IInv, TypeInv
<1>3. ids = {}
  BY <1>2
<1>4. /\ saved \in [Slots -> Clients \cup {NoClient}]
      /\ \A i \in ClientIds : i < client_new + 1 => saved[Last + 1 + i] \in Clients
      /\ \A s \in Slots : saved[s] # NoClient =>
           /\ req[saved[s]] = "INIT" /\ saved[s] \notin Range(ep)
           /\ \A r \in Slots : saved[r] = saved[s] => r = s
      /\ \A c \in Clients : (\E s \in Slots : caps[s] = c) \/ c = caller =>
           \E s \in Slots : saved[s] = c
  BY <1>1, SavedFacts, Zenon
<1>5. /\ HandInv' /\ BeforeInv' /\ AfterInv' /\ QueueInv' /\ LockInv' /\ SemInv'
      /\ ~Asked' /\ caller' = NoClient
      /\ (id' \in [Clients -> ClientIds \cup {-1}] /\ flag' \in [Clients -> BOOLEAN]
          => TypeInv')
  BY InitCommon, Zenon
<1> HIDE DEF saved, eps, ids
<1>6. caps' = saved
  BY <1>1, <1>3, <1>4, Zenon DEF Emptied
<1>7. UNCHANGED <<req, id, flag>>
  BY <1>1, <1>3, Zenon DEF SendIds, Answer, IInv, TypeInv
<1>8. TypeInv'
  BY <1>5, <1>7, Zenon DEF IInv, TypeInv
<1>9. PlaceInv'
  <2>1. \A c \in Range(ep) : c \in Clients /\ req[c] # "none" /\ c # NoClient
    BY RangeFacts, TokenClients DEF IInv, TypeInv, PlaceInv
  <2>2. \A s \in Slots : saved[s] # NoClient =>
           /\ req[saved[s]] \in Blocking /\ saved[s] \notin Range(ep)
           /\ \A r \in Slots : saved[r] = saved[s] => r = s
    BY <1>4, Zenon DEF Blocking
  <2>3. \A c \in Clients : req[c] \in Blocking =>
          c \in Range(ep) \/ \E s \in Slots : saved[s] = c
    BY <1>4, Zenon DEF IInv, PlaceInv
  <2>4. IsInjective(ep)
    BY Zenon DEF IInv, PlaceInv
  <2>5. QED
    BY <1>1, <1>5, <1>6, <1>7, <2>1, <2>2, <2>3, <2>4, Zenon DEF PlaceInv
<1>10. InitsInv'
  <2>1. \A c \in Clients : id[c] = -1 /\ ~flag[c] /\ req[c] \in {"none", "INIT"}
    BY <1>2, Zenon DEF IInv, InitsInv
  <2>2. \A i \in ClientIds : i < client_new' => caps'[Last + 1 + i] \in Clients
    BY <1>1, <1>4, <1>6, Zenon
  <2>3. QED
    BY <1>5, <1>7, <2>1, <2>2, Zenon DEF InitsInv, Last
<1>11. FirstInv'
  BY <1>1, <1>2 DEF FirstInv
<1>12. QED
  BY <1>5, <1>8, <1>9, <1>10, <1>11, Zenon DEF IInv

\* The last INIT answers the first client that called: all clients have a slot.
LEMMA LastInit ==
    ASSUME IInv, Counted, NEW t \in Threads, HandleInit(t), UNCHANGED build,
           client_new + 1 = client_num
    PROVE  IInv'
<1> DEFINE saved == [caps EXCEPT ![client_num + client_new + 1] = caller]
           eps == [reply_eps EXCEPT ![client_new] = client_num + client_new + 1]
           ids == {i \in {0} : client_new + 1 = client_num}
           f == [i \in ClientIds |-> saved[Last + 1 + i]]
           first == saved[Last + 1]
<1>1. /\ At(t, "INIT") /\ client_new' = client_new + 1
      /\ caps' = Emptied(saved, eps, ids) /\ SendIds(saved, eps, ids)
      /\ UNCHANGED ep
  BY Zenon DEF HandleInit
<1>2. client_num \in Nat /\ client_new \in Nat /\ client_new < client_num
  BY NumFacts DEF IInv, TypeInv
<1>3. ids = {0}
  BY Zenon
<1>4. /\ saved \in [Slots -> Clients \cup {NoClient}]
      /\ \A i \in ClientIds : i < client_new + 1 =>
           eps[i] = Last + 1 + i /\ saved[Last + 1 + i] \in Clients
      /\ \A s \in Slots : saved[s] # NoClient =>
           /\ req[saved[s]] = "INIT" /\ saved[s] \notin Range(ep)
           /\ \A r \in Slots : saved[r] = saved[s] => r = s
      /\ \A c \in Clients : (\E s \in Slots : caps[s] = c) \/ c = caller =>
           \E s \in Slots : saved[s] = c
  BY <1>1, SavedFacts, Zenon
<1>5. /\ HandInv' /\ BeforeInv' /\ AfterInv' /\ QueueInv' /\ LockInv' /\ SemInv'
      /\ ~Asked' /\ caller' = NoClient
      /\ (id' \in [Clients -> ClientIds \cup {-1}] /\ flag' \in [Clients -> BOOLEAN]
          => TypeInv')
  BY InitCommon, Zenon
<1> HIDE DEF saved, eps, ids
<1>6. /\ first \in Clients /\ first # NoClient /\ eps[0] = Last + 1 /\ Last + 1 \in Slots
      /\ \A s \in Slots : saved[s] = first => s = Last + 1
  <2>1. 0 < client_new + 1 /\ 0 \in ClientIds /\ Last + 1 + 0 = Last + 1
    BY <1>2, SlotFacts, NumFacts
  <2>2. eps[0] = Last + 1 /\ Last + 1 \in Slots /\ first \in Clients
    BY <1>4, <2>1, SlotFacts, Zenon
  <2>3. QED
    BY <1>4, <2>2, TokenClients, Zenon
<1>7. \A c \in Clients : \E i \in ClientIds : saved[Last + 1 + i] = c
  <2>1. \A i \in ClientIds : i < client_new + 1 /\ Last + 1 + i \in Slots /\ i \in Nat
    BY <1>2, SlotFacts, Zenon
  <2>2. f \in [ClientIds -> Clients]
    BY <1>4, <2>1, Zenon
  <2>3. ASSUME NEW i \in ClientIds, NEW j \in ClientIds, f[i] = f[j] PROVE i = j
    <3>1. saved[Last + 1 + i] = saved[Last + 1 + j] /\ saved[Last + 1 + j] # NoClient
      BY <1>4, <2>1, <2>3, TokenClients, Zenon
    <3>2. Last + 1 + i = Last + 1 + j
      BY <1>4, <2>1, <3>1, Zenon
    <3>3. QED
      BY <2>1, <3>2, NumFacts
  <2>4. \A c \in Clients : \E i \in ClientIds : f[i] = c
    BY <2>2, <2>3, Zenon DEF Counted
  <2>5. QED
    BY <2>4, Zenon
<1> HIDE DEF first, f
<1>8. /\ caps'[Last + 1] = NoClient
      /\ \A s \in Slots : s # Last + 1 => caps'[s] = saved[s]
      /\ \A s \in Slots : caps'[s] # first
  <2>1. caps' = [s \in Slots |-> IF \E i \in {0} : eps[i] = s THEN NoClient ELSE saved[s]]
    BY <1>1, <1>3, Zenon DEF Emptied
  <2>2. caps'[Last + 1] = NoClient /\ \A s \in Slots : s # Last + 1 => caps'[s] = saved[s]
    BY <1>6, <2>1, Zenon
  <2>3. QED
    BY <1>6, <2>2, Zenon
<1>9. /\ req'[first] = "none" /\ id'[first] = 0 /\ flag'[first]
      /\ \A d \in Clients \ {first} :
           req'[d] = req[d] /\ id'[d] = id[d] /\ (flag'[d] <=> flag[d])
      /\ id' \in [Clients -> ClientIds \cup {-1}] /\ flag' \in [Clients -> BOOLEAN]
  <2> DEFINE told == {c \in Clients : \E i \in ids : saved[eps[i]] = c}
             IdOf(c) == CHOOSE i \in ids : saved[eps[i]] = c
  <2>1. told = {first} /\ IdOf(first) = 0
    BY <1>3, <1>6, Zenon DEF first
  <2>2. /\ req' = [c \in Clients |-> IF c \in told THEN "none" ELSE req[c]]
        /\ id' = [c \in Clients |-> IF c \in told THEN IdOf(c) ELSE id[c]]
        /\ flag' = [c \in Clients |-> IF c \in told THEN IdOf(c) = 0 ELSE flag[c]]
    BY <1>1, Zenon DEF SendIds, Answer
  <2> HIDE DEF told, IdOf
  <2>3. id \in [Clients -> ClientIds \cup {-1}] /\ flag \in [Clients -> BOOLEAN]
    BY Zenon DEF IInv, TypeInv
  <2>4. /\ req'[first] = "none" /\ id'[first] = 0 /\ flag'[first]
        /\ \A d \in Clients \ {first} :
             req'[d] = req[d] /\ id'[d] = id[d] /\ flag'[d] = flag[d]
    BY <1>6, <2>1, <2>2, Zenon
  <2>5. id' \in [Clients -> ClientIds \cup {-1}]
    BY <1>6, <2>1, <2>2, <2>3, SlotFacts, Zenon
  <2>6. flag' \in [Clients -> BOOLEAN]
    BY <1>6, <2>1, <2>2, <2>3, Zenon
  <2>7. QED
    BY <2>4, <2>5, <2>6, Zenon
<1>10. TypeInv'
  BY <1>5, <1>9, Zenon
<1>11. ASSUME NEW d \in Clients \ {first}
       PROVE  \E i \in ClientIds \ {0} : caps'[Last + 1 + i] = d
  <2>1. PICK i \in ClientIds : saved[Last + 1 + i] = d
    BY <1>7, Zenon
  <2>2. i # 0
    BY <1>11, <2>1, NumFacts DEF first
  <2>3. Last + 1 + i \in Slots /\ Last + 1 + i # Last + 1
    BY <2>2, SlotFacts, NumFacts
  <2>4. QED
    BY <1>8, <2>1, <2>2, <2>3, Zenon
<1>12. \A d \in Clients : req[d] = "INIT" /\ d \notin Range(ep)
  <2>1. \A i \in ClientIds : Last + 1 + i \in Slots
    BY SlotFacts, Zenon
  <2>2. QED
    BY <1>4, <1>7, <2>1, TokenClients
<1>13. PlaceInv'
  <2>1. IsInjective(ep') /\ Range(ep') = {}
    BY <1>1, <1>12, RangeFacts, Zenon DEF IInv, TypeInv, PlaceInv
  <2>2. ASSUME NEW s \in Slots, caps'[s] # NoClient
        PROVE  /\ req'[caps'[s]] \in Blocking
               /\ caps'[s] # caller'
               /\ \A r \in Slots : caps'[r] = caps'[s] => r = s
    <3>1. s # Last + 1 /\ caps'[s] = saved[s] /\ saved[s] \in Clients /\ saved[s] # first
      BY <1>4, <1>6, <1>8, <2>2, Zenon
    <3>2. req'[caps'[s]] = "INIT"
      BY <1>9, <1>12, <3>1, Zenon
    <3>3. QED
      BY <1>4, <1>5, <1>6, <1>8, <2>2, <3>1, <3>2 DEF Blocking
  <2>3. ASSUME NEW c \in Clients, req'[c] \in Blocking PROVE \E s \in Slots : caps'[s] = c
    <3>1. c # first
      BY <1>9, <2>3, Zenon DEF Blocking
    <3>2. QED
      BY <1>11, <3>1, SlotFacts, Zenon
  <2>4. QED
    BY <1>5, <2>1, <2>2, <2>3, Zenon DEF PlaceInv
<1>14. InitsInv'
  BY <1>1, <1>2 DEF InitsInv
<1>15. FirstInv'
  <2>1. \A d \in Clients : id[d] = -1 /\ ~flag[d]
    BY <1>2, Zenon DEF IInv, InitsInv
  <2>2. \A d \in Clients \ {first} : id'[d] = -1 /\ ~flag'[d] /\ req'[d] = "INIT"
    BY <1>9, <1>12, <2>1, Zenon
  <2>3. QED
    BY <1>6, <1>8, <1>9, <1>11, <2>2 DEF FirstInv, Last
<1>16. QED
  BY <1>5, <1>10, <1>13, <1>14, <1>15, Zenon DEF IInv
-----------------------------------------------------------------------------
(* WAIT. *)

\* A WAIT is handled by the last thread, for client 0, when every other client
\* waits for the answer to its INIT.
LEMMA AtWait ==
    ASSUME IInv, NEW t \in Threads, At(t, "WAIT")
    PROVE  /\ caller \in Clients /\ req[caller] = "WAIT" /\ id[caller] = 0 /\ flag[caller]
           /\ ~Asked /\ t = Last /\ main = "resumed" /\ client_new = client_num
           /\ \A s \in Slots : caps[s] # caller
           /\ caps[Last + 1] = NoClient /\ ep = <<>>
           /\ \A d \in Clients \ {caller} : \E i \in ClientIds \ {0} : caps[Last + 1 + i] = d
<1>1. pc[t] = "WAIT" /\ caller \in Clients /\ caller # NoClient /\ req[caller] = "WAIT"
  BY TokenClients, Zenon DEF At, IInv, HandInv, Labels
<1>2. caller \notin Range(ep) /\ \A s \in Slots : caps[s] # caller
  BY <1>1, Zenon DEF IInv, PlaceInv
<1>3. ~Asked
  BY <1>1, <1>2, Zenon DEF IInv, AfterInv
<1>4. t = Last /\ main = "resumed"
  BY <1>1, <1>3, Zenon DEF IInv, BeforeInv
<1>5. client_new = client_num
  <2>1. ~(client_new < client_num)
    BY <1>1, Zenon DEF IInv, InitsInv
  <2>2. QED
    BY <2>1, NumFacts DEF IInv, TypeInv
<1>6. PICK c \in Clients :
        /\ id[c] = 0 /\ flag[c]
        /\ \A d \in Clients \ {c} :
             /\ req[d] = "INIT" /\ \E i \in ClientIds \ {0} : caps[Last + 1 + i] = d
  BY <1>3, <1>5, Zenon DEF IInv, FirstInv
<1>7. c = caller
  BY <1>1, <1>6, Zenon
<1>8. caps[Last + 1] = NoClient
  BY <1>3, <1>5, Zenon DEF IInv, FirstInv
<1>9. \A d \in Clients \ {caller} : \E i \in ClientIds \ {0} : caps[Last + 1 + i] = d
  BY <1>6, <1>7, Zenon
<1>10. ep = <<>>
  <2>1. \A d \in Clients : d \notin Range(ep)
    <3>1. SUFFICES ASSUME NEW d \in Clients, d # caller PROVE d \notin Range(ep)
      BY <1>2, Zenon
    <3>2. PICK i \in ClientIds \ {0} : caps[Last + 1 + i] = d
      BY <1>9, <3>1, Zenon
    <3>3. Last + 1 + i \in Slots /\ d # NoClient
      BY SlotFacts, TokenClients, Zenon
    <3>4. QED
      BY <3>2, <3>3, Zenon DEF IInv, PlaceInv
  <2>2. QED
    BY <2>1, RangeFacts, EmptyFacts DEF IInv, TypeInv
<1>11. QED
  BY <1>1, <1>2, <1>3, <1>4, <1>5, <1>6, <1>7, <1>8, <1>9, <1>10, Zenon

LEMMA HandleWaitStep ==
    ASSUME IInv, NEW t \in Threads, HandleWait(t), UNCHANGED build
    PROVE  IInv'
<1> DEFINE ids == ClientIds \ {0}
           held == Emptied(caps, reply_eps, ids)
           told == {c \in Clients : \E i \in ids : caps[reply_eps[i]] = c}
           IdOf(c) == CHOOSE i \in ids : caps[reply_eps[i]] = c
<1>1. /\ At(t, "WAIT") /\ SendIds(caps, reply_eps, ids) /\ SaveCaller(held, slot[t])
      /\ pc' = [pc EXCEPT ![t] = "acquire"]
      /\ UNCHANGED <<build, pool, count, slot, reply_eps, client_new, terminate_num,
                     main, ep>>
  BY Zenon DEF HandleWait
<1>2. /\ caller \in Clients /\ req[caller] = "WAIT" /\ id[caller] = 0 /\ flag[caller]
      /\ ~Asked /\ t = Last /\ main = "resumed" /\ client_new = client_num
      /\ \A s \in Slots : caps[s] # caller
      /\ caps[Last + 1] = NoClient /\ ep = <<>>
      /\ \A d \in Clients \ {caller} : \E i \in ClientIds \ {0} : caps[Last + 1 + i] = d
  BY <1>1, AtWait, Zenon
<1>3. /\ Runs = Last /\ IsInjective(pool.ready) /\ Range(pool.ready) = Threads \ {Last}
      /\ (Held <=> build = "THREAD_LOCK") /\ count = 0
      /\ \A u \in Threads \ {Last} : pc[u] = "recv" /\ slot[u] = u
      /\ slot[Last] = Last + client_new
      /\ \A s \in Slots : s <= Last => caps[s] = NoClient
      /\ \A i \in ClientIds : i < client_new => reply_eps[i] = Last + 1 + i
  BY <1>2, Zenon DEF IInv, BeforeInv
<1>4. /\ slot[Last] = 2 * client_num /\ 2 * client_num \in Slots
      /\ \A i \in ClientIds : reply_eps[i] = Last + 1 + i
  BY <1>2, <1>3, SlotFacts, NumFacts DEF Last
<1>5. told = Clients \ {caller} /\ \A d \in told : IdOf(d) \in ids
  <2>1. \A i \in ids : Last + 1 + i \in Slots /\ reply_eps[i] = Last + 1 + i
    BY <1>4, SlotFacts, Zenon
  <2>2. QED
    BY <1>2, <2>1
<1>6. held = [s \in Slots |-> NoClient]
  <2>1. held = [s \in Slots |-> IF \E i \in ids : reply_eps[i] = s THEN NoClient ELSE caps[s]]
    BY Zenon DEF Emptied
  <2>2. ASSUME NEW s \in Slots, ~\E i \in ids : reply_eps[i] = s PROVE caps[s] = NoClient
    <3>1. CASE s <= Last
      BY <1>3, <3>1, Zenon
    <3>2. CASE s > Last
      <4>1. PICK i \in ClientIds : s = Last + 1 + i
        BY <3>2, SlotFacts, Zenon
      <4>2. i = 0
        BY <1>4, <2>2, <4>1, Zenon
      <4>3. s = Last + 1
        BY <4>1, <4>2, NumFacts
      <4>4. QED
        BY <1>2, <4>3, Zenon
    <3>3. QED
      BY <3>1, <3>2, SlotFacts, NumFacts
  <2>3. QED
    BY <2>1, <2>2, Zenon
<1>7. /\ caps' = [held EXCEPT ![2 * client_num] = caller] /\ caller' = NoClient
  <2>1. slot[t] = 2 * client_num /\ held[2 * client_num] = NoClient
    BY <1>2, <1>4, <1>6
  <2> HIDE DEF held
  <2>2. QED
    BY <1>1, <2>1, Zenon DEF SaveCaller
<1>8. /\ req' = [c \in Clients |-> IF c \in told THEN "none" ELSE req[c]]
      /\ id' = [c \in Clients |-> IF c \in told THEN IdOf(c) ELSE id[c]]
      /\ flag' = [c \in Clients |-> IF c \in told THEN IdOf(c) = 0 ELSE flag[c]]
  BY <1>1, Zenon DEF SendIds, Answer
<1> HIDE DEF told, IdOf, held
<1>9. /\ caps' \in [Slots -> Clients \cup {NoClient}] /\ caps'[2 * client_num] = caller
      /\ \A s \in Slots : s # 2 * client_num => caps'[s] = NoClient
  BY <1>2, <1>4, <1>6, <1>7, Zenon
<1>10. /\ req'[caller] = "WAIT" /\ \A d \in Clients \ {caller} : req'[d] = "none"
       /\ req' \in [Clients -> Labels \cup {"none"}]
  BY <1>2, <1>5, <1>8, Zenon DEF Labels
<1>11. /\ \A d \in Clients : id'[d] # -1
       /\ id' \in [Clients -> ClientIds \cup {-1}]
  <2>1. -1 \notin ids
    BY SlotFacts
  <2>2. id \in [Clients -> ClientIds \cup {-1}]
    BY Zenon DEF IInv, TypeInv
  <2>3. QED
    BY <1>2, <1>5, <1>8, <2>1, <2>2
<1>12. /\ \A d \in Clients \ {caller} : ~flag'[d]
       /\ flag' \in [Clients -> BOOLEAN]
  <2>1. flag \in [Clients -> BOOLEAN]
    BY Zenon DEF IInv, TypeInv
  <2>2. \A d \in told : IdOf(d) # 0
    BY <1>5, Zenon
  <2>3. QED
    BY <1>5, <1>8, <2>1, <2>2, Zenon
<1>13. /\ pc' \in [Threads -> {"recv", "acquire"}] /\ pc'[Last] = "acquire"
       /\ \A u \in Threads \ {Last} : pc'[u] = "recv"
  BY <1>1, <1>2, <1>3 DEF IInv, TypeInv
<1>14. Asked' /\ Sleepers' = <<>> /\ Runs' = Runs /\ (Held' <=> Held)
  BY <1>1, <1>2, <1>13, Zenon DEF Asked, Runs, Sleepers, Held, Last
<1>15. TypeInv'
  <2>1. pc' \in [Threads -> Labels \cup Parked \cup {"recv", "gone"}]
    BY <1>13, Zenon DEF Parked
  <2>2. QED
    BY <1>1, <1>7, <1>9, <1>10, <1>11, <1>12, <2>1, Zenon DEF IInv, TypeInv
<1>16. PlaceInv'
  <2>1. IsInjective(ep') /\ Range(ep') = {}
    BY <1>1, <1>2 DEF Range, IsInjective
  <2>2. QED
    <3>1. \A s \in Slots : caps'[s] # NoClient => s = 2 * client_num /\ caps'[s] = caller
      BY <1>9, Zenon
    <3>2. "WAIT" \in Blocking /\ "none" \notin Blocking
      BY DEF Blocking
    <3>3. 2 * client_num \in Slots /\ req'[caller] \in Blocking
      BY <1>4, <1>10, <3>2, Zenon
    <3>4. \A d \in Clients : req'[d] \in Blocking => d = caller
      BY <1>10, <3>2, Zenon
    <3>5. QED
      BY <1>2, <1>7, <1>9, <2>1, <3>1, <3>3, <3>4, TokenClients DEF PlaceInv
<1>17. HandInv'
  BY <1>7, <1>13, Zenon DEF HandInv, Labels
<1>18. BeforeInv' /\ FirstInv' /\ InitsInv'
  <2>1. BeforeInv' /\ FirstInv'
    BY <1>14, Zenon DEF BeforeInv, FirstInv
  <2>2. client_new' = client_num
    BY <1>1, <1>2, Zenon
  <2>3. ~(client_num < client_num)
    BY NumFacts
  <2>4. QED
    BY <2>1, <2>2, <2>3, Zenon DEF InitsInv
<1>19. AfterInv'
  <2>1. \A u \in Threads : slot'[u] = IF u = Last THEN 2 * client_num ELSE u
    BY <1>1, <1>3, <1>4, Zenon
  <2>2. \A c \in Clients : /\ id'[c] # -1 /\ req'[c] # "INIT"
                           /\ flag'[c] => req'[c] = "WAIT"
                           /\ req'[c] = "WAIT" => \E s \in Slots : caps'[s] = c
    BY <1>4, <1>9, <1>10, <1>11, <1>12
  <2>3. \A s \in Slots : caps'[s] # NoClient =>
          \E u \in Threads : slot'[u] = s /\ pc'[u] \in Parked
    BY <1>9, <1>13, <2>1, NumFacts, Zenon DEF Parked
  <2>4. \A u \in Threads : pc'[u] \in Parked => caps'[slot'[u]] \in Clients
    BY <1>2, <1>9, <1>13, <2>1 DEF Parked
  <2>5. QED
    BY <1>1, <1>2, <2>1, <2>2, <2>3, <2>4, Zenon DEF AfterInv, Last
<1>20. QueueInv'
  <2>1. Range(Sleepers') = {}
    BY <1>14 DEF Range
  <2>2. \A u \in Threads : pc'[u] # "gone"
    BY <1>13, Zenon
  <2>3. QED
    BY <1>1, <1>3, <1>13, <1>14, <2>1, <2>2, NumFacts, Zenon DEF QueueInv
<1>21. LockInv'
  BY <1>1, <1>3, <1>13, <1>14, NumFacts DEF LockInv, Last
<1>22. SemInv'
  <2>1. Range(Sleepers') = {}
    BY <1>14 DEF Range
  <2>2. QED
    BY <1>1, <1>3, <1>13, <1>14, <2>1, NumFacts DEF SemInv, Last
<1>23. QED
  BY <1>15, <1>16, <1>17, <1>18, <1>19, <1>20, <1>21, <1>22, Zenon DEF IInv
-----------------------------------------------------------------------------
(* The library calls on the pool. *)

\* The pool p with another running thread, ready queue and queue of sleepers.
Moved(p, run, ready, w) ==
    [p EXCEPT !.running = run, !.ready = ready, !.wait = [p.wait EXCEPT ![token] = w]]

IsMoved(q, p, run, ready, w) ==
    /\ q \in PoolType /\ q.running = run /\ q.ready = ready
    /\ q.wait[token] = w /\ q.held = p.held

LEMMA MovedFacts ==
    ASSUME NEW p \in PoolType, NEW run \in Threads \cup {MainThread},
           NEW ready \in Seq(Threads), NEW w \in Seq(Threads)
    PROVE  IsMoved(Moved(p, run, ready, w), p, run, ready, w)
<1>1. p.wait \in [{token} -> Seq(Threads)]
  BY Zenon DEF PoolType
<1> DEFINE wait == [p.wait EXCEPT ![token] = w]
           q == Moved(p, run, ready, w)
<1>2. wait \in [{token} -> Seq(Threads)] /\ wait[token] = w
  BY <1>1, Zenon
<1>3. q = [p EXCEPT !.running = run, !.ready = ready, !.wait = wait]
  BY Zenon DEF Moved
<1> HIDE DEF wait, q
<1>4. q \in PoolType /\ q.running = run /\ q.ready = ready /\ q.wait = wait /\ q.held = p.held
  BY <1>2, <1>3, Zenon DEF PoolType
<1>5. QED
  BY <1>2, <1>4, Zenon DEF q, IsMoved

\* thread_sleep with a ready thread.
LEMMA SleepPool ==
    ASSUME pool \in PoolType, pool.running \in Threads, pool.ready # <<>>
    PROVE  IsMoved(ThreadSleep(pool, token), pool, Head(pool.ready), Tail(pool.ready),
                   Append(pool.wait[token], pool.running))
<1> DEFINE w == Append(pool.wait[token], pool.running)
<1>1. pool.ready \in Seq(Threads) /\ pool.wait[token] \in Seq(Threads)
  BY Zenon DEF PoolType
<1>2. /\ Head(pool.ready) \in Threads \cup {MainThread} /\ Tail(pool.ready) \in Seq(Threads)
      /\ w \in Seq(Threads)
  BY <1>1, TailFacts, AppendFacts, Zenon
<1>3. ThreadSleep(pool, token) = Moved(pool, Head(pool.ready), Tail(pool.ready), w)
  BY Zenon DEF ThreadSleep, Moved
<1>4. QED
  BY <1>2, <1>3, MovedFacts, Zenon

\* thread_wakeup of the only sleeper.
LEMMA WakePool ==
    ASSUME pool \in PoolType, NEW w \in Threads, pool.wait[token] = <<w>>
    PROVE  IsMoved(ThreadWakeup(pool, token), pool, pool.running,
                   Append(pool.ready, w), <<>>)
<1>1. /\ pool.ready \in Seq(Threads) /\ pool.running \in Threads \cup {MainThread}
      /\ pool.wait[token] # <<>> /\ Head(pool.wait[token]) = w /\ Tail(pool.wait[token]) = <<>>
  BY DEF PoolType
<1>2. Append(pool.ready, w) \in Seq(Threads) /\ <<>> \in Seq(Threads)
  BY <1>1, AppendFacts
<1>3. ThreadWakeup(pool, token) =
        [pool EXCEPT !.ready = Append(pool.ready, w),
                     !.wait = [pool.wait EXCEPT ![token] = <<>>]]
  BY <1>1, Zenon DEF ThreadWakeup
<1>4. ThreadWakeup(pool, token) = Moved(pool, pool.running, Append(pool.ready, w), <<>>)
  BY <1>3, Zenon DEF PoolType, Moved
<1>5. QED
  BY <1>1, <1>2, <1>4, MovedFacts, Zenon

\* thread_lock_release_acquire with one sleeper: the threads trade places.
LEMMA SwapPool ==
    ASSUME pool \in PoolType, pool.running \in Threads,
           NEW w \in Threads, pool.wait[token] = <<w>>
    PROVE  LET q == LockReleaseAcquire(pool, token)
           IN  /\ q \in PoolType /\ q.running = w /\ q.ready = pool.ready
               /\ q.wait[token] = <<pool.running>> /\ ~q.held[token]
<1> DEFINE free == [pool.held EXCEPT ![token] = FALSE]
           none == [pool.helder EXCEPT ![token] = NoHelder]
           p == [pool EXCEPT !.held = free, !.helder = none]
           q == LockReleaseAcquire(pool, token)
<1>1. /\ free \in [{token} -> BOOLEAN] /\ ~free[token]
      /\ none \in [{token} -> Threads \cup {MainThread, NoHelder}]
  BY Zenon DEF PoolType
<1>2. q = ThreadWakeupWait(p, token)
  BY Zenon DEF LockReleaseAcquire
<1> HIDE DEF free, none, q
<1>3. /\ p \in PoolType /\ p.running = pool.running /\ p.ready = pool.ready
      /\ p.wait = pool.wait /\ p.held = free
  BY <1>1, Zenon DEF PoolType
<1> HIDE DEF p
<1>4. /\ p.wait[token] = <<w>> /\ p.ready \in Seq(Threads)
  BY <1>3, Zenon DEF PoolType
<1>5. p.wait[token] # <<>> /\ Head(p.wait[token]) = w
  BY <1>4
<1>6. Append(Tail(p.wait[token]), p.running) = <<pool.running>>
  <2>1. Tail(<<w>>) = <<>> /\ Append(<<>>, pool.running) = <<pool.running>>
    OBVIOUS
  <2>2. QED
    BY <1>3, <1>4, <2>1, Zenon
<1>7. <<pool.running>> \in Seq(Threads) /\ w \in Threads \cup {MainThread}
  OBVIOUS
<1>8. q = [p EXCEPT !.running = w, !.wait = [p.wait EXCEPT ![token] = <<pool.running>>]]
  BY <1>2, <1>5, <1>6, Zenon DEF ThreadWakeupWait
<1>9. q = Moved(p, w, p.ready, <<pool.running>>)
  BY <1>3, <1>8, Zenon DEF PoolType, Moved
<1>10. IsMoved(q, p, w, p.ready, <<pool.running>>)
  BY <1>3, <1>4, <1>7, <1>9, MovedFacts, Zenon
<1>11. QED
  BY <1>1, <1>3, <1>10, Zenon DEF IsMoved, q

\* thread_lock_acquire of a free lock.
LEMMA TakePool ==
    ASSUME pool \in PoolType
    PROVE  LET q == LockTake(pool, token)
           IN  /\ q \in PoolType /\ q.running = pool.running /\ q.ready = pool.ready
               /\ q.wait[token] = pool.wait[token]
<1> DEFINE held == [pool.held EXCEPT ![token] = TRUE]
           helder == [pool.helder EXCEPT ![token] = pool.running]
<1>1. /\ held \in [{token} -> BOOLEAN]
      /\ helder \in [{token} -> Threads \cup {MainThread, NoHelder}]
  BY Zenon DEF PoolType
<1>2. LockTake(pool, token) = [pool EXCEPT !.held = held, !.helder = helder]
  BY Zenon DEF LockTake
<1> HIDE DEF held, helder
<1>3. QED
  BY <1>1, <1>2, Zenon DEF PoolType

\* thread_exit: the first ready thread runs, or the main thread.
LEMMA ExitPool ==
    ASSUME pool \in PoolType
    PROVE  LET q == ThreadExit(pool)
           IN  /\ q \in PoolType /\ q.wait[token] = pool.wait[token]
               /\ (q.held[token] <=> pool.held[token])
               /\ IF pool.ready = <<>>
                  THEN q.running = MainThread /\ q.ready = pool.ready
                  ELSE q.running = Head(pool.ready) /\ q.ready = Tail(pool.ready)
<1>1. pool.ready \in Seq(Threads)
  BY Zenon DEF PoolType
<1>2. CASE pool.ready = <<>>
  BY <1>2, Zenon DEF ThreadExit, PoolType
<1>3. CASE pool.ready # <<>>
  <2>1. Head(pool.ready) \in Threads /\ Tail(pool.ready) \in Seq(Threads)
    BY <1>1, <1>3, TailFacts, Zenon
  <2>2. ThreadExit(pool) = [pool EXCEPT !.running = Head(pool.ready), !.ready = Tail(pool.ready)]
    BY <1>3, Zenon DEF ThreadExit
  <2>3. QED
    BY <1>3, <2>1, <2>2, Zenon DEF PoolType
<1>4. QED
  BY <1>2, <1>3, Zenon
-----------------------------------------------------------------------------
(* The token is asked for and passed. *)

\* Nothing of the first phase remains.
LEMMA AskedKept ==
    ASSUME IInv, Asked, Asked', client_new' = client_new
    PROVE  BeforeInv' /\ InitsInv' /\ FirstInv'
<1>1. ~(client_new < client_num)
  BY Zenon DEF IInv, InitsInv
<1>2. QED
  BY <1>1, Zenon DEF BeforeInv, InitsInv, FirstInv

\* The threads keep their replies apart, and a thread that has not asked for
\* the token keeps none.
LEMMA SlotsApart ==
    ASSUME IInv, Asked
    PROVE  /\ \A t, u \in Threads : slot[t] = slot[u] => t = u
           /\ \A t \in Threads : slot[t] \in Slots
           /\ \A t \in Threads : pc[t] \notin Parked => caps[slot[t]] = NoClient
<1>1. \A t \in Threads : slot[t] = IF t = Last THEN 2 * client_num ELSE t
  BY Zenon DEF IInv, AfterInv
<1>2. \A t \in Threads : slot[t] \in Slots
  BY Zenon DEF IInv, TypeInv
<1>3. \A t, u \in Threads : slot[t] = slot[u] => t = u
  <2>1. \A t \in Threads : t # Last => t < 2 * client_num
    BY NumFacts DEF Last
  <2>2. QED
    BY <1>1, <2>1, NumFacts
<1>4. \A t \in Threads : pc[t] \notin Parked => caps[slot[t]] = NoClient
  BY <1>2, <1>3 DEF IInv, AfterInv
<1>5. QED
  BY <1>2, <1>3, <1>4, Zenon

\* A thread with SEND_WAIT or TMNT in hand runs in the second phase.
LEMMA AtLater ==
    ASSUME IInv, NEW t \in Threads, pc[t] \in {"SEND_WAIT", "TMNT"}
    PROVE  /\ Asked /\ Runs = t /\ caller \in Clients /\ caller # NoClient
           /\ req[caller] = pc[t] /\ main # "boot"
           /\ \A u \in Threads : u # t => pc[u] \notin Labels
           /\ build = "THREAD_LOCK" => Sleepers # <<>>
           /\ build = "THREAD_SEMAPHORE" => t # Last /\ count = 0
<1>1. /\ Runs = t /\ caller \in Clients /\ caller # NoClient /\ req[caller] = pc[t]
      /\ \A u \in Threads : u # t => pc[u] \notin Labels
  BY TokenClients, Zenon DEF IInv, HandInv, Labels
<1>2. Asked
  BY Zenon DEF IInv, BeforeInv
<1>3. main # "boot"
  BY <1>2, Zenon DEF IInv, AfterInv
<1>4. build = "THREAD_LOCK" => Sleepers # <<>>
  BY <1>1, <1>2, Zenon DEF IInv, LockInv, Asked
<1>5. build = "THREAD_SEMAPHORE" => t # Last /\ count = 0
  BY <1>1, <1>2, Zenon DEF IInv, SemInv
<1>6. QED
  BY <1>1, <1>2, <1>3, <1>4, <1>5, Zenon

\* Only the last thread sleeps for the token before it has it, and alone.
LEMMA SleepsAlone ==
    ASSUME IInv, NEW t \in Threads, AcquireSleep(t)
    PROVE  t = Last /\ Runs = t /\ pc[t] = "acquire" /\ Asked /\ Sleepers = <<>>
<1>1. /\ Runs = t /\ pc[t] = "acquire"
      /\ build = "THREAD_LOCK" => Held
      /\ build # "THREAD_LOCK" => count = 0
      /\ build \in {"THREAD_LOCK", "THREAD_SEMAPHORE"}
  BY Zenon DEF AcquireSleep, At, Runs, Held, IInv, TypeInv
<1>2. Asked
  BY <1>1, Zenon DEF IInv, BeforeInv, Asked
<1>3. CASE build = "THREAD_LOCK"
  BY <1>1, <1>2, <1>3, Zenon DEF IInv, LockInv
<1>4. CASE build = "THREAD_SEMAPHORE"
  <2>1. t = Last
    BY <1>1, <1>2, <1>4 DEF IInv, SemInv
  <2>2. Range(Sleepers) = {}
    BY <1>1, <1>2, <1>4, <2>1, Zenon DEF IInv, SemInv, QueueInv
  <2>3. Sleepers \in Seq(Threads)
    BY Zenon DEF IInv, TypeInv, PoolType, Sleepers
  <2>4. QED
    BY <1>1, <1>2, <2>1, <2>2, <2>3, EmptyFacts, Zenon
<1>5. QED
  BY <1>1, <1>3, <1>4, Zenon

LEMMA AcquireSleepStep ==
    ASSUME IInv, NEW t \in Threads, AcquireSleep(t), UNCHANGED build
    PROVE  IInv'
<1>1. /\ pool' = ThreadSleep(pool, token)
      /\ UNCHANGED <<build, count, pc, slot, caps, caller, reply_eps, client_new,
                     terminate_num, main, ep, req, id, flag>>
  BY Zenon DEF AcquireSleep, clientVars
<1>2. t = Last /\ Runs = t /\ pc[t] = "acquire" /\ Asked /\ Sleepers = <<>>
  BY SleepsAlone, Zenon
<1>3. Asked' /\ PlaceInv' /\ AfterInv'
  <2>1. Asked'
    BY <1>1, <1>2, Zenon DEF Asked, Last
  <2>2. PlaceInv' /\ AfterInv'
    BY <1>1, <1>2 DEF IInv, PlaceInv, AfterInv
  <2>3. QED
    BY <2>1, <2>2, Zenon
<1>4. BeforeInv' /\ InitsInv' /\ FirstInv'
  BY <1>1, <1>2, <1>3, AskedKept, Zenon
<1>5. HandInv'
  BY <1>1, <1>2, LabelFacts, Zenon DEF IInv, HandInv
<1>6. CASE pool.ready = <<>>
  <2>1. pool' = pool /\ Runs' = Runs /\ Sleepers' = Sleepers /\ Held' = Held
    BY <1>1, <1>6, Zenon DEF ThreadSleep, Runs, Sleepers, Held
  <2>2. QED
    BY <1>1, <1>2, <1>3, <1>4, <1>5, <2>1, Zenon
       DEF IInv, TypeInv, QueueInv, LockInv, SemInv
<1>7. CASE pool.ready # <<>>
  <2> DEFINE h == Head(pool.ready)
             rest == Tail(pool.ready)
  <2>1. pool \in PoolType /\ pool.ready \in Seq(Threads) /\ pool.running \in Threads
    BY <1>2, Zenon DEF IInv, TypeInv, PoolType, Runs
  <2>2. IsMoved(pool', pool, h, rest, Append(pool.wait[token], pool.running))
    BY <1>1, <1>7, <2>1, SleepPool, Zenon
  <2>3. Append(pool.wait[token], pool.running) = <<t>>
    BY <1>2 DEF Sleepers, Runs
  <2>4. /\ pool' \in PoolType /\ Runs' = h /\ pool'.ready = rest /\ Sleepers' = <<t>>
    BY <2>2, <2>3, Zenon DEF IsMoved, Runs, Sleepers
  <2>5. /\ h \in Threads /\ Range(pool.ready) = Range(rest) \cup {h}
        /\ IsInjective(rest) /\ h \notin Range(rest)
        /\ t \notin Range(pool.ready) /\ h # t
    BY <1>2, <1>7, <2>1, TailFacts DEF IInv, QueueInv
  <2>6. Range(<<t>>) = {t} /\ Range(<<>>) = {} /\ <<t>> # <<>>
    BY DEF Range
  <2> HIDE DEF h, rest
  <2>7. QueueInv'
    <3>1. /\ \A u \in Threads : pc[u] = "gone" <=>
               u # t /\ u \notin Range(pool.ready) /\ u \notin Range(Sleepers)
          /\ \A u \in Range(pool.ready) :
               pc[u] = "recv" \/ (build = "THREAD_SEMAPHORE" /\ u = Last)
      BY <1>2, Zenon DEF IInv, QueueInv
    <3>2. \A u \in Threads : pc'[u] = "gone" <=>
               u # h /\ u \notin Range(rest) /\ u \notin {t}
      BY <1>1, <1>2, <2>5, <2>6, <3>1, Zenon
    <3>3. \A u \in Range(rest) :
            pc'[u] = "recv" \/ (build' = "THREAD_SEMAPHORE" /\ u = Last)
      BY <1>1, <2>5, <3>1, Zenon
    <3>4. pc'[t] \in Parked
      BY <1>1, <1>2, Zenon DEF Parked
    <3>5. QED
      BY <2>4, <2>5, <2>6, <3>2, <3>3, <3>4, Zenon DEF QueueInv, Last
  <2>8. pc[h] = "recv"
    BY <1>2, <2>5, Zenon DEF IInv, QueueInv
  <2>9. LockInv' /\ SemInv'
    <3>1. LockInv'
      BY <1>1, <1>2, <2>4, <2>5, <2>6, Zenon DEF IInv, LockInv, Last
    <3>2. ASSUME build = "THREAD_SEMAPHORE"
          PROVE  /\ pc[Last] = "acquire" /\ \A u \in Threads : pc[u] # "handed"
                 /\ \A u \in Threads \ {Last} : pc[u] # "acquire"
                 /\ count = 0
      BY <1>2, <3>2, Zenon DEF IInv, SemInv
    <3>3. SemInv'
      BY <1>1, <1>2, <2>4, <2>5, <2>6, <2>8, <3>2, Zenon DEF SemInv, Last
    <3>4. QED
      BY <3>1, <3>3, Zenon
  <2>10. TypeInv'
    BY <1>1, <2>4, Zenon DEF IInv, TypeInv
  <2>11. QED
    BY <1>3, <1>4, <1>5, <2>7, <2>9, <2>10, Zenon DEF IInv
<1>8. QED
  BY <1>6, <1>7, Zenon
\* A reply empties the thread's slot and sets one client free.
LEMMA ReplyStep ==
    ASSUME IInv, Asked, Asked', NEW t \in Threads, pc[t] \in Parked, Runs = t,
           Reply(t), UNCHANGED build, pool' \in PoolType, count' \in Nat,
           UNCHANGED <<Runs, Sleepers>>, pool'.ready = pool.ready
    PROVE  /\ TypeInv' /\ PlaceInv' /\ HandInv' /\ BeforeInv' /\ InitsInv' /\ FirstInv'
           /\ AfterInv' /\ QueueInv'
<1> DEFINE c == caps[slot[t]]
<1>1. /\ caps' = [caps EXCEPT ![slot[t]] = NoClient]
      /\ req' = [d \in Clients |-> IF d \in {c} THEN "none" ELSE req[d]]
      /\ flag' = [d \in Clients |-> flag[d] /\ d # c]
      /\ pc' = [pc EXCEPT ![t] = "recv"]
      /\ UNCHANGED <<build, slot, caller, reply_eps, client_new, terminate_num, main, ep, id>>
  BY Zenon DEF Reply, Answer
<1>2. /\ \A u, v \in Threads : slot[u] = slot[v] => u = v
      /\ \A u \in Threads : slot[u] \in Slots
      /\ c \in Clients /\ c # NoClient
  <2>1. c \in Clients
    BY Zenon DEF IInv, AfterInv
  <2>2. QED
    BY <2>1, SlotsApart, TokenClients, Zenon
<1>3. /\ req[c] \in Blocking /\ c \notin Range(ep) /\ c # caller
      /\ \A r \in Slots : caps[r] = c => r = slot[t]
  BY <1>2, Zenon DEF IInv, PlaceInv
<1> HIDE DEF c
<1>4. /\ req'[c] = "none" /\ \A d \in Clients : d # c => req'[d] = req[d]
      /\ req' \in [Clients -> Labels \cup {"none"}]
  BY <1>1, <1>2, Zenon DEF IInv, TypeInv
<1>5. /\ caps' \in [Slots -> Clients \cup {NoClient}] /\ caps'[slot[t]] = NoClient
      /\ \A s \in Slots : s # slot[t] => caps'[s] = caps[s]
  BY <1>1, <1>2, Zenon DEF IInv, TypeInv
<1>6. /\ pc'[t] = "recv" /\ \A u \in Threads : u # t => pc'[u] = pc[u]
      /\ pc' \in [Threads -> Labels \cup Parked \cup {"recv", "gone"}]
  BY <1>1, Zenon DEF IInv, TypeInv
<1>7. /\ flag' \in [Clients -> BOOLEAN]
      /\ \A d \in Clients : flag'[d] => flag[d] /\ d # c
  BY <1>1, Zenon
<1>8. TypeInv'
  BY <1>1, <1>4, <1>5, <1>6, <1>7, Zenon DEF IInv, TypeInv
<1>9. PlaceInv'
  <2>1. IsInjective(ep') /\ \A d \in Range(ep') : req'[d] # "none" /\ d # caller'
    BY <1>1, <1>3, <1>4, RangeFacts DEF IInv, PlaceInv, TypeInv
  <2>2. caller' # NoClient => req'[caller'] # "none"
    <3>1. caller \in Clients \cup {NoClient}
      BY Zenon DEF IInv, TypeInv
    <3>2. caller # NoClient => req[caller] # "none"
      BY Zenon DEF IInv, PlaceInv
    <3>3. QED
      BY <1>1, <1>3, <1>4, <3>1, <3>2, Zenon
  <2>3. ASSUME NEW s \in Slots, caps'[s] # NoClient
        PROVE  /\ req'[caps'[s]] \in Blocking
               /\ caps'[s] \notin Range(ep')
               /\ caps'[s] # caller'
               /\ \A r \in Slots : caps'[r] = caps'[s] => r = s
    <3>1. s # slot[t] /\ caps'[s] = caps[s] /\ caps[s] \in Clients /\ caps[s] # c
      BY <1>2, <1>3, <1>5, <2>3, Zenon DEF IInv, TypeInv
    <3>2. /\ req[caps[s]] \in Blocking /\ caps[s] \notin Range(ep) /\ caps[s] # caller
          /\ \A r \in Slots : caps[r] = caps[s] => r = s
      BY <2>3, <3>1, Zenon DEF IInv, PlaceInv
    <3>3. \A r \in Slots : caps'[r] = caps'[s] => r = s
      BY <1>5, <2>3, <3>1, <3>2, Zenon
    <3>4. QED
      BY <1>1, <1>4, <3>1, <3>2, <3>3, Zenon
  <2>4. ASSUME NEW d \in Clients, req'[d] \in Blocking
        PROVE  d \in Range(ep') \/ d = caller' \/ \E s \in Slots : caps'[s] = d
    <3>1. d # c /\ req[d] \in Blocking
      BY <1>4, <2>4, Zenon DEF Blocking
    <3>2. QED
      BY <1>1, <1>5, <3>1, Zenon DEF IInv, PlaceInv, c
  <2>5. QED
    BY <2>1, <2>2, <2>3, <2>4, Zenon DEF PlaceInv
<1>10. HandInv'
  <2>1. \A u \in Threads : pc[u] \notin Labels
    BY LabelFacts, Zenon DEF IInv, HandInv
  <2>2. \A u \in Threads : pc'[u] \notin Labels
    BY <1>6, <2>1, LabelFacts, Zenon
  <2>3. caller # NoClient => req[caller] = "TMNT"
    <3>1. caller # NoClient => caller \in Clients /\ req[caller] \in Labels
      BY Zenon DEF IInv, TypeInv, PlaceInv
    <3>2. QED
      BY <2>1, <3>1, Zenon DEF IInv, HandInv
  <2>4. caller # NoClient => req'[caller] = "TMNT"
    BY <1>3, <1>4, <2>3, Zenon DEF IInv, TypeInv
  <2>5. QED
    BY <1>1, <2>2, <2>4, Zenon DEF HandInv
<1>11. BeforeInv' /\ InitsInv' /\ FirstInv'
  BY <1>1, AskedKept, Zenon
<1>12. AfterInv'
  <2>1. \A d \in Clients : /\ id'[d] # -1 /\ req'[d] # "INIT"
                           /\ flag'[d] => req'[d] = "WAIT"
                           /\ req'[d] = "WAIT" => \E s \in Slots : caps'[s] = d
    <3>1. ASSUME NEW d \in Clients
          PROVE  /\ id'[d] # -1 /\ req'[d] # "INIT"
                 /\ flag'[d] => req'[d] = "WAIT"
      BY <1>1, <1>4, <1>7, Zenon DEF IInv, AfterInv
    <3>2. ASSUME NEW d \in Clients, req'[d] = "WAIT"
          PROVE  \E s \in Slots : caps'[s] = d
      <4>1. d # c /\ req[d] = "WAIT"
        BY <1>4, <3>2, Zenon
      <4>2. PICK s \in Slots : caps[s] = d
        BY <4>1, Zenon DEF IInv, AfterInv
      <4>3. s # slot[t]
        BY <4>1, <4>2, Zenon DEF c
      <4>4. QED
        BY <1>5, <4>2, <4>3, Zenon
    <3>3. QED
      BY <3>1, <3>2, Zenon
  <2>2. \A s \in Slots : caps'[s] # NoClient =>
          \E u \in Threads : slot'[u] = s /\ pc'[u] \in Parked
    <3>1. ASSUME NEW s \in Slots, caps'[s] # NoClient
          PROVE  \E u \in Threads : slot'[u] = s /\ pc'[u] \in Parked
      <4>1. s # slot[t] /\ caps[s] # NoClient
        BY <1>5, <3>1, Zenon
      <4>2. PICK u \in Threads : slot[u] = s /\ pc[u] \in Parked
        BY <4>1, Zenon DEF IInv, AfterInv
      <4>3. QED
        BY <1>1, <1>6, <4>1, <4>2, Zenon
    <3>2. QED
      BY <3>1, Zenon
  <2>3. \A u \in Threads : pc'[u] \in Parked => caps'[slot'[u]] \in Clients
    <3>1. ASSUME NEW u \in Threads, pc'[u] \in Parked PROVE caps'[slot'[u]] \in Clients
      <4>1. u # t /\ pc[u] \in Parked
        BY <1>6, <3>1, LabelFacts, Zenon
      <4>2. caps[slot[u]] \in Clients /\ slot[u] # slot[t]
        BY <1>2, <4>1, Zenon DEF IInv, AfterInv
      <4>3. QED
        BY <1>1, <1>2, <1>5, <4>2, Zenon
    <3>2. QED
      BY <3>1, Zenon
  <2>4. QED
    BY <1>1, <2>1, <2>2, <2>3, Zenon DEF IInv, AfterInv, Last
<1>13. QueueInv'
  <2>1. /\ IsInjective(pool.ready) /\ t \notin Range(pool.ready)
        /\ \A u \in Threads : pc[u] = "gone" <=>
             u # t /\ u \notin Range(pool.ready) /\ u \notin Range(Sleepers)
        /\ \A u \in Range(pool.ready) :
             pc[u] = "recv" \/ (build = "THREAD_SEMAPHORE" /\ u = Last)
        /\ \A u \in Range(Sleepers) :
             /\ Sleepers = <<u>> /\ pc[u] \in Parked
             /\ u # t /\ u \notin Range(pool.ready)
    BY Zenon DEF IInv, QueueInv
  <2>2. \A u \in Range(pool.ready) \cup Range(Sleepers) : u \in Threads
    BY RangeFacts DEF IInv, TypeInv, PoolType, Sleepers
  <2>3. \A u \in Threads : pc'[u] = "gone" <=>
             u # t /\ u \notin Range(pool.ready) /\ u \notin Range(Sleepers)
    BY <1>6, <2>1, Zenon
  <2>4. /\ \A u \in Range(pool.ready) :
             pc'[u] = "recv" \/ (build = "THREAD_SEMAPHORE" /\ u = Last)
        /\ \A u \in Range(Sleepers) : pc'[u] \in Parked
    BY <1>6, <2>1, <2>2, Zenon
  <2>5. QED
    BY <1>1, <2>1, <2>3, <2>4, Zenon DEF QueueInv, Last
<1>14. QED
  BY <1>8, <1>9, <1>10, <1>11, <1>12, <1>13, Zenon

\* A thread at the lock or the semaphore gets the token.
LEMMA AcquireTakeStep ==
    ASSUME IInv, NEW t \in Threads, AcquireTake(t), UNCHANGED build
    PROVE  IInv'
<1>1. /\ Runs = t /\ pc[t] = "acquire" /\ pc[t] \in Parked /\ Reply(t)
      /\ pc' = [pc EXCEPT ![t] = "recv"]
      /\ build \in {"THREAD_LOCK", "THREAD_SEMAPHORE"} /\ pool \in PoolType
  BY LabelFacts, Zenon DEF AcquireTake, At, Reply, Runs, IInv, TypeInv
<1>2. Asked
  BY <1>1, Zenon DEF IInv, BeforeInv, Asked
<1>3. pc'[t] = "recv" /\ \A u \in Threads : u # t => pc'[u] = pc[u]
  BY <1>1, Zenon DEF IInv, TypeInv
<1>4. CASE build = "THREAD_LOCK"
  <2>1. ~Held /\ pool' = LockTake(pool, token) /\ count' = count
    BY <1>4, Zenon DEF AcquireTake, Held
  <2>2. t = Last /\ Sleepers # <<>>
    BY <1>1, <1>2, <1>4, <2>1, Zenon DEF IInv, LockInv
  <2>3. /\ pool' \in PoolType /\ Runs' = Runs /\ pool'.ready = pool.ready
        /\ Sleepers' = Sleepers
    BY <1>1, <2>1, TakePool, Zenon DEF Runs, Sleepers
  <2>4. Asked'
    BY <2>2, <2>3, Zenon DEF Asked
  <2>5. /\ TypeInv' /\ PlaceInv' /\ HandInv' /\ BeforeInv' /\ InitsInv' /\ FirstInv'
        /\ AfterInv' /\ QueueInv'
    BY <1>1, <1>2, <2>1, <2>3, <2>4, ReplyStep, Zenon DEF IInv, TypeInv
  <2>6. LockInv' /\ SemInv'
    BY <1>2, <1>3, <1>4, <2>2, <2>3, Zenon DEF IInv, LockInv, SemInv, Last
  <2>7. QED
    BY <2>5, <2>6, Zenon DEF IInv
<1>5. CASE build = "THREAD_SEMAPHORE"
  <2>1. count > 0 /\ count' = count - 1 /\ pool' = pool
    BY <1>5, Zenon DEF AcquireTake
  <2>2. t # Last /\ count = 1 /\ pc[Last] = "acquire" /\ Last \in Threads
    BY <1>1, <1>2, <1>5, <2>1, NumFacts DEF IInv, SemInv
  <2>3. pool' \in PoolType /\ UNCHANGED <<Runs, Sleepers>> /\ count' = 0
    BY <1>1, <2>1, <2>2 DEF Runs, Sleepers
  <2>4. pc'[Last] = "acquire" /\ Asked'
    BY <1>3, <2>2, Zenon DEF Asked, Last
  <2>5. /\ TypeInv' /\ PlaceInv' /\ HandInv' /\ BeforeInv' /\ InitsInv' /\ FirstInv'
        /\ AfterInv' /\ QueueInv'
    BY <1>1, <1>2, <2>1, <2>3, <2>4, ReplyStep
  <2>6. LockInv'
    BY <1>5, Zenon DEF LockInv
  <2>7. SemInv'
    BY <1>1, <1>2, <1>3, <1>5, <2>3, <2>4, Zenon DEF IInv, SemInv, Last
  <2>8. QED
    BY <2>5, <2>6, <2>7, Zenon DEF IInv
<1>6. QED
  BY <1>1, <1>4, <1>5, Zenon

\* thread_lock_release_acquire returns.
LEMMA HandedReplyStep ==
    ASSUME IInv, NEW t \in Threads, HandedReply(t), UNCHANGED build
    PROVE  IInv'
<1>1. /\ Runs = t /\ pc[t] = "handed" /\ pc[t] \in Parked /\ Reply(t)
      /\ pc' = [pc EXCEPT ![t] = "recv"] /\ UNCHANGED <<pool, count>>
      /\ build \in {"THREAD_LOCK", "THREAD_SEMAPHORE"} /\ pool \in PoolType /\ count \in Nat
  BY LabelFacts, Zenon DEF HandedReply, At, Reply, Runs, IInv, TypeInv
<1>2. Asked
  BY <1>1, Zenon DEF IInv, BeforeInv
<1>3. build = "THREAD_LOCK"
  BY <1>1, <1>2, Zenon DEF IInv, SemInv
<1>4. Sleepers # <<>>
  BY <1>1, <1>2, <1>3, Zenon DEF IInv, LockInv, Asked
<1>5. UNCHANGED <<Runs, Sleepers, Held>> /\ Asked'
  BY <1>1, <1>4, Zenon DEF Runs, Sleepers, Held, Asked
<1>6. /\ TypeInv' /\ PlaceInv' /\ HandInv' /\ BeforeInv' /\ InitsInv' /\ FirstInv'
      /\ AfterInv' /\ QueueInv'
  BY <1>1, <1>2, <1>5, ReplyStep, Zenon
<1>7. pc'[t] = "recv" /\ \A u \in Threads : u # t => pc'[u] = pc[u]
  BY <1>1, Zenon DEF IInv, TypeInv
<1>8. LockInv' /\ SemInv'
  BY <1>1, <1>2, <1>3, <1>4, <1>5, <1>7, NumFacts, Zenon DEF IInv, LockInv, SemInv, Last
<1>9. QED
  BY <1>6, <1>8, Zenon DEF IInv
\* SEND_WAIT: what is common to the two builds.  The thread's slot is empty, so
\* the reply capability is saved.
LEMMA SendWaitFacts ==
    ASSUME IInv, NEW t \in Threads, HandleSendWait(t), UNCHANGED build, Asked',
           pool' \in PoolType, count' \in Nat,
           NEW there \in Parked, pc' = [pc EXCEPT ![t] = there]
    PROVE  /\ TypeInv' /\ PlaceInv' /\ HandInv' /\ BeforeInv' /\ InitsInv' /\ FirstInv'
           /\ AfterInv'
<1>1. /\ pc[t] = "SEND_WAIT" /\ SaveCaller(caps, slot[t])
      /\ UNCHANGED <<build, slot, reply_eps, client_new, terminate_num, main, ep, req, id, flag>>
  BY Zenon DEF HandleSendWait, At, clientVars
<1>2. /\ Asked /\ Runs = t /\ caller \in Clients /\ caller # NoClient
      /\ req[caller] = "SEND_WAIT" /\ main # "boot"
      /\ \A u \in Threads : u # t => pc[u] \notin Labels
  BY <1>1, AtLater, Zenon
<1>3. /\ \A u, v \in Threads : slot[u] = slot[v] => u = v
      /\ \A u \in Threads : slot[u] \in Slots
      /\ caps[slot[t]] = NoClient
  BY <1>1, <1>2, SlotsApart, LabelFacts, Zenon DEF Labels, Parked
<1>4. caps' = [caps EXCEPT ![slot[t]] = caller] /\ caller' = NoClient
  BY <1>1, <1>3, Zenon DEF SaveCaller
<1>5. /\ caps' \in [Slots -> Clients \cup {NoClient}] /\ caps'[slot[t]] = caller
      /\ \A s \in Slots : s # slot[t] => caps'[s] = caps[s]
  BY <1>2, <1>3, <1>4, Zenon DEF IInv, TypeInv
<1>6. /\ pc'[t] = there /\ \A u \in Threads : u # t => pc'[u] = pc[u]
      /\ pc' \in [Threads -> Labels \cup Parked \cup {"recv", "gone"}]
  BY Zenon DEF IInv, TypeInv
<1>7. caller \notin Range(ep) /\ \A s \in Slots : caps[s] # caller
  BY <1>2, Zenon DEF IInv, PlaceInv
<1>8. TypeInv'
  BY <1>1, <1>4, <1>5, <1>6, Zenon DEF IInv, TypeInv
<1>9. PlaceInv'
  <2>1. IsInjective(ep) /\ \A d \in Range(ep) : req[d] # "none" /\ d # NoClient
    BY RangeFacts, TokenClients DEF IInv, PlaceInv, TypeInv
  <2>2. ASSUME NEW s \in Slots, caps'[s] # NoClient
        PROVE  /\ req[caps'[s]] \in Blocking
               /\ caps'[s] \notin Range(ep)
               /\ \A r \in Slots : caps'[r] = caps'[s] => r = s
    <3>1. CASE s = slot[t]
      BY <1>2, <1>5, <1>7, <3>1, Zenon DEF Blocking
    <3>2. CASE s # slot[t]
      BY <1>5, <1>7, <2>2, <3>2 DEF IInv, PlaceInv
    <3>3. QED
      BY <3>1, <3>2, Zenon
  <2>3. ASSUME NEW d \in Clients, req[d] \in Blocking
        PROVE  d \in Range(ep) \/ \E s \in Slots : caps'[s] = d
    <3>1. CASE d = caller
      BY <1>3, <1>5, <3>1, Zenon
    <3>2. CASE d # caller
      BY <1>3, <1>5, <2>3, <3>2, TokenClients DEF IInv, PlaceInv
    <3>3. QED
      BY <3>1, <3>2, Zenon
  <2>4. QED
    BY <1>1, <1>4, <2>1, <2>2, <2>3, Zenon DEF PlaceInv
<1>10. HandInv'
  BY <1>2, <1>4, <1>6, LabelFacts, Zenon DEF HandInv
<1>11. BeforeInv' /\ InitsInv' /\ FirstInv'
  BY <1>1, <1>2, AskedKept, Zenon
<1>12. AfterInv'
  <2>1. /\ \A d \in Clients : req[d] = "WAIT" => \E s \in Slots : caps[s] = d
        /\ \A s \in Slots : caps[s] # NoClient =>
             \E u \in Threads : slot[u] = s /\ pc[u] \in Parked
        /\ \A u \in Threads : pc[u] \in Parked => caps[slot[u]] \in Clients
    BY <1>2, Zenon DEF IInv, AfterInv
  <2>2. /\ main # "boot"
        /\ \A u \in Threads : slot[u] = IF u = Last THEN 2 * client_num ELSE u
        /\ \A d \in Clients : /\ id[d] # -1 /\ req[d] # "INIT"
                              /\ flag[d] => req[d] = "WAIT"
    BY <1>2, Zenon DEF IInv, AfterInv
  <2>3. \A d \in Clients : req[d] = "WAIT" => \E s \in Slots : caps'[s] = d
    BY <1>3, <1>5, <2>1, TokenClients, Zenon
  <2>4. \A s \in Slots : caps'[s] # NoClient =>
          \E u \in Threads : slot[u] = s /\ pc'[u] \in Parked
    <3>1. SUFFICES ASSUME NEW s \in Slots, caps'[s] # NoClient, s # slot[t]
                   PROVE  \E u \in Threads : slot[u] = s /\ pc'[u] \in Parked
      BY <1>6, Zenon
    <3>2. QED
      BY <1>5, <1>6, <2>1, <3>1, Zenon
  <2>5. \A u \in Threads : pc'[u] \in Parked => caps'[slot[u]] \in Clients
    BY <1>2, <1>3, <1>5, <1>6, <2>1, Zenon
  <2>6. QED
    BY <1>1, <2>2, <2>3, <2>4, <2>5, Zenon DEF AfterInv, Last
<1>13. QED
  BY <1>8, <1>9, <1>10, <1>11, <1>12, Zenon

LEMMA SendWaitStep ==
    ASSUME IInv, NEW t \in Threads, HandleSendWait(t), UNCHANGED build
    PROVE  IInv'
<1>1. /\ pc[t] = "SEND_WAIT"
      /\ build \in {"THREAD_LOCK", "THREAD_SEMAPHORE"} /\ pool \in PoolType /\ count \in Nat
  BY Zenon DEF HandleSendWait, At, IInv, TypeInv
<1>2. /\ Asked /\ Runs = t
      /\ build = "THREAD_LOCK" => Sleepers # <<>>
      /\ build = "THREAD_SEMAPHORE" => t # Last /\ count = 0
  BY <1>1, AtLater, Zenon
<1>3. /\ pool.ready \in Seq(Threads) /\ Sleepers \in Seq(Threads) /\ pool.running = t
  BY <1>1, <1>2, Zenon DEF PoolType, Sleepers, Runs
<1>4. /\ IsInjective(pool.ready) /\ t \notin Range(pool.ready)
      /\ \A u \in Threads : pc[u] = "gone" <=>
           u # t /\ u \notin Range(pool.ready) /\ u \notin Range(Sleepers)
      /\ \A u \in Range(pool.ready) :
           pc[u] = "recv" \/ (build = "THREAD_SEMAPHORE" /\ u = Last)
      /\ \A u \in Range(Sleepers) :
           /\ Sleepers = <<u>> /\ pc[u] \in Parked
           /\ u # t /\ u \notin Range(pool.ready)
  BY <1>2, Zenon DEF IInv, QueueInv
<1>5. ASSUME Sleepers # <<>> PROVE \E w \in Threads : Sleepers = <<w>> /\ w \in Range(Sleepers)
  <2>1. PICK w : w \in Range(Sleepers)
    BY <1>3, <1>5, EmptyFacts, Zenon
  <2>2. QED
    BY <1>3, <1>4, <2>1, RangeFacts, Zenon
<1>6. CASE build = "THREAD_LOCK"
  <2>1. pool' = LockReleaseAcquire(pool, token) /\ count' = count /\ pc' = [pc EXCEPT ![t] = "handed"]
    BY <1>6, Zenon DEF HandleSendWait
  <2>2. PICK w \in Threads : Sleepers = <<w>> /\ w \in Range(Sleepers)
    BY <1>2, <1>5, <1>6, Zenon
  <2>3. /\ pool' \in PoolType /\ Runs' = w /\ pool'.ready = pool.ready
        /\ Sleepers' = <<t>> /\ ~Held'
    BY <1>1, <1>3, <2>1, <2>2, SwapPool, Zenon DEF Runs, Sleepers, Held
  <2>4. Range(<<t>>) = {t} /\ Range(<<w>>) = {w} /\ <<t>> # <<>>
    BY DEF Range
  <2>5. Asked'
    BY <2>3, <2>4, Zenon DEF Asked
  <2>6. /\ TypeInv' /\ PlaceInv' /\ HandInv' /\ BeforeInv' /\ InitsInv' /\ FirstInv'
        /\ AfterInv'
    BY <1>1, <2>1, <2>3, <2>5, SendWaitFacts, LabelFacts, Zenon
  <2>7. pc'[t] = "handed" /\ \A u \in Threads : u # t => pc'[u] = pc[u]
    BY <2>1, Zenon DEF IInv, TypeInv
  <2>8. QueueInv'
    <3>1. w # t /\ w \notin Range(pool.ready)
      BY <1>4, <2>2, Zenon
    <3>2. \A u \in Range(pool.ready) : u \in Threads /\ u # t
      BY <1>3, <1>4, RangeFacts, Zenon
    <3>3. \A u \in Range(pool.ready) : pc'[u] = "recv" \/ (build' = "THREAD_SEMAPHORE" /\ u = Last)
      BY <1>4, <2>7, <3>2, Zenon
    <3>4. \A u \in Threads : pc'[u] = "gone" <=>
           u # w /\ u \notin Range(pool.ready) /\ u # t
      BY <1>4, <2>2, <2>4, <2>7, Zenon
    <3>5. pc'[t] \in Parked
      BY <2>7, LabelFacts, Zenon
    <3>6. QED
      BY <1>4, <2>3, <2>4, <3>1, <3>3, <3>4, <3>5, Zenon DEF QueueInv, Last
  <2>9. LockInv'
    BY <1>2, <1>6, <2>3, <2>4, <2>7, Zenon DEF IInv, LockInv, Last
  <2>10. SemInv'
    BY <1>6, Zenon DEF SemInv
  <2>11. QED
    BY <2>6, <2>8, <2>9, <2>10, Zenon DEF IInv
<1>7. CASE build = "THREAD_SEMAPHORE"
  <2>1. pool' = ThreadWakeup(pool, token) /\ count' = count + 1 /\ pc' = [pc EXCEPT ![t] = "acquire"]
    BY <1>7, Zenon DEF HandleSendWait
  <2>2. /\ pc[Last] = "acquire" /\ t # Last /\ count' = 1 /\ Last \in Threads
        /\ \A u \in Threads : pc[u] # "handed"
        /\ \A u \in Range(Sleepers) : u = Last
        /\ \A u \in Threads \ {Last} : pc[u] # "acquire"
    BY <1>1, <1>2, <1>7, <2>1, NumFacts DEF IInv, SemInv
  <2>3. /\ pc'[t] = "acquire" /\ pc'[Last] = "acquire"
        /\ \A u \in Threads : u # t => pc'[u] = pc[u]
    BY <2>1, <2>2, Zenon DEF IInv, TypeInv
  <2>4. Asked' /\ LockInv'
    BY <1>7, <2>3, Zenon DEF Asked, Last, LockInv
  <2>5. /\ pool' \in PoolType /\ Runs' = t /\ Range(Sleepers') = {} /\ Sleepers' = <<>>
        /\ Range(pool'.ready) = Range(pool.ready) \cup Range(Sleepers)
        /\ IsInjective(pool'.ready)
    <3>1. Range(<<>>) = {}
      BY DEF Range
    <3>2. CASE Sleepers = <<>>
      <4>1. pool' = pool
        BY <2>1, <3>2, Zenon DEF ThreadWakeup, Sleepers
      <4>2. QED
        BY <1>1, <1>2, <1>4, <3>1, <3>2, <4>1, Zenon DEF Runs, Sleepers
    <3>3. CASE Sleepers # <<>>
      <4>1. PICK w \in Threads : Sleepers = <<w>> /\ w \in Range(Sleepers)
        BY <1>5, <3>3, Zenon
      <4>2. IsMoved(pool', pool, pool.running, Append(pool.ready, w), <<>>)
        BY <1>1, <2>1, <4>1, WakePool, Zenon DEF Sleepers
      <4>3. /\ Range(Append(pool.ready, w)) = Range(pool.ready) \cup {w}
            /\ IsInjective(Append(pool.ready, w))
        BY <1>3, <1>4, <4>1, AppendFacts
      <4>4. Range(Sleepers) = {w}
        BY <4>1 DEF Range
      <4>5. QED
        BY <1>3, <3>1, <4>2, <4>3, <4>4, Zenon DEF IsMoved, Runs, Sleepers
    <3>4. QED
      BY <3>2, <3>3, Zenon
  <2>6. count' \in Nat
    BY <2>2, Zenon
  <2>7. /\ TypeInv' /\ PlaceInv' /\ HandInv' /\ BeforeInv' /\ InitsInv' /\ FirstInv'
        /\ AfterInv'
    BY <1>1, <2>1, <2>4, <2>5, <2>6, SendWaitFacts, LabelFacts, Zenon
  <2>8. QueueInv'
    <3>1. t \notin Range(pool'.ready)
      BY <1>4, <2>5, Zenon
    <3>2. \A u \in Range(pool'.ready) : u \in Threads /\ u # t
      BY <1>3, <2>5, <3>1, RangeFacts, Zenon
    <3>3. \A u \in Range(pool'.ready) : pc'[u] = "recv" \/ u = Last
      BY <1>4, <2>2, <2>3, <2>5, <3>2, Zenon
    <3>4. \A u \in Threads : pc'[u] = "gone" <=> u # t /\ u \notin Range(pool'.ready)
      BY <1>4, <2>3, <2>5, Zenon
    <3>5. QED
      BY <1>7, <2>5, <3>1, <3>3, <3>4, Zenon DEF QueueInv, Last
  <2>9. SemInv'
    BY <1>7, <2>2, <2>3, <2>5, Zenon DEF SemInv, Last
  <2>10. QED
    BY <2>4, <2>7, <2>8, <2>9, Zenon DEF IInv
<1>8. QED
  BY <1>1, <1>6, <1>7, Zenon
-----------------------------------------------------------------------------
(* TMNT, and the steps together. *)

LEMMA HandleTmntStep ==
    ASSUME IInv, NEW t \in Threads, HandleTmnt(t), UNCHANGED build
    PROVE  IInv'
<1>1. /\ pc[t] = "TMNT" /\ terminate_num' = terminate_num + 1
      /\ pool' = ThreadExit(pool) /\ pc' = [pc EXCEPT ![t] = "gone"]
      /\ UNCHANGED <<build, count, slot, caps, caller, reply_eps, client_new, main,
                     ep, req, id, flag>>
      /\ pool \in PoolType
  BY Zenon DEF HandleTmnt, At, clientVars, IInv, TypeInv
<1>2. /\ Asked /\ Runs = t /\ req[caller] = "TMNT"
      /\ \A u \in Threads : u # t => pc[u] \notin Labels
      /\ build = "THREAD_LOCK" => Sleepers # <<>>
      /\ build = "THREAD_SEMAPHORE" => t # Last /\ count = 0
  BY <1>1, AtLater, Zenon
<1>3. /\ pool.ready \in Seq(Threads) /\ Sleepers \in Seq(Threads)
      /\ IsInjective(pool.ready) /\ t \notin Range(pool.ready)
      /\ \A u \in Threads : pc[u] = "gone" <=>
           u # t /\ u \notin Range(pool.ready) /\ u \notin Range(Sleepers)
      /\ \A u \in Range(pool.ready) :
           pc[u] = "recv" \/ (build = "THREAD_SEMAPHORE" /\ u = Last)
      /\ \A u \in Range(Sleepers) :
           /\ Sleepers = <<u>> /\ pc[u] \in Parked
           /\ u # t /\ u \notin Range(pool.ready)
  BY <1>1, <1>2, Zenon DEF PoolType, Sleepers, IInv, QueueInv
<1>4. /\ pool' \in PoolType /\ Sleepers' = Sleepers /\ (Held' <=> Held)
      /\ IF pool.ready = <<>>
         THEN Runs' = MainThread /\ pool'.ready = pool.ready
         ELSE Runs' = Head(pool.ready) /\ pool'.ready = Tail(pool.ready)
  BY <1>1, ExitPool, Zenon DEF Sleepers, Held, Runs
<1>5. /\ pc'[t] = "gone" /\ \A u \in Threads : u # t => pc'[u] = pc[u]
      /\ pc' \in [Threads -> Labels \cup Parked \cup {"recv", "gone"}]
  BY <1>1, Zenon DEF IInv, TypeInv
<1>6. /\ IsInjective(pool'.ready) /\ Runs' \notin Range(pool'.ready)
      /\ \A u \in Threads : u \in Range(pool.ready) <=> u = Runs' \/ u \in Range(pool'.ready)
      /\ \A u \in Range(pool'.ready) : u \in Range(pool.ready)
      /\ Runs' # MainThread => Runs' \in Range(pool.ready)
  <2>1. CASE pool.ready = <<>>
    <3>1. Range(pool.ready) = {}
      BY <1>3, <2>1, EmptyFacts, Zenon
    <3>2. QED
      BY <1>3, <1>4, <2>1, <3>1, NumFacts, Zenon
  <2>2. CASE pool.ready # <<>>
    BY <1>3, <1>4, <2>2, TailFacts
  <2>3. QED
    BY <2>1, <2>2, Zenon
<1>7. Asked'
  BY <1>1, <1>2, <1>4, <1>5, NumFacts, Zenon DEF Asked, Last
<1>8. TypeInv'
  <2>1. terminate_num \in Nat
    BY Zenon DEF IInv, TypeInv
  <2>2. terminate_num' \in Nat
    BY <1>1, <2>1
  <2>3. QED
    BY <1>1, <1>4, <1>5, <2>2, Zenon DEF IInv, TypeInv
<1>9. PlaceInv' /\ BeforeInv' /\ InitsInv' /\ FirstInv'
  <2>1. PlaceInv'
    BY <1>1, Zenon DEF IInv, PlaceInv
  <2>2. QED
    BY <1>1, <1>2, <1>7, <2>1, AskedKept, Zenon
<1>10. HandInv'
  BY <1>1, <1>2, <1>5, LabelFacts, Zenon DEF HandInv
<1>11. AfterInv'
  <2>1. \A u \in Threads : pc'[u] \in Parked <=> pc[u] \in Parked
    BY <1>1, <1>5, Zenon DEF Parked
  <2>2. QED
    BY <1>1, <1>2, <2>1 DEF IInv, AfterInv, Last
<1>12. QueueInv'
  <2>1. \A u \in Threads : pc'[u] = "gone" <=>
          u # Runs' /\ u \notin Range(pool'.ready) /\ u \notin Range(Sleepers)
    BY <1>3, <1>5, <1>6, Zenon
  <2>2. \A u \in Range(pool.ready) \cup Range(Sleepers) : u \in Threads
    BY <1>3, RangeFacts, Zenon
  <2>3. \A u \in Range(pool'.ready) :
          pc'[u] = "recv" \/ (build = "THREAD_SEMAPHORE" /\ u = Last)
    BY <1>3, <1>5, <1>6, <2>2, Zenon
  <2>4. \A u \in Range(Sleepers) :
          /\ Sleepers = <<u>> /\ pc'[u] \in Parked
          /\ u # Runs' /\ u \notin Range(pool'.ready)
    BY <1>3, <1>5, <1>6, <2>2, Zenon
  <2>5. QED
    BY <1>1, <1>4, <1>6, <2>1, <2>3, <2>4, Zenon DEF QueueInv, Last
<1>13. LockInv'
  <2>1. ASSUME build = "THREAD_LOCK", Runs' = Last PROVE pc'[Last] # "acquire"
    <3>1. Last \in Range(pool.ready)
      BY <1>6, <2>1, NumFacts, Zenon
    <3>2. pc[Last] = "recv" /\ Last # t
      BY <1>3, <2>1, <3>1, Zenon
    <3>3. QED
      BY <1>5, <3>2, NumFacts, Zenon
  <2>2. \A u \in Threads \ {Last} : build = "THREAD_LOCK" => pc'[u] # "acquire"
    BY <1>2, <1>5, Zenon DEF IInv, LockInv
  <2>3. QED
    BY <1>1, <1>2, <1>4, <2>1, <2>2, Zenon DEF LockInv, Last
<1>14. SemInv'
  <2>1. SUFFICES ASSUME build = "THREAD_SEMAPHORE" PROVE SemInv'
    BY <1>1, Zenon DEF SemInv
  <2>2. /\ pc[Last] = "acquire" /\ t # Last /\ count = 0
        /\ \A u \in Threads : pc[u] # "handed"
        /\ \A u \in Range(Sleepers) : u = Last
        /\ \A u \in Threads \ {Last} : pc[u] = "acquire" => u = t
    BY <1>2, <2>1, Zenon DEF IInv, SemInv
  <2>3. /\ pc'[Last] = "acquire" /\ \A u \in Threads : pc'[u] # "handed"
        /\ \A u \in Threads \ {Last} : pc'[u] # "acquire"
    BY <1>5, <2>2, NumFacts, Zenon
  <2>4. QED
    BY <1>1, <1>4, <2>2, <2>3, Zenon DEF SemInv, Last
<1>15. QED
  BY <1>8, <1>9, <1>10, <1>11, <1>12, <1>13, <1>14, Zenon DEF IInv

\* The invariants are about the variables.
LEMMA StutterInv ==
    ASSUME IInv, UNCHANGED vars
    PROVE  IInv'
<1>1. UNCHANGED <<build, pool, count, pc, slot, caps, caller, reply_eps, client_new,
                  terminate_num, main, ep, req, id, flag>>
  BY Zenon DEF vars, serverVars, clientVars
<1>2. UNCHANGED <<Runs, Sleepers, Held, Last>> /\ (Asked' <=> Asked)
  BY <1>1, Zenon DEF Runs, Sleepers, Held, Asked, Last
<1>3. TypeInv' /\ PlaceInv'
  BY <1>1, Zenon DEF IInv, TypeInv, PlaceInv
<1>4. HandInv' /\ InitsInv'
  BY <1>1, <1>2, Zenon DEF IInv, HandInv, InitsInv
<1>5. BeforeInv'
  BY <1>1, <1>2, Zenon DEF IInv, BeforeInv
<1>6. FirstInv'
  <2>1. FirstInv
    BY Zenon DEF IInv
  <2>2. UNCHANGED <<client_new, caps, id, flag, req, Last>> /\ (Asked' <=> Asked)
    BY <1>1, <1>2, Zenon
  <2>3. QED
    BY <2>1, <2>2 DEF FirstInv
<1>7. AfterInv'
  BY <1>1, <1>2, Zenon DEF IInv, AfterInv
<1>8. QueueInv'
  BY <1>1, <1>2, Zenon DEF IInv, QueueInv
<1>9. LockInv' /\ SemInv'
  <2>1. LockInv /\ SemInv
    BY Zenon DEF IInv
  <2>2. UNCHANGED <<build, pc, count, Runs, Sleepers, Held, Last>> /\ (Asked' <=> Asked)
    BY <1>1, <1>2, Zenon
  <2>3. QED
    BY <2>1, <2>2 DEF LockInv, SemInv
<1>10. QED
  BY <1>3, <1>4, <1>5, <1>6, <1>7, <1>8, <1>9, Zenon DEF IInv

LEMMA NextInv ==
    ASSUME IInv, Counted, [Next]_vars
    PROVE  IInv'
<1>1. CASE \E t \in Threads : ServerStep(t) /\ UNCHANGED build
  <2>1. PICK t \in Threads : ServerStep(t) /\ UNCHANGED build
    BY <1>1, Zenon
  <2>2. CASE HandleInit(t)
    <3>1. client_new + 1 <= client_num /\ client_new + 1 \in Nat /\ client_num \in Nat
      BY <2>2, AtInit, NumFacts DEF HandleInit, IInv, TypeInv
    <3>2. QED
      BY <2>1, <2>2, <3>1, EarlierInit, LastInit
  <2>3. QED
    BY <2>1, <2>2, RecvStep, HandleWaitStep, AcquireSleepStep, AcquireTakeStep,
       SendWaitStep, HandedReplyStep, HandleTmntStep, Zenon DEF ServerStep
<1>2. CASE (MainContinued \/ MainEnd) /\ UNCHANGED build
  BY <1>2, MainStep, Zenon
<1>3. CASE \E c \in Clients : Call(c)
  BY <1>3, CallStep, Zenon
<1>4. CASE UNCHANGED vars
  BY <1>4, StutterInv, Zenon
<1>5. QED
  BY <1>1, <1>2, <1>3, <1>4, Zenon DEF Next, Server, Terminated
-----------------------------------------------------------------------------
(* Who is answered, and what is left at the end. *)

\* A request changes only when its client calls, when its INIT is answered, or
\* when a thread that has the token answers the client in its slot.
LEMMA Answers ==
    ASSUME IInv, [Next]_vars, NEW c \in Clients, req'[c] # req[c]
    PROVE  \/ req[c] = "none" /\ c \in Range(ep') /\ Call(c)
           \/ req[c] = "INIT" /\ req'[c] = "none"
           \/ /\ req'[c] = "none" /\ req[c] \in Blocking /\ build' = build
              /\ \E t \in Threads : c = caps[slot[t]] /\ (AcquireTake(t) \/ HandedReply(t))
<1>1. CASE \E d \in Clients : Call(d)
  <2>1. PICK d \in Clients : Call(d)
    BY <1>1, Zenon
  <2>2. d = c /\ req[c] = "none" /\ ep' = Append(ep, c)
    BY <2>1, Zenon DEF Call, IInv, TypeInv
  <2>3. QED
    BY <2>1, <2>2, AppendFacts DEF IInv, TypeInv
<1>2. CASE \E t \in Threads : HandleInit(t)
  <2> DEFINE saved == [caps EXCEPT ![client_num + client_new + 1] = caller]
             eps == [reply_eps EXCEPT ![client_new] = client_num + client_new + 1]
             ids == {i \in {0} : client_new + 1 = client_num}
  <2>1. PICK t \in Threads : HandleInit(t)
    BY <1>2, Zenon
  <2>2. At(t, "INIT") /\ SendIds(saved, eps, ids)
    BY <2>1, Zenon DEF HandleInit
  <2>3. /\ \A i \in ClientIds : i < client_new + 1 =>
             eps[i] = Last + 1 + i /\ saved[Last + 1 + i] \in Clients
        /\ \A s \in Slots : saved[s] # NoClient => req[saved[s]] = "INIT"
    BY <2>2, SavedFacts, Zenon
  <2> HIDE DEF saved, eps
  <2>4. PICK i \in ids : saved[eps[i]] = c /\ req'[c] = "none"
    BY <2>2, Zenon DEF SendIds, Answer, IInv, TypeInv
  <2>5. i \in ClientIds /\ i < client_new + 1
    BY SlotFacts, NumFacts, Zenon
  <2>6. QED
    BY <2>3, <2>4, <2>5, SlotFacts, TokenClients
<1>3. CASE \E t \in Threads : HandleWait(t)
  <2>1. PICK t \in Threads : HandleWait(t)
    BY <1>3, Zenon
  <2>2. At(t, "WAIT") /\ SendIds(caps, reply_eps, ClientIds \ {0})
    BY <2>1, Zenon DEF HandleWait
  <2>3. PICK i \in ClientIds : caps[reply_eps[i]] = c /\ req'[c] = "none"
    BY <2>2, Zenon DEF SendIds, Answer, IInv, TypeInv
  <2>4. ~Asked /\ client_new = client_num
    BY <2>2, AtWait, Zenon
  <2>5. reply_eps[i] = Last + 1 + i /\ Last + 1 + i \in Slots
    BY <2>4, SlotFacts, Zenon DEF IInv, BeforeInv
  <2>6. req[c] \in Blocking /\ c # NoClient
    BY <2>3, <2>5, TokenClients, Zenon DEF IInv, PlaceInv
  <2>7. req[c] = "INIT"
    <3>1. PICK d \in Clients : /\ \A s \in Slots : caps[s] # d
                               /\ \A e \in Clients \ {d} : req[e] = "INIT"
      BY <2>4 DEF IInv, FirstInv
    <3>2. QED
      BY <2>3, <2>5, <3>1, Zenon
  <2>8. QED
    BY <2>3, <2>7, Zenon
<1>4. CASE UNCHANGED build /\ \E t \in Threads : AcquireTake(t) \/ HandedReply(t)
  <2>1. PICK t \in Threads : AcquireTake(t) \/ HandedReply(t)
    BY <1>4, Zenon
  <2>2. /\ pc[t] \in Parked /\ req' = [d \in Clients |-> IF d \in {caps[slot[t]]} THEN "none" ELSE req[d]]
    BY <2>1, LabelFacts, Zenon DEF AcquireTake, HandedReply, At, Reply, Answer
  <2>3. c = caps[slot[t]] /\ req'[c] = "none"
    BY <2>2, Zenon DEF IInv, TypeInv
  <2>4. req[c] \in Blocking
    <3>1. slot[t] \in Slots /\ c # NoClient
      BY TokenClients, Zenon DEF IInv, TypeInv
    <3>2. QED
      BY <2>3, <3>1, Zenon DEF IInv, PlaceInv
  <2>5. QED
    BY <1>4, <2>1, <2>3, <2>4, Zenon
<1>5. CASE UNCHANGED req
  BY <1>5, Zenon
<1>6. QED
  <2>1. CASE Server
    BY <2>1, <1>2, <1>3, <1>4, <1>5 DEF Server, MainContinued, MainEnd, ServerStep,
       Recv, AcquireSleep, HandleSendWait, HandleTmnt, clientVars
  <2>2. CASE UNCHANGED vars
    BY <2>2, <1>5, Zenon DEF vars, clientVars
  <2>3. QED
    BY <1>1, <2>1, <2>2, Zenon DEF Next, Terminated

\* Only TMNT ends a thread, and a client.
LEMMA DoneSame ==
    ASSUME IInv, [Next]_vars, ~\E t \in Threads : HandleTmnt(t)
    PROVE  Gone' = Gone /\ Done' = Done /\ terminate_num' = terminate_num
<1>1. CASE UNCHANGED <<pc, caller, ep, req, terminate_num>>
  BY <1>1, Zenon DEF Gone, Done
<1>2. CASE \E c \in Clients : Call(c)
  <2>1. PICK c \in Clients : Call(c)
    BY <1>2, Zenon
  <2>2. /\ req[c] = "none" /\ ep' = Append(ep, c) /\ ep \in Seq(Clients)
        /\ \A d \in Clients : d # c => req'[d] = req[d]
        /\ UNCHANGED <<pc, caller, terminate_num>>
    BY <2>1, Zenon DEF Call, serverVars, IInv, TypeInv
  <2>3. Range(ep') = Range(ep) \cup {c}
    BY <2>2, AppendFacts
  <2>4. QED
    BY <2>2, <2>3, Zenon DEF Gone, Done
<1>3. CASE \E t \in Threads : Recv(t)
  <2> DEFINE c == Head(ep)
  <2>1. PICK t \in Threads : Recv(t)
    BY <1>3, Zenon
  <2>2. /\ Runs = t /\ pc[t] = "recv" /\ ep # <<>> /\ ep \in Seq(Clients) /\ caller' = c
        /\ ep' = Tail(ep) /\ pc' = [pc EXCEPT ![t] = req[c]]
        /\ UNCHANGED <<req, terminate_num>>
    BY <2>1, Zenon DEF Recv, At, Runs, IInv, TypeInv
  <2>3. /\ c \in Clients /\ Range(ep) = Range(ep') \cup {c} /\ c \notin Range(ep')
    BY <2>2, TailFacts, Zenon DEF IInv, PlaceInv
  <2> HIDE DEF c
  <2>4. /\ pc'[t] = req[c] /\ \A u \in Threads : u # t => pc'[u] = pc[u]
        /\ req[c] \in Labels
    BY <2>2, <2>3 DEF IInv, TypeInv, PlaceInv
  <2>5. \A u \in Threads : pc[u] \notin Labels
    BY <2>2, LabelFacts, Zenon DEF IInv, HandInv
  <2>6. Gone' = Gone
    BY <2>2, <2>4, LabelFacts, Zenon DEF Gone
  <2>7. \A u \in Threads : pc'[u] = "TMNT" => u = t
    BY <2>4, <2>5, LabelFacts, Zenon
  <2>8. \A d \in Clients : d # c => (d \in Done' <=> d \in Done)
    BY <2>2, <2>3, <2>5, <2>7, LabelFacts DEF Done
  <2>9. c \notin Done' /\ c \notin Done
    BY <2>2, <2>3, <2>4, Zenon DEF Done
  <2>10. Done \subseteq Clients /\ Done' \subseteq Clients
    BY Zenon DEF Done
  <2>11. Done' = Done
    BY <2>8, <2>9, <2>10
  <2>12. QED
    BY <2>2, <2>6, <2>11, Zenon
<1>4. CASE \E t \in Threads : \/ HandleInit(t) \/ HandleWait(t) \/ AcquireTake(t)
                              \/ HandleSendWait(t) \/ HandedReply(t)
  <2>1. PICK t \in Threads : /\ Runs = t /\ pc[t] \notin {"TMNT", "gone"}
                             /\ UNCHANGED <<ep, terminate_num>>
                             /\ \E there \in {"recv", "acquire", "handed"} :
                                  pc' = [pc EXCEPT ![t] = there]
    BY <1>4, Zenon DEF HandleInit, HandleWait, AcquireTake, HandleSendWait, HandedReply,
       Reply, At, Runs, clientVars
  <2>2. /\ pc'[t] \in {"recv", "acquire", "handed"}
        /\ \A u \in Threads : u # t => pc'[u] = pc[u]
    BY <2>1, Zenon DEF IInv, TypeInv
  <2>3. \A u \in Threads : pc[u] # "TMNT" /\ pc'[u] # "TMNT"
    BY <2>1, <2>2, LabelFacts DEF IInv, HandInv
  <2>4. \A c \in Clients : req'[c] = "TMNT" <=> req[c] = "TMNT"
    <3>1. \A c \in Clients : c \in Range(ep) => req[c] # "none"
      BY Zenon DEF IInv, PlaceInv
    <3>2. QED
      BY <2>1, <3>1, Answers, Zenon DEF Blocking
  <2>5. Gone' = Gone
    BY <2>1, <2>2, Zenon DEF Gone
  <2>6. Done' = Done
    BY <2>1, <2>3, <2>4, Zenon DEF Done
  <2>7. QED
    BY <2>1, <2>5, <2>6, Zenon
<1>5. QED
  <2>1. CASE Server
    BY <2>1, <1>1, <1>3, <1>4, Zenon DEF Server, MainContinued, MainEnd, ServerStep,
       AcquireSleep, clientVars
  <2>2. CASE UNCHANGED vars
    BY <2>2, <1>1, Zenon DEF vars, serverVars, clientVars
  <2>3. QED
    BY <1>2, <2>1, <2>2, Zenon DEF Next, Terminated

LEMMA DoneOne ==
    ASSUME IInv, NEW t \in Threads, HandleTmnt(t)
    PROVE  /\ t \notin Gone /\ Gone' = Gone \cup {t}
           /\ caller \in Clients \ Done /\ Done' = Done \cup {caller}
           /\ terminate_num' = terminate_num + 1
<1>1. /\ pc[t] = "TMNT" /\ pc' = [pc EXCEPT ![t] = "gone"]
      /\ UNCHANGED <<caller, ep, req>> /\ terminate_num' = terminate_num + 1
  BY Zenon DEF HandleTmnt, At, clientVars
<1>2. /\ caller \in Clients /\ caller # NoClient /\ req[caller] = "TMNT"
      /\ \A u \in Threads : u # t => pc[u] \notin Labels
  BY <1>1, AtLater, Zenon
<1>3. caller \notin Range(ep)
  BY <1>2, Zenon DEF IInv, PlaceInv
<1>4. /\ pc'[t] = "gone" /\ \A u \in Threads : u # t => pc'[u] = pc[u]
  BY <1>1, Zenon DEF IInv, TypeInv
<1>5. t \notin Gone /\ Gone' = Gone \cup {t}
  BY <1>1, <1>4, Zenon DEF Gone
<1>6. \A u \in Threads : pc'[u] # "TMNT"
  BY <1>2, <1>4, LabelFacts, Zenon
<1>7. caller \notin Done
  BY <1>1, Zenon DEF Done
<1>8. \A c \in Clients : c \in Done <=> req[c] = "TMNT" /\ c \notin Range(ep) /\ c # caller
  BY <1>1, <1>2, LabelFacts, Zenon DEF Done
<1>9. \A c \in Clients : c \in Done' <=> req[c] = "TMNT" /\ c \notin Range(ep)
  BY <1>1, <1>6, Zenon DEF Done
<1>10. Done \subseteq Clients /\ Done' \subseteq Clients
  BY Zenon DEF Done
<1>11. Done' = Done \cup {caller}
  BY <1>2, <1>3, <1>8, <1>9, <1>10, Zenon
<1>12. QED
  BY <1>1, <1>2, <1>5, <1>7, <1>11, Zenon

\* The main thread gets the processor back only when no thread is ready.
MainLast == main # "boot" /\ Runs = MainThread => pool.ready = <<>>

LEMMA MainLastStep ==
    ASSUME IInv, IInv', MainLast, [Next]_vars
    PROVE  MainLast'
<1>1. CASE UNCHANGED <<pool, main>>
  BY <1>1, Zenon DEF MainLast, Runs
<1>2. CASE MainContinued
  <2>1. pool = ThreadInitial({token})
    BY <1>2, Zenon DEF MainContinued, IInv, AfterInv, BeforeInv
  <2>2. pool'.running = Last
    BY <1>2, <2>1, ResumeFacts, Zenon DEF MainContinued
  <2>3. Last # MainThread
    BY NumFacts, Zenon
  <2>4. QED
    BY <2>2, <2>3, Zenon DEF MainLast, Runs
<1>3. CASE MainEnd
  BY <1>3, Zenon DEF MainEnd, MainLast, Runs
<1>4. CASE \E t \in Threads : HandleTmnt(t)
  <2>1. pool \in PoolType /\ pool' = ThreadExit(pool)
    BY <1>4, Zenon DEF HandleTmnt, IInv, TypeInv
  <2>2. IF pool.ready = <<>>
        THEN pool'.running = MainThread /\ pool'.ready = pool.ready
        ELSE pool'.running = Head(pool.ready) /\ pool'.ready = Tail(pool.ready)
    BY <2>1, ExitPool, Zenon
  <2>3. pool.ready # <<>> => Head(pool.ready) \in Threads
    <3>1. pool.ready \in Seq(Threads)
      BY <2>1, Zenon DEF PoolType
    <3>2. QED
      BY <3>1, TailFacts, Zenon
  <2>4. QED
    BY <2>2, <2>3, NumFacts, Zenon DEF MainLast, Runs
<1>5. CASE \E t \in Threads : AcquireSleep(t)
  <2>1. PICK t \in Threads : AcquireSleep(t)
    BY <1>5, Zenon
  <2>2. pool' = ThreadSleep(pool, token) /\ pool \in PoolType /\ pool.running \in Threads
    BY <2>1, Zenon DEF AcquireSleep, At, IInv, TypeInv
  <2>3. CASE pool.ready = <<>>
    BY <2>2, <2>3, NumFacts, Zenon DEF ThreadSleep, MainLast, Runs
  <2>4. CASE pool.ready # <<>>
    <3>1. pool'.running = Head(pool.ready) /\ Head(pool.ready) \in Threads
      BY <2>2, <2>4, SleepPool, TailFacts, Zenon DEF IsMoved, PoolType
    <3>2. QED
      BY <3>1, NumFacts, Zenon DEF MainLast, Runs
  <2>5. QED
    BY <2>3, <2>4, Zenon
<1>6. CASE \E t \in Threads : AcquireTake(t)
  <2>1. PICK t \in Threads : AcquireTake(t)
    BY <1>6, Zenon
  <2>2. pool \in PoolType /\ pool.running \in Threads
    BY <2>1, Zenon DEF AcquireTake, At, IInv, TypeInv
  <2>3. pool'.running = pool.running
    BY <2>1, <2>2, TakePool DEF AcquireTake
  <2>4. QED
    BY <2>2, <2>3, NumFacts, Zenon DEF MainLast, Runs
<1>7. CASE \E t \in Threads : HandleSendWait(t)
  <2>1. PICK t \in Threads : HandleSendWait(t)
    BY <1>7, Zenon
  <2>2. pool.running \in Threads /\ pool \in PoolType /\ pool.wait[token] \in Seq(Threads)
    <3>1. pool.running = t /\ pool \in PoolType
      BY <2>1, Zenon DEF HandleSendWait, At, IInv, TypeInv
    <3>2. QED
      BY <3>1, Zenon DEF PoolType
  <2>3. pool'.running \in Threads
    <3>1. CASE pool' = LockReleaseAcquire(pool, token)
      <4>1. QED
        BY <2>2, <3>1, TailFacts, Zenon DEF LockReleaseAcquire, ThreadWakeupWait, PoolType
    <3>2. CASE pool' = ThreadWakeup(pool, token)
      BY <2>2, <3>2, Zenon DEF ThreadWakeup, PoolType
    <3>3. QED
      BY <2>1, <3>1, <3>2, Zenon DEF HandleSendWait
  <2>4. QED
    BY <2>3, NumFacts, Zenon DEF MainLast, Runs
<1>8. QED
  <2>1. CASE Server
    BY <2>1, <1>1, <1>2, <1>3, <1>4, <1>5, <1>6, <1>7, Zenon DEF Server, ServerStep,
       Recv, HandleInit, HandleWait, HandedReply, Reply
  <2>2. CASE (\E c \in Clients : Call(c)) \/ UNCHANGED vars
    BY <2>2, <1>1, Zenon DEF Call, vars, serverVars
  <2>3. QED
    BY <2>1, <2>2, Zenon DEF Next, Terminated

\* The reply to a client has one place while the client waits for it, and none
\* while the client is in no call.
LEMMA PendingFacts ==
    ASSUME IInv, NEW c \in Clients
    PROVE  /\ req[c] = "none" => Pending(c) = {}
           /\ req[c] \in Labels \ {"TMNT"} => \E x : Pending(c) = {x}
<1>1. ASSUME req[c] = "none" PROVE Pending(c) = {}
  <2>1. c \notin Range(ep) /\ c # caller /\ \A s \in Slots : caps[s] # c
    BY <1>1, Nowhere, Zenon
  <2>2. QED
    BY <2>1, Zenon DEF Pending, Range
<1>2. ASSUME req[c] \in Labels \ {"TMNT"} PROVE \E x : Pending(c) = {x}
  <2>1. req[c] \in Blocking /\ c # NoClient
    BY <1>2, LabelFacts, TokenClients, Zenon
  <2>2. /\ IsInjective(ep)
        /\ c \in Range(ep) => c # caller /\ \A s \in Slots : caps[s] # c
        /\ c = caller => \A s \in Slots : caps[s] # c
        /\ \A s \in Slots : caps[s] = c => \A r \in Slots : caps[r] = c => r = s
        /\ c \in Range(ep) \/ c = caller \/ \E s \in Slots : caps[s] = c
    BY <2>1, Zenon DEF IInv, PlaceInv
  <2>3. CASE c \in Range(ep)
    <3>1. PICK i \in DOMAIN ep : ep[i] = c
      BY <2>3, Zenon DEF Range
    <3>2. {j \in DOMAIN ep : ep[j] = c} = {i}
      BY <2>2, <3>1, Zenon DEF IsInjective
    <3>3. {c} \cap {caller} = {} /\ {r \in Slots : caps[r] = c} = {}
      BY <2>2, <2>3, Zenon
    <3>4. Pending(c) = {<<"ep", i>>}
      BY <3>2, <3>3, Zenon DEF Pending
    <3>5. QED
      BY <3>4, Zenon
  <2>4. CASE c \notin Range(ep) /\ c = caller
    <3>1. {j \in DOMAIN ep : ep[j] = c} = {}
      BY <2>4, Zenon DEF Range
    <3>2. {c} \cap {caller} = {c} /\ {r \in Slots : caps[r] = c} = {}
      BY <2>2, <2>4, Zenon
    <3>3. Pending(c) = {<<"caller", 0>>}
      BY <3>1, <3>2, Zenon DEF Pending
    <3>4. QED
      BY <3>3, Zenon
  <2>5. CASE c \notin Range(ep) /\ c # caller
    <3>1. {j \in DOMAIN ep : ep[j] = c} = {}
      BY <2>5, Zenon DEF Range
    <3>2. PICK s \in Slots : caps[s] = c
      BY <2>2, <2>5, Zenon
    <3>3. {c} \cap {caller} = {} /\ {r \in Slots : caps[r] = c} = {s}
      BY <2>2, <2>5, <3>2, Zenon
    <3>4. Pending(c) = {<<"cap", s>>}
      BY <3>1, <3>3, Zenon DEF Pending
    <3>5. QED
      BY <3>4, Zenon
  <2>6. QED
    BY <2>3, <2>4, <2>5, Zenon
<1>3. QED
  BY <1>1, <1>2, Zenon

\* Once the main thread has the processor back, one thread is left, and sleeps
\* with the reply of a client that has not ended.
LEMMA EndFacts ==
    ASSUME IInv, MainLast, main # "boot", pool.running = MainThread
    PROVE  \E w \in Threads, c \in Clients :
             Gone = Threads \ {w} /\ c \notin Done /\ w \in Keepers(c)
<1>1. Runs = MainThread /\ pool.ready = <<>> /\ Range(pool.ready) = {} /\ Runs \notin Threads
  BY NumFacts DEF Runs, MainLast, Range
<1>2. Asked
  BY <1>1, NumFacts, Zenon DEF IInv, BeforeInv
<1>3. \A t \in Threads : pc[t] = "gone" <=> t \notin Range(Sleepers)
  BY <1>1, <1>2, Zenon DEF IInv, QueueInv
<1>4. Sleepers \in Seq(Threads) /\ Range(Sleepers) # {}
  <2>1. build \in {"THREAD_LOCK", "THREAD_SEMAPHORE"} /\ Sleepers \in Seq(Threads)
    BY Zenon DEF IInv, TypeInv, PoolType, Sleepers
  <2>2. CASE build = "THREAD_LOCK"
    <3>1. Sleepers # <<>>
      BY <1>1, <1>2, <2>2, NumFacts, Zenon DEF IInv, LockInv
    <3>2. QED
      BY <2>1, <3>1, EmptyFacts, Zenon
  <2>3. CASE build = "THREAD_SEMAPHORE"
    <3>1. pc[Last] = "acquire"
      BY <1>2, <2>3, Zenon DEF IInv, SemInv
    <3>2. QED
      BY <1>3, <2>1, <3>1, NumFacts, Zenon
  <2>4. QED
    BY <2>1, <2>2, <2>3, Zenon
<1>5. PICK w : w \in Range(Sleepers)
  BY <1>4, Zenon
<1>6. w \in Threads /\ Sleepers = <<w>> /\ pc[w] \in Parked
  BY <1>2, <1>4, <1>5, RangeFacts, Zenon DEF IInv, QueueInv
<1>7. Gone = Threads \ {w}
  <2>1. Range(Sleepers) = {w}
    BY <1>6 DEF Range
  <2>2. QED
    BY <1>3, <2>1, Zenon DEF Gone
<1>8. PICK c \in Clients : c = caps[slot[w]]
  BY <1>2, <1>6, Zenon DEF IInv, AfterInv
<1>9. c \notin Done
  <2>1. c # NoClient /\ slot[w] \in Slots
    BY <1>6, TokenClients, Zenon DEF IInv, TypeInv
  <2>2. req[c] \in Blocking
    BY <1>8, <2>1, Zenon DEF IInv, PlaceInv
  <2>3. QED
    BY <2>2, Zenon DEF Done, Blocking
<1>10. w \in Keepers(c)
  BY <1>5, <1>8, Zenon DEF Keepers, Sleepers
<1>11. QED
  BY <1>6, <1>7, <1>9, <1>10, Zenon

\* The thread that answers a WAIT or SEND_WAIT has left another one asleep.
LEMMA PassedStep ==
    ASSUME IInv, [Next]_vars, build = "THREAD_LOCK", NEW c \in Clients,
           req[c] \in {"WAIT", "SEND_WAIT"}, req'[c] = "none"
    PROVE  \E d \in Clients \ {c} : Keepers(d)' # {}
<1>1. PICK t \in Threads : c = caps[slot[t]] /\ (AcquireTake(t) \/ HandedReply(t))
  BY Answers, Zenon
<1>2. /\ Runs = t /\ pc[t] \in Parked /\ (pc[t] = "acquire" => ~Held)
      /\ slot' = slot /\ caps' = [caps EXCEPT ![slot[t]] = NoClient]
      /\ pool' = pool \/ pool' = LockTake(pool, token)
  BY <1>1, LabelFacts, Zenon DEF AcquireTake, HandedReply, At, Reply, Runs, Held
<1>3. Sleepers' = Sleepers
  BY <1>2, TakePool, Zenon DEF Sleepers, IInv, TypeInv
<1>4. Asked
  BY <1>2, Zenon DEF IInv, BeforeInv, Parked
<1>5. Sleepers # <<>>
  BY <1>2, <1>4, Zenon DEF IInv, LockInv, Asked, Parked
<1>6. Sleepers \in Seq(Threads)
  BY Zenon DEF IInv, TypeInv, PoolType, Sleepers
<1>7. PICK w : w \in Range(Sleepers)
  BY <1>5, <1>6, EmptyFacts, Zenon
<1>8. w \in Threads /\ pc[w] \in Parked /\ w # t
  BY <1>2, <1>4, <1>6, <1>7, RangeFacts, Zenon DEF IInv, QueueInv
<1>9. slot[w] # slot[t] /\ slot[w] \in Slots /\ slot[t] \in Slots
  BY <1>4, <1>8, SlotsApart, Zenon
<1>10. PICK d \in Clients : d = caps[slot[w]]
  BY <1>4, <1>8, Zenon DEF IInv, AfterInv
<1>11. d # c
  BY <1>1, <1>9, <1>10, TokenClients, Zenon DEF IInv, PlaceInv
<1>12. caps'[slot'[w]] = d
  BY <1>2, <1>9, <1>10, Zenon DEF IInv, TypeInv
<1>13. w \in Keepers(d)'
  BY <1>3, <1>7, <1>12, Zenon DEF Keepers, Sleepers
<1>14. QED
  BY <1>11, <1>13
-----------------------------------------------------------------------------
(* Counting the clients and the threads. *)

F == INSTANCE FiniteSetTheorems

\* The operators of F are those of this module.
LEMMA SameCount ==
    ASSUME NEW S
    PROVE  /\ F!Cardinality(S) = Cardinality(S)
           /\ F!IsFiniteSet(S) <=> IsFiniteSet(S)
<1>1. F!Cardinality(S) = Cardinality(S)
  BY Zenon DEF F!Cardinality, Cardinality
<1>2. F!IsFiniteSet(S) <=> IsFiniteSet(S)
  BY Zenon DEF F!IsFiniteSet, IsFiniteSet
<1>3. QED
  BY <1>1, <1>2, Zenon

LEMMA SizeFacts ==
    /\ IsFiniteSet(Threads) /\ Cardinality(Threads) = client_num
    /\ IsFiniteSet(Clients) /\ Cardinality(Clients) = client_num
    /\ Cardinality({}) = 0
<1>1. F!IsFiniteSet(1..client_num) /\ F!Cardinality(1..client_num) = client_num
  <2>1. /\ F!IsFiniteSet(1..client_num)
        /\ F!Cardinality(1..client_num) = IF 1 > client_num THEN 0 ELSE client_num - 1 + 1
    <3>1. 1 \in Int /\ client_num \in Int
      BY NumFacts
    <3>2. QED
      BY <3>1, F!FS_Interval, Zenon
  <2>2. QED
    BY <2>1, NumFacts
<1>2. IsFiniteSet(Threads) /\ Cardinality(Threads) = client_num
  BY <1>1, SameCount, Zenon DEF Threads
<1>3. IsFiniteSet(Clients) /\ Cardinality(Clients) = client_num
  BY TokenClients, Zenon DEF client_num
<1>4. Cardinality({}) = 0
  BY SameCount, F!FS_EmptySet, Zenon
<1>5. QED
  BY <1>2, <1>3, <1>4, Zenon

LEMMA OneSize == ASSUME NEW x PROVE Cardinality({x}) = 1
  BY SameCount, F!FS_Singleton, Zenon

LEMMA SubsetSize ==
    ASSUME NEW T, IsFiniteSet(T), NEW S \in SUBSET T
    PROVE  /\ IsFiniteSet(S)
           /\ Cardinality(S) = Cardinality(T) => S = T
<1>1. F!IsFiniteSet(T)
  BY SameCount, Zenon
<1>2. F!IsFiniteSet(S) /\ (F!Cardinality(S) = F!Cardinality(T) => S = T)
  BY <1>1, F!FS_Subset, Zenon
<1>3. QED
  BY <1>2, SameCount, Zenon

LEMMA AddSize ==
    ASSUME NEW S, IsFiniteSet(S), NEW x, x \notin S
    PROVE  Cardinality(S \cup {x}) = Cardinality(S) + 1
  BY SameCount, F!FS_AddElement, Zenon

LEMMA RemoveSize ==
    ASSUME NEW S, IsFiniteSet(S), NEW x, x \in S
    PROVE  Cardinality(S \ {x}) = Cardinality(S) - 1
  BY SameCount, F!FS_RemoveElement, Zenon

LEMMA ClientsCounted == Counted
<1> SUFFICES ASSUME NEW f \in [ClientIds -> Clients],
                    \A k, j \in ClientIds : f[k] = f[j] => k = j
             PROVE  \A c \in Clients : \E k \in ClientIds : f[k] = c
  BY Zenon DEF Counted
<1>1. F!IsFiniteSet(0..(client_num - 1)) /\ F!Cardinality(0..(client_num - 1)) = client_num
  <2>1. /\ F!IsFiniteSet(0..(client_num - 1))
        /\ F!Cardinality(0..(client_num - 1)) =
             IF 0 > client_num - 1 THEN 0 ELSE (client_num - 1) - 0 + 1
    <3>1. 0 \in Int /\ client_num - 1 \in Int
      BY NumFacts
    <3>2. QED
      BY <3>1, F!FS_Interval, Zenon
  <2>2. QED
    BY <2>1, NumFacts
<1>2. F!Cardinality(Clients) = client_num /\ F!IsFiniteSet(Clients)
  BY SameCount, SizeFacts, Zenon
<1>3. f \in F!Injection(ClientIds, Clients)
  BY Zenon DEF F!Injection, F!IsInjective
<1>4. f \in F!Surjection(ClientIds, Clients)
  BY <1>1, <1>2, <1>3, F!FS_Injection DEF ClientIds
<1>5. QED
  BY <1>4, Zenon DEF F!Surjection
-----------------------------------------------------------------------------
(* The theorems. *)

\* The inductive invariant holds: whatever the order of the calls, one thread
\* handles every INIT and the WAIT, and afterwards at most one thread sleeps.
THEOREM TokenInvariant == Spec => []IInv
<1>1. Init => IInv
  BY InitInv, Zenon
<1>2. IInv /\ [Next]_vars => IInv'
  BY NextInv, ClientsCounted, Zenon
<1>3. QED
  BY <1>1, <1>2, PTL DEF Spec

\* The threads that exited are as many as the clients done.
LEMMA TokenDone == Spec => [](DoneInv /\ MainLast)
<1>1. Init => DoneInv /\ MainLast
  <2>1. SUFFICES ASSUME Init PROVE Gone = {} /\ Done = {} /\ terminate_num = 0 /\ main = "boot"
    BY SizeFacts, Zenon DEF DoneInv, MainLast
  <2>2. QED
    BY <2>1, Zenon DEF Init, Gone, Done
<1>2. ASSUME IInv, IInv', DoneInv, MainLast, [Next]_vars PROVE DoneInv' /\ MainLast'
  <2>1. MainLast'
    BY <1>2, MainLastStep, Zenon
  <2>2. CASE ~\E t \in Threads : HandleTmnt(t)
    BY <1>2, <2>1, <2>2, DoneSame, Zenon DEF DoneInv
  <2>3. CASE \E t \in Threads : HandleTmnt(t)
    <3>1. PICK t \in Threads : HandleTmnt(t)
      BY <2>3, Zenon
    <3>2. /\ t \notin Gone /\ Gone' = Gone \cup {t}
          /\ caller \in Clients \ Done /\ Done' = Done \cup {caller}
          /\ terminate_num' = terminate_num + 1
      BY <1>2, <3>1, DoneOne, Zenon
    <3>3. IsFiniteSet(Gone) /\ IsFiniteSet(Done)
      <4>1. Gone \in SUBSET Threads /\ Done \in SUBSET Clients
        BY Zenon DEF Gone, Done
      <4>2. QED
        BY <4>1, SizeFacts, SubsetSize, Zenon
    <3>4. /\ Cardinality(Gone \cup {t}) = Cardinality(Gone) + 1
          /\ Cardinality(Done \cup {caller}) = Cardinality(Done) + 1
      BY <3>2, <3>3, AddSize, Zenon
    <3>5. QED
      BY <1>2, <2>1, <3>2, <3>4, Zenon DEF DoneInv
  <2>4. QED
    BY <2>2, <2>3, Zenon
<1>3. QED
  BY <1>1, <1>2, TokenInvariant, PTL DEF Spec

\* No reply is lost (NoReplyLost): every client blocked in a call other than
\* TMNT can be answered in exactly one way, and no other client can, although
\* the thread that handles WAIT saves its caller in the slot of the last INIT.
THEOREM TokenReplies == Spec => []NoReplyLost
<1>1. IInv => NoReplyLost
  BY PendingFacts, OneSize, Zenon DEF NoReplyLost
<1>2. QED
  BY <1>1, TokenInvariant, PTL

\* The end of a test strands one client (EndStrandsOne): when the main thread
\* has the processor back, all threads but one have exited, and that one sleeps
\* with the reply of the only client that has not ended.
THEOREM TokenEnd == Spec => []EndStrandsOne
<1>1. ASSUME IInv, DoneInv, MainLast, main # "boot", pool.running = MainThread
      PROVE  /\ terminate_num = client_num - 1
             /\ \E c \in Clients : /\ Keepers(c) # {}
                                   /\ \A d \in Clients \ {c} : req[d] = "TMNT"
  <2>1. PICK w \in Threads, c \in Clients :
          Gone = Threads \ {w} /\ c \notin Done /\ w \in Keepers(c)
    BY <1>1, EndFacts, Zenon
  <2>2. /\ Cardinality(Threads \ {w}) = client_num - 1
        /\ Cardinality(Clients \ {c}) = client_num - 1
    BY SizeFacts, RemoveSize, Zenon
  <2>3. terminate_num = client_num - 1 /\ Cardinality(Done) = client_num - 1
    BY <1>1, <2>1, <2>2, Zenon DEF DoneInv
  <2>4. Done = Clients \ {c}
    <3>1. Done \in SUBSET (Clients \ {c}) /\ Clients \ {c} \in SUBSET Clients
      BY <2>1, Zenon DEF Done
    <3>2. IsFiniteSet(Clients \ {c})
      BY <3>1, SizeFacts, SubsetSize, Zenon
    <3>3. QED
      BY <2>2, <2>3, <3>1, <3>2, SubsetSize, Zenon
  <2>5. \A d \in Clients \ {c} : req[d] = "TMNT"
    BY <2>4, Zenon DEF Done
  <2>6. QED
    BY <2>1, <2>3, <2>5, Zenon
<1>2. IInv /\ DoneInv /\ MainLast => EndStrandsOne
  BY <1>1, Zenon DEF EndStrandsOne
<1>3. QED
  BY <1>2, TokenInvariant, TokenDone, PTL

\* The token is passed to another client (PassedToAnother): with the lock, a
\* WAIT or SEND_WAIT is answered only while the call of another client sleeps
\* in its place.
THEOREM TokenPassed == Spec => PassedToAnother
<1>1. IInv /\ [Next]_vars =>
        [build = "THREAD_LOCK" => \A c \in Clients :
           req[c] \in {"WAIT", "SEND_WAIT"} /\ req'[c] = "none" =>
             \E d \in Clients \ {c} : Keepers(d)' # {}]_vars
  BY PassedStep, Zenon
<1>2. QED
  BY <1>1, TokenInvariant, PTL DEF Spec, PassedToAnother
=============================================================================
