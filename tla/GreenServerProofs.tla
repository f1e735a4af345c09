------------------------- MODULE GreenServerProofs -------------------------
(***************************************************************************)
(* The theorems about GreenServer, for every number of clients and rounds  *)
(* and every buffer_limit, and the part of their proofs that counts        *)
(* threads, clients and requests.                                          *)
(***************************************************************************)
EXTENDS GreenServerSteps, FiniteSetTheorems

\* The facts about the sizes of sets.
LEMMA Counting == Counted
<1>1. ASSUME NEW A \in SUBSET Threads, NEW B \in SUBSET Threads
      PROVE  /\ Cardinality(A) \in Nat
             /\ A \subseteq B => Cardinality(B) >= Cardinality(A)
             /\ \A x \in Threads :
                  /\ A \ {x} \subseteq B => Cardinality(B) >= Cardinality(A) - 1
                  /\ x \notin A /\ A \cup {x} \subseteq B =>
                       Cardinality(B) >= Cardinality(A) + 1
  <2>1. IsFiniteSet(Threads)
    BY NumFacts, FS_Interval DEF Threads
  <2>2. \A S \in SUBSET Threads : IsFiniteSet(S) /\ Cardinality(S) \in Nat
    BY <2>1, FS_Subset, FS_CardinalityType, Zenon
  <2>3. \A S, T \in SUBSET Threads : S \subseteq T => Cardinality(T) >= Cardinality(S)
    BY <2>2, FS_Subset, Zenon
  <2>4. ASSUME NEW x \in Threads
        PROVE  /\ A \ {x} \subseteq B => Cardinality(B) >= Cardinality(A) - 1
               /\ x \notin A /\ A \cup {x} \subseteq B =>
                    Cardinality(B) >= Cardinality(A) + 1
    <3>1. /\ A \ {x} \in SUBSET Threads
          /\ A \cup {x} \in SUBSET Threads
          /\ x \notin A => A \ {x} = A
      BY Zenon
    <3>2. x \in A => Cardinality(A \ {x}) = Cardinality(A) - 1
      BY <2>2, FS_RemoveElement, Zenon
    <3>3. x \notin A => Cardinality(A \cup {x}) = Cardinality(A) + 1
      BY <2>2, FS_AddElement, Zenon
    <3>4. Cardinality(A \ {x}) >= Cardinality(A) - 1
      BY <2>2, <3>1, <3>2
    <3>5. A \ {x} \subseteq B => Cardinality(B) >= Cardinality(A) - 1
      BY <2>2, <2>3, <3>1, <3>4
    <3>6. x \notin A /\ A \cup {x} \subseteq B =>
            Cardinality(B) >= Cardinality(A) + 1
      BY <2>3, <3>1, <3>3, Zenon
    <3>7. QED
      BY <3>5, <3>6, Zenon
  <2>5. QED
    BY <2>2, <2>3, <2>4, Zenon
<1>2. ASSUME NEW f \in [ClientIds -> Clients],
             \A i, j \in ClientIds : f[i] = f[j] => i = j
      PROVE  \A c \in Clients : \E i \in ClientIds : f[i] = c
  <2> DEFINE S == {f[i] : i \in ClientIds}
  <2>1. IsFiniteSet(ClientIds) /\ Cardinality(ClientIds) = client_num
    BY NumFacts, FS_Interval DEF ClientIds
  <2>2. f \in Bijection(ClientIds, S)
    <3>1. f \in [ClientIds -> S]
      BY Zenon
    <3>2. f \in Injection(ClientIds, S)
      BY <1>2, <3>1, Zenon DEF Injection, IsInjective
    <3>3. f \in Surjection(ClientIds, S)
      BY <3>1, Zenon DEF Surjection
    <3>4. QED
      BY <3>2, <3>3, Zenon DEF Bijection
  <2>3. IsFiniteSet(S) /\ Cardinality(S) = client_num
    <3>1. ExistsBijection(ClientIds, S)
      BY <2>2, Zenon DEF ExistsBijection
    <3>2. QED
      BY <2>1, <3>1, FS_Bijection, Zenon
  <2>4. S = Clients
    <3>1. S \in SUBSET Clients
      BY Zenon
    <3>2. QED
      BY <2>3, <3>1, FS_Subset, ClientsAssumption, Zenon DEF client_num
  <2>5. QED
    BY <2>4, Zenon
<1>3. QED
  BY <1>1, <1>2, Zenon DEF Counted

\* The inductive invariant holds in every reachable state.
THEOREM Invariant == Spec => []IInv
<1>1. IInv /\ [Next]_vars => IInv'
  BY Counting, NextInv, Zenon
<1>2. QED
  BY <1>1, InitInv, PTL DEF Spec

\* Types are kept; in particular the assertions of PRODUCER and CONSUMER
\* about the buffer never fail, for any number of clients and rounds and any
\* limit.
THEOREM TypeCorrect == Spec => []TypeOK
<1>1. IInv => TypeOK
  BY Zenon DEF IInv
<1>2. QED
  BY Invariant, <1>1, PTL

\* lock_global is never held when another thread runs, so nobody waits for
\* it.
THEOREM LockFree == Spec => []LockNeverContended
<1>1. IInv => LockNeverContended
  BY Zenon DEF IInv
<1>2. QED
  BY Invariant, <1>1, PTL

\* thread_wakeup in PRODUCER and CONSUMER loses no wakeup, whatever order
\* newcomers and woken threads run in.
THEOREM WakeupsKept == Spec => []NoLostWakeup
<1>1. IInv => NoLostWakeup
  BY Zenon DEF IInv
<1>2. QED
  BY Invariant, <1>1, PTL

\* A blocked client is in exactly one place.
LEMMA OnePending ==
    ASSUME IInv, KeptInv, NEW c \in Clients, req[c] \in Labels \ {"TMNT"}
    PROVE  Cardinality(Pending(c)) = 1
<1>1. \E x : Pending(c) = {x}
  <2>1. /\ IsInjective(ep)
        /\ c \in Range(ep) => c # caller
        /\ \A s \in Slots : caps[s] = c =>
             /\ c \notin Range(ep) /\ c # caller
             /\ \A r \in Slots : caps[r] = c => r = s
    BY InvSplit, NoClientAssumption, Zenon DEF CapInv, PlaceInv
  <2>2. CASE c \in Range(ep)
    <3>1. PICK j \in DOMAIN ep : ep[j] = c
      BY <2>2, Zenon DEF Range
    <3>2. {i \in DOMAIN ep : ep[i] = c} = {j}
      BY <2>1, <3>1, Zenon DEF IsInjective
    <3>3. {c} \cap {caller} = {} /\ {r \in Slots : caps[r] = c} = {}
      BY <2>1, <2>2, Zenon
    <3>4. Pending(c) = {<<"ep", j>>}
      BY <3>2, <3>3, Zenon DEF Pending
    <3>5. QED
      BY <3>4, Zenon
  <2>3. CASE c = caller
    <3>1. {i \in DOMAIN ep : ep[i] = c} = {} /\ {r \in Slots : caps[r] = c} = {}
      BY <2>1, <2>3, Zenon DEF Range
    <3>2. {c} \cap {caller} = {c}
      BY <2>3, Zenon
    <3>3. Pending(c) = {<<"caller", 0>>}
      BY <3>1, <3>2, Zenon DEF Pending
    <3>4. QED
      BY <3>3, Zenon
  <2>4. ASSUME NEW s \in Slots, caps[s] = c
        PROVE  \E x : Pending(c) = {x}
    <3>1. /\ {i \in DOMAIN ep : ep[i] = c} = {}
          /\ {c} \cap {caller} = {}
          /\ {r \in Slots : caps[r] = c} = {s}
      BY <2>1, <2>4, Zenon DEF Range
    <3>2. Pending(c) = {<<"cap", s>>}
      BY <3>1, Zenon DEF Pending
    <3>3. QED
      BY <3>2, Zenon
  <2>5. QED
    BY <2>2, <2>3, <2>4, Zenon DEF KeptInv
<1>2. QED
  BY <1>1, FS_Singleton, Zenon

\* Every client that waits for an answer is in exactly one of the endpoint
\* queue, the caller slot and the capability slots, and a saved capability
\* belongs to a thread at work or to the barrier, for every number of
\* clients: no reply capability is overwritten, dropped or kept twice.
THEOREM NoneForgotten == Spec => []NoRequestForgotten
<1>1. Init => KeptInv
  BY NoClientAssumption, Zenon DEF Init, KeptInv, Labels
<1>2. IInv /\ KeptInv => NoRequestForgotten
  BY OnePending, NonePending, CapUsed, Zenon DEF NoRequestForgotten
<1>3. IInv /\ KeptInv /\ [Next]_vars => KeptInv'
  BY Counting, KeptNext, Zenon
<1>4. QED
  BY <1>1, <1>2, <1>3, Invariant, PTL DEF Spec

-----------------------------------------------------------------------------
(* GreenServer implements BoundedBuffer. *)

\* The server behaves as a bounded buffer: an item is stored or taken only
\* in the step that answers the client that asked for it.
THEOREM Refinement == Spec => ImplementsBuffer
<1>1. Init => Buffer!Init
  BY Zenon DEF Init, Buffer!Init
<1>2. IInv /\ [Next]_vars =>
        [Buffer!Next]_<<buffer, [c \in Clients |->
                                   IF req[c] \in {"PRODUCER", "CONSUMER"}
                                   THEN req[c] ELSE "none"]>>
  BY BufferStep, Zenon DEF Asked
<1>3. QED
  BY <1>1, <1>2, Invariant, PTL DEF Spec, ImplementsBuffer, Buffer!Spec

-----------------------------------------------------------------------------
(* The end of the test: one thread leaves for every client. *)

\* The sets the argument counts are finite.
LEMMA CountSets ==
    /\ IsFiniteSet(Threads) /\ Cardinality(Threads) = client_num
    /\ IsFiniteSet(Clients) /\ Cardinality(Clients) = client_num
    /\ IsFiniteSet(Clients \X (1..Rounds))
<1>1. IsFiniteSet(Threads) /\ Cardinality(Threads) = client_num
  BY NumFacts, FS_Interval DEF Threads
<1>2. IsFiniteSet(Clients) /\ Cardinality(Clients) = client_num
  BY ClientsAssumption, Zenon DEF client_num
<1>3. IsFiniteSet(1..Rounds)
  BY RoundsAssumption, FS_Interval
<1>4. QED
  BY <1>1, <1>2, <1>3, FS_Product, Zenon

\* Steps after which the same clients and threads have left.
LEMMA SameLeft ==
    ASSUME LeaveInv,
           \A c \in Clients : c \in Left' <=> c \in Left,
           \A t \in Threads : t \in Leaving' <=> t \in Leaving
    PROVE  LeaveInv'
<1>1. Left' = Left /\ Leaving' = Leaving
  BY Zenon DEF Left, Leaving
<1>2. QED
  BY <1>1, Zenon DEF LeaveInv

\* A call only queues its client.
LEMMA CallLeave ==
    ASSUME IInv, LeaveInv, NEW c \in Clients, Call(c)
    PROVE  LeaveInv'
<1>1. /\ req[c] = "none"
      /\ req' = [req EXCEPT ![c] = NextLabel(c)]
      /\ ep' = Append(ep, c)
      /\ UNCHANGED pc
  BY Zenon DEF Call, serverVars
<1>2. Range(ep') = Range(ep) \cup {c}
  BY <1>1, InvSplit, AppendFacts DEF RestType
<1>3. \A d \in Clients \ {c} : req'[d] = req[d]
  BY <1>1, InvSplit, Zenon DEF RestType
<1>4. \A d \in Clients : d \in Left' <=> d \in Left
  BY <1>1, <1>2, <1>3, Zenon DEF Left
<1>5. QED
  BY <1>1, <1>4, SameLeft, Zenon DEF Leaving

\* Receiving a TMNT is the step with which both leave.
LEMMA RecvLeave ==
    ASSUME IInv, LeaveInv, NEW t \in Threads, Recv(t)
    PROVE  LeaveInv'
<1> DEFINE c == Head(ep)
<1>1. /\ pc[t] = "recv"
      /\ ep # <<>>
      /\ ep' = Tail(ep)
      /\ pc' = [pc EXCEPT ![t] = req[c]]
      /\ UNCHANGED req
  BY Zenon DEF Recv, At
<1>2. /\ c \in Clients
      /\ Range(ep) = Range(ep') \cup {c}
      /\ c \notin Range(ep')
  BY <1>1, InvSplit, TailFacts, Zenon DEF RestType, CapInv, PlaceInv
<1>3. /\ pc'[t] = req[c]
      /\ \A u \in Threads \ {t} : pc'[u] = pc[u]
      /\ req[c] # "gone"
  BY <1>1, <1>2, InvSplit, Zenon DEF RestType, Labels
<1> HIDE DEF c
<1>4. CASE req[c] = "TMNT"
  <2>1. Left' = Left \cup {c} /\ c \notin Left
    BY <1>1, <1>2, <1>4, Zenon DEF Left
  <2>2. Leaving' = Leaving \cup {t} /\ t \notin Leaving
    BY <1>1, <1>3, <1>4, Zenon DEF Leaving
  <2>3. IsFiniteSet(Left) /\ IsFiniteSet(Leaving)
    BY CountSets, FS_Subset, Zenon DEF Left, Leaving
  <2>4. Cardinality(Left') = Cardinality(Left) + 1
    BY <2>1, <2>3, FS_AddElement, Zenon
  <2>5. Cardinality(Leaving') = Cardinality(Leaving) + 1
    BY <2>2, <2>3, FS_AddElement, Zenon
  <2>6. QED
    BY <2>4, <2>5, Zenon DEF LeaveInv
<1>5. CASE req[c] # "TMNT"
  <2>1. \A d \in Clients : d \in Left' <=> d \in Left
    BY <1>1, <1>2, <1>5, Zenon DEF Left
  <2>2. \A u \in Threads : u \in Leaving' <=> u \in Leaving
    BY <1>1, <1>3, <1>5, Zenon DEF Leaving
  <2>3. QED
    BY <2>1, <2>2, SameLeft, Zenon
<1>6. QED
  BY <1>4, <1>5, Zenon

\* Every step keeps LeaveInv.
LEMMA LeaveNext ==
    ASSUME IInv, LeaveInv, [Next]_vars
    PROVE  LeaveInv'
<1>1. CASE UNCHANGED <<pc, req, ep>>
  BY <1>1, SameLeft, Zenon DEF Left, Leaving
<1>2. CASE \E c \in Clients : Call(c)
  BY <1>2, CallLeave, Zenon
<1>3. ASSUME NEW t \in Threads, NEW next, UNCHANGED <<req, ep>>,
             pc' = [pc EXCEPT ![t] = next],
             pc[t] \in {"TMNT", "gone"} <=> next \in {"TMNT", "gone"}
      PROVE  LeaveInv'
  <2>1. /\ pc'[t] = next
        /\ \A u \in Threads \ {t} : pc'[u] = pc[u]
    BY <1>3, InvSplit, Zenon DEF RestType
  <2>2. \A u \in Threads : u \in Leaving' <=> u \in Leaving
    BY <1>3, <2>1, Zenon DEF Leaving
  <2>3. QED
    BY <1>3, <2>2, SameLeft, Zenon DEF Left
<1>4. ASSUME NEW t \in Threads, ServerStep(t)
      PROVE  LeaveInv'
  <2>1. CASE Recv(t)
    BY <2>1, RecvLeave, Zenon
  <2>2. CASE HandleInit(t)
    <3>1. \A c \in Clients : req[c] # "TMNT" /\ req'[c] # "TMNT"
      <4>1. \A c \in Clients : req[c] \in {"INIT", "none"}
        BY <2>2, InvSplit, InitFacts DEF HandleInit, At
      <4>2. \A c \in Clients : req'[c] = "none" \/ req'[c] = req[c]
        BY <2>2, Counting, HandleInitInv
      <4>3. QED
        BY <4>1, <4>2
    <3>2. /\ pc[t] = "INIT" /\ pc'[t] = "recv"
          /\ \A u \in Threads \ {t} : pc'[u] = pc[u]
      BY <2>2, InvSplit DEF RestType, HandleInit, At
    <3>3. \A u \in Threads : u \in Leaving' <=> u \in Leaving
      BY <3>2, Zenon DEF Leaving
    <3>4. QED
      BY <3>1, <3>3, SameLeft DEF Left
  <2>3. CASE ProducerSave(t) \/ ConsumerSave(t)
    BY <1>3, <2>3, Zenon DEF ProducerSave, ConsumerSave, SaveRequest, At, clientVars
  <2>4. CASE ProducerAcquire(t) \/ ConsumerAcquire(t)
    BY <1>1, <1>3, <2>4
       DEF ProducerAcquire, ConsumerAcquire, Acquire, At, clientVars
  <2>5. CASE ProducerSleep(t) \/ ConsumerSleep(t)
    BY <1>3, <2>5, Zenon DEF ProducerSleep, ConsumerSleep, SleepOn, At, clientVars
  <2>6. CASE ProducerPut(t) \/ ConsumerTake(t)
    <3>1. /\ pc[t] \in InLoop
          /\ pc' = [pc EXCEPT ![t] = "recv"]
          /\ req' = [d \in Clients |-> IF d = caps[slot[t]] THEN "none" ELSE req[d]]
          /\ UNCHANGED ep
      BY <2>6, Zenon DEF ProducerPut, ConsumerTake, Finish, Reply, At, InLoop
    <3>2. req[caps[slot[t]]] \in {"PRODUCER", "CONSUMER"}
      BY <3>1, InvSplit, ReplyFacts, Zenon DEF InLoop
    <3>3. \A c \in Clients : c \in Left' <=> c \in Left
      BY <3>1, <3>2, Zenon DEF Left
    <3>4. \A u \in Threads : u \in Leaving' <=> u \in Leaving
      BY <3>1, InvSplit DEF RestType, Leaving, InLoop
    <3>5. QED
      BY <3>3, <3>4, SameLeft
  <2>7. CASE HandleTmnt(t)
    BY <1>3, <2>7, Zenon DEF HandleTmnt, At, clientVars
  <2>8. QED
    BY <1>4, <2>1, <2>2, <2>3, <2>4, <2>5, <2>6, <2>7
       DEF ServerStep, Producer, Consumer
<1>5. CASE UNCHANGED vars \/ Terminated \/ MainEnd \/ MainContinued
  BY <1>1, <1>5, Zenon
     DEF vars, serverVars, clientVars, Terminated, MainEnd, MainContinued
<1>6. QED
  BY <1>2, <1>4, <1>5, Zenon DEF Next, Server

-----------------------------------------------------------------------------
(* The end of the test: what is left to put and to take. *)

\* With an even number of clients, ids pair the consumers with producers.
LEMMA Pairing ==
    ASSUME client_num % 2 = 0,
           NEW f \in [Clients -> ClientIds],
           \A c, d \in Clients : f[c] = f[d] => c = d,
           \A i \in ClientIds : \E c \in Clients : f[c] = i
    PROVE  Cardinality({x \in Clients \X (1..Rounds) : f[x[1]] % 2 = 0}) =
             Cardinality({x \in Clients \X (1..Rounds) : f[x[1]] % 2 = 1})
<1> DEFINE Of(parity) == {x \in Clients \X (1..Rounds) : f[x[1]] % 2 = parity}
           partner(c) == CHOOSE d \in Clients : f[d] = f[c] + 1
           g == [x \in Of(0) |-> <<partner(x[1]), x[2]>>]
<1>1. \A i \in ClientIds : i % 2 = 0 => i + 1 \in ClientIds /\ (i + 1) % 2 = 1
  BY NumFacts DEF ClientIds
<1>2. \A i \in ClientIds : i % 2 = 1 => /\ i - 1 \in ClientIds /\ (i - 1) % 2 = 0
                                        /\ (i - 1) + 1 = i
  BY NumFacts DEF ClientIds
<1>3. ASSUME NEW c \in Clients, f[c] % 2 = 0
      PROVE  /\ partner(c) \in Clients
             /\ f[partner(c)] = f[c] + 1
             /\ f[partner(c)] % 2 = 1
  <2>1. f[c] + 1 \in ClientIds /\ (f[c] + 1) % 2 = 1
    BY <1>1, <1>3, Zenon
  <2>2. \E d \in Clients : f[d] = f[c] + 1
    BY <2>1, Zenon
  <2>3. QED
    BY <2>1, <2>2, Zenon
<1> HIDE DEF partner
<1>4. g \in [Of(0) -> Of(1)]
  BY <1>3, Zenon
<1>5. \A x, y \in Of(0) : g[x] = g[y] => x = y
  <2> SUFFICES ASSUME NEW x \in Of(0), NEW y \in Of(0), g[x] = g[y]
               PROVE  x = y
    BY Zenon
  <2>1. partner(x[1]) = partner(y[1]) /\ x[2] = y[2]
    BY Zenon
  <2>2. f[x[1]] + 1 = f[y[1]] + 1
    BY <1>3, <2>1
  <2>3. f[x[1]] \in Int /\ f[y[1]] \in Int
    BY NumFacts DEF ClientIds
  <2>4. x[1] = y[1]
    BY <2>2, <2>3
  <2>5. QED
    BY <2>1, <2>4
<1>6. \A y \in Of(1) : \E x \in Of(0) : g[x] = y
  <2> SUFFICES ASSUME NEW y \in Of(1)
               PROVE  \E x \in Of(0) : g[x] = y
    BY Zenon
  <2>1. /\ y[1] \in Clients /\ f[y[1]] % 2 = 1 /\ f[y[1]] \in ClientIds
        /\ y[2] \in 1..Rounds /\ y = <<y[1], y[2]>>
    OBVIOUS
  <2>2. PICK c \in Clients : f[c] = f[y[1]] - 1
    BY <1>2, <2>1, Zenon
  <2>3. f[c] % 2 = 0 /\ f[c] + 1 = f[y[1]]
    BY <1>2, <2>1, <2>2
  <2>4. partner(c) = y[1]
    BY <1>3, <2>1, <2>3
  <2>5. <<c, y[2]>> \in Of(0) /\ g[<<c, y[2]>>] = <<partner(c), y[2]>>
    BY <2>1, <2>3
  <2>6. QED
    BY <2>1, <2>4, <2>5, Zenon
<1>7. IsFiniteSet(Of(0))
  BY CountSets, FS_Subset
<1> HIDE DEF g, Of
<1>8. g \in Bijection(Of(0), Of(1))
  BY <1>4, <1>5, <1>6 DEF Bijection, Injection, Surjection, IsInjective
<1>9. ExistsBijection(Of(0), Of(1))
  BY <1>8 DEF ExistsBijection
<1>10. Cardinality(Of(0)) = Cardinality(Of(1))
  BY <1>7, <1>9, FS_Bijection
<1>11. QED
  BY <1>10, Zenon DEF Of

\* What is to do is a finite set.
LEMMA ToDoFinite ==
    ASSUME NEW parity
    PROVE  /\ IsFiniteSet(ToDo(parity)) /\ Cardinality(ToDo(parity)) \in Nat
           /\ ToDo(parity) \subseteq Clients \X (1..Rounds)
<1>1. ToDo(parity) \in SUBSET (Clients \X (1..Rounds))
  BY Zenon DEF ToDo
<1>2. IsFiniteSet(ToDo(parity))
  BY <1>1, CountSets, FS_Subset
<1>3. QED
  BY <1>1, <1>2, FS_CardinalityType, Zenon

\* An answer takes one request off the list of its client's role.
LEMMA FinishToDo ==
    ASSUME IInv, RoleInv, NEW t \in Threads, NEW prim, pc[t] \in InLoop,
           Finish(t, prim)
    PROVE  /\ pc[t] = "p_loop" =>
                /\ ToDo(0)' = ToDo(0)
                /\ Cardinality(ToDo(1)') = Cardinality(ToDo(1)) - 1
           /\ pc[t] = "c_loop" =>
                /\ ToDo(1)' = ToDo(1)
                /\ Cardinality(ToDo(0)') = Cardinality(ToDo(0)) - 1
<1> DEFINE c == caps[slot[t]]
<1>1. /\ left' = [d \in Clients |-> IF d = c THEN left[d] - 1 ELSE left[d]]
      /\ id' = id
  BY Zenon DEF Finish, Reply
<1>2. /\ c \in Clients
      /\ pc[t] = "p_loop" => id[c] % 2 = 1
      /\ pc[t] = "c_loop" => id[c] % 2 = 0
      /\ left[c] \in 1..Rounds
  BY InvSplit, ReplyFacts, Zenon DEF RoleInv
<1>3. \A d \in Clients : left[d] \in Nat
  BY InvSplit, RoundsAssumption DEF RestType
<1> HIDE DEF c
<1>4. left'[c] = left[c] - 1 /\ \A d \in Clients \ {c} : left'[d] = left[d]
  BY <1>1, <1>2, Zenon
<1>5. ASSUME NEW parity, id[c] % 2 # parity
      PROVE  ToDo(parity)' = ToDo(parity)
  BY <1>1, <1>2, <1>4, <1>5 DEF ToDo
<1>6. ASSUME NEW parity, id[c] % 2 = parity
      PROVE  Cardinality(ToDo(parity)') = Cardinality(ToDo(parity)) - 1
  <2>1. <<c, left[c]>> \in ToDo(parity)
    BY <1>2, <1>6 DEF ToDo
  <2>2. ToDo(parity)' = ToDo(parity) \ {<<c, left[c]>>}
    <3>1. \A d \in Clients, k \in 1..Rounds :
             k <= left'[d] <=> k <= left[d] /\ <<d, k>> # <<c, left[c]>>
      BY <1>2, <1>3, <1>4
    <3>2. \A x \in Clients \X (1..Rounds) :
             x[1] \in Clients /\ x[2] \in 1..Rounds /\ x = <<x[1], x[2]>>
      OBVIOUS
    <3>3. \A x \in Clients \X (1..Rounds) :
             x[2] <= left'[x[1]] <=> x[2] <= left[x[1]] /\ x # <<c, left[c]>>
      BY <3>1, <3>2, Zenon
    <3>4. QED
      BY <1>1, <3>3, Zenon DEF ToDo
  <2>3. QED
    BY <2>1, <2>2, ToDoFinite, FS_RemoveElement, Zenon
<1>7. QED
  BY <1>2, <1>5, <1>6

\* Every step keeps BalanceInv: it is set up by the barrier, and every put
\* and every take keeps it.
LEMMA BalanceNext ==
    ASSUME IInv, RoleInv, BalanceInv, [Next]_vars
    PROVE  BalanceInv'
<1>1. CASE UNCHANGED <<client_new, buffer, id, left>>
  BY <1>1, Zenon DEF BalanceInv, ToDo
<1>2. ASSUME NEW t \in Threads, HandleInit(t)
      PROVE  BalanceInv'
  <2>1. /\ client_new' = client_new + 1
        /\ UNCHANGED <<buffer, left>>
    BY <1>2, Zenon DEF HandleInit
  <2>2. /\ client_new \in Nat /\ client_new < client_num
        /\ \A c \in Clients : id[c] = -1
    BY <1>2, InvSplit, InitFacts DEF HandleInit, At
  <2>3. buffer' = 0
    BY <2>1, <2>2, Zenon DEF BalanceInv
  <2>4. ASSUME client_num % 2 = 0, client_new' = client_num
        PROVE  Cardinality(ToDo(0)') = 0 + Cardinality(ToDo(1)')
    <3>1. id' \in [Clients -> ClientIds]
      <4>1. IInv'
        BY <1>2, Counting, HandleInitInv
      <4>2. id' \in [Clients -> ClientIds \cup {-1}]
        BY <4>1 DEF IInv, TypeOK
      <4>3. \A c \in Clients : id'[c] # -1
        BY <2>4, <4>1 DEF IInv, BarrierInv
      <4>4. QED
        BY <4>2, <4>3, Zenon
    <3>2. /\ \A c, d \in Clients : id'[c] = id'[d] => c = d
          /\ \A i \in ClientIds : \E c \in Clients : id'[c] = i
      BY <1>2, <2>4, Counting, HandleInitInv
    <3>3. \A c \in Clients : left'[c] = Rounds
      BY <2>1, <2>2, Zenon DEF RoleInv
    <3>4. \A x \in Clients \X (1..Rounds) : x[2] <= left'[x[1]]
      BY <3>3, RoundsAssumption
    <3>5. \A parity : ToDo(parity)' = {x \in Clients \X (1..Rounds) : id'[x[1]] % 2 = parity}
      BY <3>4, Zenon DEF ToDo
    <3>6. Cardinality(ToDo(0)') = Cardinality(ToDo(1)')
      BY <2>4, <3>1, <3>2, <3>5, Pairing
    <3>7. ToDo(1)' \in SUBSET (Clients \X (1..Rounds))
      BY <3>5, Zenon
    <3>8. Cardinality(ToDo(1)') \in Nat
      BY <3>7, CountSets, FS_Subset, FS_CardinalityType
    <3>9. QED
      BY <3>6, <3>8
  <2>5. QED
    BY <2>3, <2>4, Zenon DEF BalanceInv
<1>3. ASSUME NEW t \in Threads, ProducerPut(t) \/ ConsumerTake(t)
      PROVE  BalanceInv'
  <2>1. /\ pc[t] \in InLoop
        /\ \E prim : Finish(t, prim)
        /\ \/ pc[t] = "p_loop" /\ buffer' = buffer + 1
           \/ pc[t] = "c_loop" /\ buffer' = buffer - 1
    BY <1>3, Zenon DEF ProducerPut, ConsumerTake, At, InLoop
  <2>2. client_new = client_num /\ client_new' = client_new
    BY <2>1, InvSplit, ReplyFacts DEF Finish
  <2>3. client_num \in Nat /\ buffer \in Nat
    BY NumFacts, InvSplit, LimitAssumption DEF RestType
  <2>4. /\ pc[t] = "p_loop" =>
             /\ ToDo(0)' = ToDo(0)
             /\ Cardinality(ToDo(1)') = Cardinality(ToDo(1)) - 1
        /\ pc[t] = "c_loop" =>
             /\ ToDo(1)' = ToDo(1)
             /\ Cardinality(ToDo(0)') = Cardinality(ToDo(0)) - 1
    BY <2>1, FinishToDo, Zenon
  <2>5. Cardinality(ToDo(0)) \in Nat /\ Cardinality(ToDo(1)) \in Nat
    BY ToDoFinite, Zenon
  <2>6. QED
    BY <2>1, <2>2, <2>3, <2>4, <2>5 DEF BalanceInv
<1>4. CASE UNCHANGED vars \/ Terminated \/ MainEnd \/ MainContinued
            \/ \E c \in Clients : Call(c)
  BY <1>1, <1>4, Zenon
     DEF vars, serverVars, clientVars, Terminated, MainEnd, MainContinued, Call
<1>5. ASSUME NEW t \in Threads, ServerStep(t)
      PROVE  BalanceInv'
  <2>1. CASE ~ HandleInit(t) /\ ~ ProducerPut(t) /\ ~ ConsumerTake(t)
    <3>1. UNCHANGED <<client_new, buffer, id, left>>
      BY <1>5, <2>1, Zenon
         DEF ServerStep, Producer, Consumer, Recv, HandleTmnt, clientVars,
             ProducerSave, ConsumerSave, SaveRequest, ProducerAcquire,
             ConsumerAcquire, Acquire, ProducerSleep, ConsumerSleep, SleepOn
    <3>2. QED
      BY <1>1, <3>1, Zenon
  <2>2. QED
    BY <1>2, <1>3, <2>1, Zenon
<1>6. QED
  BY <1>4, <1>5, Zenon DEF Next, Server

-----------------------------------------------------------------------------
(* The end of the test: nobody is left behind. *)

Answering == {"p_lock", "p_loop", "c_lock", "c_loop"}

\* When every thread has left or is in a handler, every client has left or
\* is the client of one of those handlers: there are as many of each.
LEMMA EverybodyFound ==
    ASSUME IInv, LeaveInv, \A t \in Threads \ Leaving : pc[t] \in Answering
    PROVE  \A c \in Clients :
             c \in Left \/ \E t \in Threads \ Leaving : caps[slot[t]] = c
<1> DEFINE busy == Threads \ Leaving
           f == [t \in busy |-> caps[slot[t]]]
           served == {f[t] : t \in busy}
<1>1. \A t \in busy : /\ slot[t] \in Slots
                      /\ caps[slot[t]] \in Clients
                      /\ req[caps[slot[t]]] \in {"PRODUCER", "CONSUMER"}
  <2>1. \A t \in busy : t \in Threads /\ pc[t] \in Answering
    BY Zenon
  <2>2. QED
    BY <2>1, InvSplit, WorkFacts DEF Answering, RestType
<1>2. \A t, u \in busy : f[t] = f[u] => t = u
  <2> SUFFICES ASSUME NEW t \in busy, NEW u \in busy, f[t] = f[u]
               PROVE  t = u
    BY Zenon
  <2>1. slot[t] = slot[u]
    BY <1>1, InvSplit, NoClientAssumption DEF CapInv, PlaceInv
  <2>2. QED
    BY <2>1, InvSplit, Zenon DEF CapInv, SlotsInv
<1>3. f \in Bijection(busy, served)
  BY <1>2, Zenon DEF Bijection, Injection, Surjection, IsInjective
<1>4. /\ IsFiniteSet(Leaving) /\ IsFiniteSet(Left)
      /\ Cardinality(Leaving) \in Nat /\ Cardinality(Left) = Cardinality(Leaving)
  <2>1. Leaving \in SUBSET Threads /\ Left \in SUBSET Clients
    BY Zenon DEF Leaving, Left
  <2>2. IsFiniteSet(Leaving) /\ IsFiniteSet(Left)
    BY <2>1, CountSets, FS_Subset
  <2>3. QED
    BY <2>2, FS_CardinalityType, Zenon DEF LeaveInv
<1>5. IsFiniteSet(busy) /\ Cardinality(busy) = client_num - Cardinality(Leaving)
  <2>1. Threads \cap Leaving = Leaving
    BY Zenon DEF Leaving
  <2>2. /\ IsFiniteSet(Threads \ Leaving)
        /\ Cardinality(Threads \ Leaving) =
             Cardinality(Threads) - Cardinality(Threads \cap Leaving)
    BY CountSets, FS_Difference, Zenon
  <2>3. QED
    BY <2>1, <2>2, CountSets, Zenon
<1>6. IsFiniteSet(served) /\ Cardinality(served) = client_num - Cardinality(Leaving)
  <2>1. ExistsBijection(busy, served)
    BY <1>3, Zenon DEF ExistsBijection
  <2> HIDE DEF busy, served
  <2>2. QED
    BY <1>5, <2>1, FS_Bijection
<1>7. served \cap Left = {} /\ served \cup Left \in SUBSET Clients
  BY <1>1, Zenon DEF Left
<1>8. served \cup Left = Clients
  <2> HIDE DEF served
  <2>1. Cardinality(served \cup Left) = client_num
    <3>1. Cardinality(served \cup Left) =
             Cardinality(served) + Cardinality(Left) - Cardinality(served \cap Left)
      BY <1>4, <1>6, FS_Union, Zenon
    <3>2. Cardinality(served \cap Left) = 0
      BY <1>7, FS_EmptySet, Zenon
    <3>3. QED
      BY <1>4, <1>6, <3>1, <3>2, NumFacts
  <2>2. QED
    BY <1>7, <2>1, CountSets, FS_Subset
<1>9. QED
  BY <1>8, Zenon

\* It cannot be that only producers are left, or only consumers and nothing
\* to take: the balance of puts and takes would not come out even.
LEMMA OneRoleLeft ==
    ASSUME IInv, EndInv, client_num % 2 = 0, NEW u \in Threads,
           \/ /\ pc[u] \in {"p_lock", "p_loop"}
              /\ \A t \in Threads : pc[t] \in {"TMNT", "gone", "p_lock", "p_loop"}
           \/ /\ pc[u] \in {"c_lock", "c_loop"}
              /\ \A t \in Threads : pc[t] \in {"TMNT", "gone", "c_lock", "c_loop"}
              /\ buffer = 0
    PROVE  FALSE
<1> DEFINE d == caps[slot[u]]
<1>1. \A t \in Threads \ Leaving : pc[t] \in Answering
  BY Zenon DEF Leaving, Answering
<1>2. \A c \in Clients : c \in Left \/ \E t \in Threads \ Leaving : caps[slot[t]] = c
  BY <1>1, EverybodyFound, Zenon DEF EndInv
<1>3. /\ d \in Clients
      /\ pc[u] \in {"p_lock", "p_loop"} => req[d] = "PRODUCER"
      /\ pc[u] \in {"c_lock", "c_loop"} => req[d] = "CONSUMER"
  BY InvSplit, WorkFacts, Zenon
<1>4. req[d] \in {"PRODUCER", "CONSUMER"}
  BY <1>3, Zenon
<1>5. client_new = client_num
  BY <1>3, <1>4, InvSplit, StartedFacts
<1>6. left[d] \in 1..Rounds
  BY <1>3, <1>4, InvSplit, RoundsAssumption DEF RestType, CapInv, ClientInv
<1>7. \A c \in Left : left[c] = 0
  BY Zenon DEF Left, EndInv, RoleInv
<1>8. \A c \in Clients : left[c] \in 0..Rounds
  BY InvSplit, Zenon DEF RestType
<1>9. /\ Cardinality(ToDo(0)) = buffer + Cardinality(ToDo(1))
      /\ Cardinality(ToDo(0)) \in Nat /\ Cardinality(ToDo(1)) \in Nat
      /\ buffer \in Nat
  BY <1>5, ToDoFinite, InvSplit, LimitAssumption DEF EndInv, BalanceInv, RestType
<1> HIDE DEF d
<1>10. ASSUME NEW parity, id[d] % 2 = parity
       PROVE  Cardinality(ToDo(parity)) # 0
  <2>1. <<d, 1>> \in ToDo(parity)
    BY <1>3, <1>6, <1>10, RoundsAssumption DEF ToDo
  <2>2. QED
    BY <2>1, ToDoFinite, FS_EmptySet, Zenon
<1>11. ASSUME NEW parity, \A c \in Clients : id[c] % 2 = parity => left[c] = 0
       PROVE  Cardinality(ToDo(parity)) = 0
  <2>1. \A x \in Clients \X (1..Rounds) : x[1] \in Clients /\ x[2] \in 1..Rounds
    BY Zenon
  <2>2. \A x \in Clients \X (1..Rounds) :
           id[x[1]] % 2 = parity => ~ (x[2] <= left[x[1]])
    BY <1>11, <2>1, RoundsAssumption
  <2>3. ToDo(parity) = {}
    BY <2>2, Zenon DEF ToDo
  <2>4. QED
    BY <2>3, FS_EmptySet, Zenon
<1>12. CASE /\ pc[u] \in {"p_lock", "p_loop"}
            /\ \A t \in Threads : pc[t] \in {"TMNT", "gone", "p_lock", "p_loop"}
  <2>1. \A t \in Threads \ Leaving :
           caps[slot[t]] \in Clients /\ req[caps[slot[t]]] = "PRODUCER"
    BY <1>12, InvSplit, WorkFacts DEF Leaving
  <2>2. \A c \in Clients : c \in Left \/ req[c] = "PRODUCER"
    BY <1>2, <2>1
  <2>3. \A c \in Clients : req[c] = "PRODUCER" => id[c] % 2 = 1
    BY Zenon DEF EndInv, RoleInv
  <2>4. \A c \in Clients : id[c] % 2 = 0 => left[c] = 0
    BY <1>7, <2>2, <2>3
  <2>5. id[d] % 2 = 1
    BY <1>3, <1>12, <2>3
  <2>6. QED
    BY <1>9, <1>10, <1>11, <2>4, <2>5
<1>13. CASE /\ pc[u] \in {"c_lock", "c_loop"}
            /\ \A t \in Threads : pc[t] \in {"TMNT", "gone", "c_lock", "c_loop"}
            /\ buffer = 0
  <2>1. \A t \in Threads \ Leaving :
           caps[slot[t]] \in Clients /\ req[caps[slot[t]]] = "CONSUMER"
    BY <1>13, InvSplit, WorkFacts DEF Leaving
  <2>2. \A c \in Clients : c \in Left \/ req[c] = "CONSUMER"
    BY <1>2, <2>1
  <2>3. \A c \in Clients : req[c] = "CONSUMER" => id[c] % 2 = 0
    BY Zenon DEF EndInv, RoleInv
  <2>4. \A c \in Clients : id[c] % 2 = 1 => left[c] = 0
    BY <1>7, <2>2, <2>3
  <2>5. id[d] % 2 = 0
    BY <1>3, <1>13, <2>3
  <2>6. QED
    BY <1>9, <1>10, <1>11, <1>13, <2>4, <2>5
<1>14. QED
  BY <1>12, <1>13, Zenon

\* With nobody ready, the threads other than the running one have left or
\* sleep; and a list of sleepers says what is in the buffer, when no thread
\* of that role runs.
LEMMA NobodyReady ==
    ASSUME IInv, EndInv, NEW t \in Threads, pool.running = t, pool.ready = <<>>
    PROVE  /\ \A u \in Threads \ {t} :
                \/ pc[u] = "gone"
                \/ pc[u] = "p_lock" /\ pool.wait["producer_list"] # <<>>
                \/ pc[u] = "c_lock" /\ pool.wait["consumer_list"] # <<>>
           /\ pool.wait["producer_list"] # <<>> /\ pc[t] \notin PRequest =>
                buffer = buffer_limit
           /\ pool.wait["consumer_list"] # <<>> /\ pc[t] \notin CRequest =>
                buffer = 0
           /\ \A u \in Range(pool.wait["producer_list"]) : u \in Threads /\ pc[u] = "p_lock"
           /\ \A u \in Range(pool.wait["consumer_list"]) : u \in Threads /\ pc[u] = "c_lock"
<1>1. /\ main # "boot"
      /\ pool.wait["lock_global"] = <<>>
      /\ Prims = {"lock_global", "producer_list", "consumer_list"}
      /\ \A p \in Prims : pool.wait[p] \in Seq(Threads)
      /\ \A p \in Prims : \A u \in Range(pool.wait[p]) : u \in Threads
      /\ \A u \in Range(pool.wait["producer_list"]) : pc[u] = "p_lock"
      /\ \A u \in Range(pool.wait["consumer_list"]) : pc[u] = "c_lock"
      /\ buffer \in Nat /\ buffer_limit \in Nat /\ buffer <= buffer_limit
  BY InvSplit, RunningFacts, ListFacts, PoolFacts DEF IInv
<1>2. /\ Range(pool.ready) = {} /\ Range(pool.wait["lock_global"]) = {}
      /\ \A p \in Prims : pool.wait[p] = <<>> => Range(pool.wait[p]) = {}
  BY <1>1, EmptyFacts, Zenon
<1>3. ASSUME NEW u \in Threads \ {t}
      PROVE  \/ pc[u] = "gone"
             \/ pc[u] = "p_lock" /\ u \in Range(pool.wait["producer_list"])
             \/ pc[u] = "c_lock" /\ u \in Range(pool.wait["consumer_list"])
  <2>1. pc[u] = "gone" \/ u \in Alive(pool)
    BY <1>1, Zenon DEF EndInv, AliveInv
  <2>2. u \in Alive(pool) => \E p \in Prims : u \in Range(pool.wait[p])
    BY <1>2, Zenon DEF Alive
  <2>3. (\E p \in Prims : u \in Range(pool.wait[p])) =>
           \/ u \in Range(pool.wait["producer_list"])
           \/ u \in Range(pool.wait["consumer_list"])
    BY <1>1, <1>2, Zenon
  <2>4. QED
    BY <1>1, <2>1, <2>2, <2>3
<1>4. ASSUME pool.wait["producer_list"] # <<>>, pc[t] \notin PRequest
      PROVE  buffer = buffer_limit
  <2>1. Awake(PRequest, "producer_list") = {}
    BY <1>3, <1>4, Zenon DEF Awake, PRequest
  <2>2. Cardinality(Awake(PRequest, "producer_list")) >= buffer_limit - buffer
    BY <1>4, InvSplit, Zenon DEF SchedInv, NoLostWakeup
  <2>3. Cardinality(Awake(PRequest, "producer_list")) = 0
    BY <2>1, FS_EmptySet, Zenon
  <2>4. QED
    BY <1>1, <2>2, <2>3
<1>5. ASSUME pool.wait["consumer_list"] # <<>>, pc[t] \notin CRequest
      PROVE  buffer = 0
  <2>1. Awake(CRequest, "consumer_list") = {}
    BY <1>3, <1>5, Zenon DEF Awake, CRequest
  <2>2. Cardinality(Awake(CRequest, "consumer_list")) >= buffer
    BY <1>5, InvSplit, Zenon DEF SchedInv, NoLostWakeup
  <2>3. Cardinality(Awake(CRequest, "consumer_list")) = 0
    BY <2>1, FS_EmptySet, Zenon
  <2>4. QED
    BY <1>1, <2>2, <2>3
<1>6. \A p \in Prims : Range(pool.wait[p]) # {} => pool.wait[p] # <<>>
  BY <1>2, Zenon
<1>7. \A u \in Threads \ {t} :
         \/ pc[u] = "gone"
         \/ pc[u] = "p_lock" /\ pool.wait["producer_list"] # <<>>
         \/ pc[u] = "c_lock" /\ pool.wait["consumer_list"] # <<>>
  BY <1>1, <1>3, <1>6, Zenon
<1>8. QED
  BY <1>1, <1>4, <1>5, <1>7

\* A thread that receives TMNT while nobody is ready is the last one.
LEMMA LastOne ==
    ASSUME IInv, EndInv, client_num % 2 = 0, NEW t \in Threads,
           pool.running = t, pool.ready = <<>>, pc[t] = "TMNT"
    PROVE  /\ \A u \in Threads \ {t} : pc[u] = "gone"
           /\ \A p \in Prims : pool.wait[p] = <<>>
           /\ \A c \in Clients : req[c] = "TMNT" /\ left[c] = 0
<1>1. /\ \A u \in Threads \ {t} :
           \/ pc[u] = "gone"
           \/ pc[u] = "p_lock" /\ pool.wait["producer_list"] # <<>>
           \/ pc[u] = "c_lock" /\ pool.wait["consumer_list"] # <<>>
      /\ pool.wait["producer_list"] # <<>> => buffer = buffer_limit
      /\ pool.wait["consumer_list"] # <<>> => buffer = 0
      /\ \A u \in Range(pool.wait["producer_list"]) : u \in Threads /\ pc[u] = "p_lock"
      /\ \A u \in Range(pool.wait["consumer_list"]) : u \in Threads /\ pc[u] = "c_lock"
  BY NobodyReady, Zenon DEF PRequest, CRequest
<1>2. /\ Prims = {"lock_global", "producer_list", "consumer_list"}
      /\ pool.wait["lock_global"] = <<>>
      /\ \A p \in Prims : pool.wait[p] # <<>> => \E u : u \in Range(pool.wait[p])
  <2>1. /\ \A p \in Prims : pool.wait[p] \in Seq(Threads)
        /\ Prims = {"lock_global", "producer_list", "consumer_list"}
    BY InvSplit, ListFacts, Zenon DEF IInv
  <2>2. \A p \in Prims : pool.wait[p] # <<>> => Range(pool.wait[p]) # {}
    BY <2>1, EmptyFacts, Zenon
  <2>3. QED
    BY <2>1, <2>2, PoolFacts, Zenon
<1>3. pool.wait["producer_list"] = <<>>
  <2> SUFFICES ASSUME pool.wait["producer_list"] # <<>> PROVE FALSE
    BY Zenon
  <2>1. pool.wait["consumer_list"] = <<>>
    BY <1>1, LimitAssumption, Zenon
  <2>2. PICK u \in Threads : pc[u] = "p_lock"
    BY <1>1, <1>2, Zenon
  <2>3. \A v \in Threads : pc[v] \in {"TMNT", "gone", "p_lock", "p_loop"}
    BY <1>1, <2>1, Zenon
  <2>4. QED
    BY <2>2, <2>3, OneRoleLeft
<1>4. pool.wait["consumer_list"] = <<>>
  <2> SUFFICES ASSUME pool.wait["consumer_list"] # <<>> PROVE FALSE
    BY Zenon
  <2>1. PICK u \in Threads : pc[u] = "c_lock"
    BY <1>1, <1>2, Zenon
  <2>2. \A v \in Threads : pc[v] \in {"TMNT", "gone", "c_lock", "c_loop"}
    BY <1>1, <1>3
  <2>3. buffer = 0
    BY <1>1, Zenon
  <2>4. QED
    BY <2>1, <2>2, <2>3, OneRoleLeft
<1>5. \A u \in Threads \ {t} : pc[u] = "gone"
  BY <1>1, <1>3, <1>4
<1>6. Threads \ Leaving = {}
  BY <1>5, Zenon DEF Leaving
<1>7. \A c \in Clients : c \in Left
  BY <1>6, EverybodyFound, Zenon DEF EndInv
<1>8. QED
  BY <1>2, <1>3, <1>4, <1>5, <1>7 DEF Left, EndInv, RoleInv

LEMMA EndNext == IInv /\ EndInv /\ [Next]_vars => EndInv'
  BY AliveNext, LeaveNext, Counting, RoleNext, BalanceNext, Zenon DEF EndInv

\* The main thread gets the processor from the last TMNT only.
LEMMA EndServedNext ==
    ASSUME client_num % 2 = 0
    PROVE  IInv /\ EndInv /\ EndMeansServed /\ [Next]_vars => EndMeansServed'
<1> SUFFICES ASSUME IInv, EndInv, EndMeansServed, [Next]_vars
             PROVE  EndMeansServed'
  BY Zenon
<1>1. MainThread \notin Threads
  BY NumFacts DEF MainThread, Threads
<1>2. CASE UNCHANGED vars \/ Terminated \/ MainEnd
  <2>1. UNCHANGED <<pool, pc, req, left>> /\ (main = "boot" => main' = "boot")
    BY <1>2, Zenon DEF vars, serverVars, clientVars, Terminated, MainEnd
  <2>2. QED
    BY <2>1, Zenon DEF EndMeansServed
<1>3. ASSUME NEW c \in Clients, Call(c)
      PROVE  EndMeansServed'
  <2>1. UNCHANGED <<pool, main>> /\ req[c] # "TMNT"
    BY <1>3, Zenon DEF Call, serverVars
  <2>2. QED
    BY <2>1, Zenon DEF EndMeansServed
<1>4. CASE MainContinued
  <2>1. pool'.running \in Threads
    <3>1. pool' = MainResume(ThreadCreation(client_num), client_num)
      BY <1>4, Zenon DEF MainContinued
    <3>2. pool'.running = client_num
      BY <3>1, Zenon DEF MainResume, ThreadCreation, ThreadInitial
    <3>3. QED
      BY <3>2, NumFacts DEF Threads
  <2>2. QED
    BY <1>1, <2>1, Zenon DEF EndMeansServed
<1>5. ASSUME NEW t \in Threads, ServerStep(t)
      PROVE  EndMeansServed'
  <2>1. CASE ~ HandleTmnt(t)
    BY <1>1, <1>5, <2>1, StillRunning DEF EndMeansServed
  <2>2. CASE HandleTmnt(t)
    <3>1. /\ pool.running = t /\ pc[t] = "TMNT"
          /\ pool' = ThreadExit(pool)
          /\ pc' = [pc EXCEPT ![t] = "gone"]
          /\ UNCHANGED <<req, left>>
      BY <2>2, Zenon DEF HandleTmnt, At, clientVars
    <3>2. /\ pool'.wait = pool.wait
          /\ pool.ready = <<>> => pool'.ready = <<>>
          /\ pool.ready # <<>> => pool'.running \in Threads
      BY <3>1, PoolFacts, ExitFacts
    <3>3. CASE pool.ready # <<>>
      BY <1>1, <3>2, <3>3 DEF EndMeansServed
    <3>4. CASE pool.ready = <<>>
      <4>1. /\ \A u \in Threads \ {t} : pc[u] = "gone"
            /\ \A p \in Prims : pool.wait[p] = <<>>
            /\ \A c \in Clients : req[c] = "TMNT" /\ left[c] = 0
        BY <3>1, <3>4, LastOne, Zenon
      <4>2. \A u \in Threads : pc'[u] = "gone"
        BY <3>1, <4>1, InvSplit, Zenon DEF RestType
      <4>3. QED
        BY <3>1, <3>2, <3>4, <4>1, <4>2 DEF EndMeansServed
    <3>5. QED
      BY <3>3, <3>4
  <2>3. QED
    BY <2>1, <2>2
<1>6. QED
  BY <1>2, <1>3, <1>4, <1>5 DEF Next, Server

\* With as many producers as consumers the main thread reports the end of
\* the test only when every client is in its TMNT call with no request left,
\* and every green thread has exited: whatever order the clients call in, no
\* sleeper is left behind.
THEOREM EndServed ==
    ASSUME client_num % 2 = 0
    PROVE  Spec => []EndMeansServed
<1>1. Init => EndMeansServed
  BY Zenon DEF Init, EndMeansServed
<1>2. IInv /\ EndInv /\ EndMeansServed /\ [Next]_vars => EndMeansServed'
  BY EndServedNext, Zenon
<1>3. QED
  BY Invariant, InitEnd, EndNext, <1>1, <1>2, PTL DEF Spec

\* With as many producers as consumers thread_sleep never returns at once,
\* so the while loops of PRODUCER and CONSUMER do not spin: a thread about to
\* sleep finds another one ready.
THEOREM SleepsYield ==
    ASSUME client_num % 2 = 0
    PROVE  Spec => []NeverSpins
<1>1. IInv /\ EndInv => NeverSpins
  <2> SUFFICES ASSUME IInv, EndInv, NEW t \in Threads, pool.running = t,
                      pool.ready = <<>>,
                      \/ pc[t] = "p_loop" /\ buffer = buffer_limit
                      \/ pc[t] = "c_loop" /\ buffer = 0
               PROVE  FALSE
    BY Zenon DEF NeverSpins, At
  <2>1. /\ \A u \in Threads \ {t} :
             \/ pc[u] = "gone"
             \/ pc[u] = "p_lock" /\ pool.wait["producer_list"] # <<>>
             \/ pc[u] = "c_lock" /\ pool.wait["consumer_list"] # <<>>
        /\ pool.wait["producer_list"] # <<>> /\ pc[t] = "c_loop" => buffer = buffer_limit
        /\ pool.wait["consumer_list"] # <<>> /\ pc[t] = "p_loop" => buffer = 0
    BY NobodyReady, Zenon DEF PRequest, CRequest
  <2>2. CASE pc[t] = "p_loop" /\ buffer = buffer_limit
    <3>1. \A u \in Threads : pc[u] \in {"TMNT", "gone", "p_lock", "p_loop"}
      BY <2>1, <2>2, LimitAssumption
    <3>2. QED
      BY <2>2, <3>1, OneRoleLeft, Zenon
  <2>3. CASE pc[t] = "c_loop" /\ buffer = 0
    <3>1. \A u \in Threads : pc[u] \in {"TMNT", "gone", "c_lock", "c_loop"}
      BY <2>1, <2>3, LimitAssumption, Zenon
    <3>2. QED
      BY <2>3, <3>1, OneRoleLeft
  <2>4. QED
    BY <2>2, <2>3, Zenon
<1>2. QED
  BY Invariant, InitEnd, EndNext, <1>1, PTL DEF Spec
=============================================================================
