-------------------------- MODULE GreenServerSteps --------------------------
(***************************************************************************)
(* One lemma per kind of step of the green-thread server.  First the half  *)
(* of the inductive invariant that is about the thread pool (the queues,   *)
(* the lock and the count of awake threads): what the calls of the thread  *)
(* library do to the queues of any pool, then the steps of the server.     *)
(* Then the half that is about messages and reply capabilities, and what   *)
(* the other invariants need.                                              *)
(***************************************************************************)
EXTENDS GreenServerInv, QueueLemmas

\* There is at least one client, so at least one thread.
LEMMA NumFacts == client_num \in Nat \ {0}
  BY ClientsAssumption, Zenon

-----------------------------------------------------------------------------
(* The calls of the library, on a pool whose running thread is not main. *)

\* thread_wakeup keeps the pool well formed, leaves the other queues, the
\* running thread and the locks alone, and takes the first sleeper off prim.
LEMMA WakeupFacts ==
    ASSUME NEW p \in PoolType, NEW prim \in Prims, QueuesInv(p)
    PROVE  LET q == ThreadWakeup(p, prim)
           IN  /\ q \in PoolType
               /\ QueuesInv(q)
               /\ q.running = p.running
               /\ q.held = p.held
               /\ q.helder = p.helder
               /\ \A r \in Prims \ {prim} : q.wait[r] = p.wait[r]
               /\ p.wait[prim] = <<>> => q = p
               /\ p.wait[prim] # <<>> =>
                    \E t \in Range(p.wait[prim]) :
                       Range(q.wait[prim]) = Range(p.wait[prim]) \ {t}
               /\ Alive(q) = Alive(p)
<1> DEFINE w == p.wait[prim]
           q == ThreadWakeup(p, prim)
<1>1. w \in Seq(Threads) /\ p.ready \in Seq(Threads)
  BY Zenon DEF PoolType
<1>2. CASE w = <<>>
  BY <1>2, Zenon DEF ThreadWakeup
<1>3. CASE w # <<>>
  <2>1. q = [p EXCEPT !.ready = Append(p.ready, Head(w)),
                      !.wait = [p.wait EXCEPT ![prim] = Tail(w)]]
    BY <1>3, Zenon DEF ThreadWakeup
  <2>2. /\ Head(w) \in Threads
        /\ Tail(w) \in Seq(Threads)
        /\ Range(w) = Range(Tail(w)) \cup {Head(w)}
        /\ IsInjective(Tail(w))
        /\ Head(w) \notin Range(Tail(w))
    BY <1>1, <1>3, TailFacts, Zenon DEF QueuesInv
  <2>3. /\ Append(p.ready, Head(w)) \in Seq(Threads)
        /\ Range(Append(p.ready, Head(w))) = Range(p.ready) \cup {Head(w)}
        /\ IsInjective(Append(p.ready, Head(w)))
    BY <1>1, <2>2, AppendFacts DEF QueuesInv
  <2>4. /\ q.ready = Append(p.ready, Head(w))
        /\ q.wait = [p.wait EXCEPT ![prim] = Tail(w)]
        /\ q.running = p.running
        /\ q.held = p.held
        /\ q.helder = p.helder
        /\ q \in PoolType
    <3>1. p.wait \in [Prims -> Seq(Threads)]
      BY Zenon DEF PoolType
    <3> HIDE DEF q, w
    <3> QED
      BY <2>1, <2>2, <2>3, <3>1, Zenon DEF PoolType
  <2>5. /\ q.wait[prim] = Tail(w)
        /\ \A r \in Prims \ {prim} : q.wait[r] = p.wait[r]
    BY <2>4, Zenon DEF PoolType
  <2>6. QueuesInv(q)
    <3> HIDE DEF q
    <3>1. IsInjective(q.ready) /\ q.running \notin Range(q.ready)
      BY <2>2, <2>3, <2>4, Zenon DEF QueuesInv
    <3>2. ASSUME NEW r \in Prims
          PROVE  /\ IsInjective(q.wait[r])
                 /\ q.running \notin Range(q.wait[r])
                 /\ Range(q.ready) \cap Range(q.wait[r]) = {}
      <4>1. CASE r = prim
        BY <4>1, <2>2, <2>3, <2>4, <2>5 DEF QueuesInv
      <4>2. CASE r # prim
        <5>1. q.wait[r] = p.wait[r]
          BY <4>2, <2>5, Zenon
        <5>2. /\ IsInjective(p.wait[r])
              /\ p.running \notin Range(p.wait[r])
              /\ Range(p.ready) \cap Range(p.wait[r]) = {}
              /\ Range(w) \cap Range(p.wait[r]) = {}
          BY <4>2, Zenon DEF QueuesInv
        <5>3. QED
          BY <5>1, <5>2, <2>2, <2>3, <2>4, Zenon
      <4>3. QED
        BY <4>1, <4>2, Zenon
    <3>3. ASSUME NEW r \in Prims, NEW u \in Prims \ {r}
          PROVE  Range(q.wait[r]) \cap Range(q.wait[u]) = {}
      <4>1. /\ Range(p.wait[r]) \cap Range(p.wait[u]) = {}
            /\ p.running \notin Range(p.wait[r])
            /\ p.running \notin Range(p.wait[u])
        BY Zenon DEF QueuesInv
      <4>2. CASE r = prim
        BY <4>1, <4>2, <2>2, <2>3, <2>5, Zenon
      <4>3. CASE u = prim
        BY <4>1, <4>3, <2>2, <2>3, <2>5, Zenon
      <4>4. CASE r # prim /\ u # prim
        BY <4>1, <4>4, <2>5, Zenon
      <4>5. QED
        BY <4>2, <4>3, <4>4, Zenon
    <3>4. QED
      BY <3>1, <3>2, <3>3, Zenon DEF QueuesInv
  <2>7. Range(q.wait[prim]) = Range(w) \ {Head(w)} /\ Head(w) \in Range(w)
    BY <2>2, <2>5, Zenon
  <2>8. Alive(q) = Alive(p)
    <3> HIDE DEF q, w
    <3>1. /\ q.running = p.running
          /\ Range(q.ready) = Range(p.ready) \cup {Head(w)}
          /\ Range(q.wait[prim]) \cup {Head(w)} = Range(p.wait[prim])
          /\ \A r \in Prims \ {prim} : q.wait[r] = p.wait[r]
      BY <2>2, <2>3, <2>4, <2>5, Zenon DEF w
    <3>2. \A x : x \in Alive(q) <=> x \in Alive(p)
      BY <3>1, Zenon DEF Alive
    <3>3. QED
      BY <3>2, Zenon
  <2>9. QED
    BY <1>3, <2>4, <2>5, <2>6, <2>7, <2>8, Zenon
<1>4. QED
  BY <1>2, <1>3, Zenon

\* thread_sleep keeps the pool well formed and leaves the other queues of
\* sleepers and the locks alone; the caller joins the sleepers of prim, or
\* nothing happens.
LEMMA SleepFacts ==
    ASSUME NEW p \in PoolType, NEW prim \in Prims, QueuesInv(p),
           p.running \in Threads
    PROVE  LET q == ThreadSleep(p, prim)
           IN  /\ q \in PoolType
               /\ QueuesInv(q)
               /\ q.running \in Threads
               /\ q.held = p.held
               /\ q.helder = p.helder
               /\ \A r \in Prims \ {prim} : q.wait[r] = p.wait[r]
               /\ \/ q = p
                  \/ Range(q.wait[prim]) = Range(p.wait[prim]) \cup {p.running}
               /\ Alive(q) = Alive(p)
<1> DEFINE w == p.wait[prim]
           q == ThreadSleep(p, prim)
<1>1. w \in Seq(Threads) /\ p.ready \in Seq(Threads)
  BY Zenon DEF PoolType
<1>2. CASE p.ready = <<>>
  BY <1>2, Zenon DEF ThreadSleep
<1>3. CASE p.ready # <<>>
  <2>1. q = [p EXCEPT !.running = Head(p.ready),
                      !.ready = Tail(p.ready),
                      !.wait = [p.wait EXCEPT ![prim] = Append(w, p.running)]]
    BY <1>3, Zenon DEF ThreadSleep
  <2>2. /\ Head(p.ready) \in Threads
        /\ Tail(p.ready) \in Seq(Threads)
        /\ Range(p.ready) = Range(Tail(p.ready)) \cup {Head(p.ready)}
        /\ IsInjective(Tail(p.ready))
        /\ Head(p.ready) \notin Range(Tail(p.ready))
    BY <1>1, <1>3, TailFacts, Zenon DEF QueuesInv
  <2>3. /\ Append(w, p.running) \in Seq(Threads)
        /\ Range(Append(w, p.running)) = Range(w) \cup {p.running}
        /\ IsInjective(Append(w, p.running))
    BY <1>1, AppendFacts DEF QueuesInv
  <2>4. /\ q.ready = Tail(p.ready)
        /\ q.wait = [p.wait EXCEPT ![prim] = Append(w, p.running)]
        /\ q.running = Head(p.ready)
        /\ q.held = p.held
        /\ q.helder = p.helder
        /\ q \in PoolType
    <3>1. p.wait \in [Prims -> Seq(Threads)]
      BY Zenon DEF PoolType
    <3> HIDE DEF q, w
    <3> QED
      BY <2>1, <2>2, <2>3, <3>1, Zenon DEF PoolType
  <2>5. /\ q.wait[prim] = Append(w, p.running)
        /\ \A r \in Prims \ {prim} : q.wait[r] = p.wait[r]
    BY <2>4, Zenon DEF PoolType
  <2>6. QueuesInv(q)
    <3> HIDE DEF q
    <3>1. IsInjective(q.ready) /\ q.running \notin Range(q.ready)
      BY <2>2, <2>3, <2>4, Zenon DEF QueuesInv
    <3>2. ASSUME NEW r \in Prims
          PROVE  /\ IsInjective(q.wait[r])
                 /\ q.running \notin Range(q.wait[r])
                 /\ Range(q.ready) \cap Range(q.wait[r]) = {}
      <4>1. CASE r = prim
        BY <4>1, <2>2, <2>3, <2>4, <2>5 DEF QueuesInv
      <4>2. CASE r # prim
        <5>1. q.wait[r] = p.wait[r]
          BY <4>2, <2>5, Zenon
        <5>2. /\ IsInjective(p.wait[r])
              /\ p.running \notin Range(p.wait[r])
              /\ Range(p.ready) \cap Range(p.wait[r]) = {}
              /\ Range(w) \cap Range(p.wait[r]) = {}
          BY <4>2, Zenon DEF QueuesInv
        <5>3. QED
          BY <5>1, <5>2, <2>2, <2>3, <2>4, Zenon
      <4>3. QED
        BY <4>1, <4>2, Zenon
    <3>3. ASSUME NEW r \in Prims, NEW u \in Prims \ {r}
          PROVE  Range(q.wait[r]) \cap Range(q.wait[u]) = {}
      <4>1. /\ Range(p.wait[r]) \cap Range(p.wait[u]) = {}
            /\ p.running \notin Range(p.wait[r])
            /\ p.running \notin Range(p.wait[u])
        BY Zenon DEF QueuesInv
      <4>2. CASE r = prim
        BY <4>1, <4>2, <2>2, <2>3, <2>5, Zenon
      <4>3. CASE u = prim
        BY <4>1, <4>3, <2>2, <2>3, <2>5, Zenon
      <4>4. CASE r # prim /\ u # prim
        BY <4>1, <4>4, <2>5, Zenon
      <4>5. QED
        BY <4>2, <4>3, <4>4, Zenon
    <3>4. QED
      BY <3>1, <3>2, <3>3, Zenon DEF QueuesInv
  <2>7. Alive(q) = Alive(p)
    <3> HIDE DEF q, w
    <3>1. /\ q.running = Head(p.ready)
          /\ Range(q.ready) \cup {q.running} = Range(p.ready)
          /\ Range(q.wait[prim]) = Range(p.wait[prim]) \cup {p.running}
          /\ \A r \in Prims \ {prim} : q.wait[r] = p.wait[r]
      BY <2>2, <2>3, <2>4, <2>5, Zenon DEF w
    <3>2. ASSUME NEW x, x \in Alive(p)
          PROVE  x \in Alive(q)
      <4>1. CASE x = p.running \/ x \in Range(p.wait[prim])
        BY <3>1, <4>1, Zenon DEF Alive
      <4>2. CASE x \in Range(p.ready)
        BY <3>1, <4>2, Zenon DEF Alive
      <4>3. CASE \E r \in Prims \ {prim} : x \in Range(p.wait[r])
        BY <3>1, <4>3, Zenon DEF Alive
      <4>4. QED
        BY <3>2, <4>1, <4>2, <4>3, Zenon DEF Alive
    <3>3. ASSUME NEW x, x \in Alive(q)
          PROVE  x \in Alive(p)
      <4>1. CASE x = q.running \/ x \in Range(q.ready)
        BY <3>1, <4>1, Zenon DEF Alive
      <4>2. CASE x \in Range(q.wait[prim])
        BY <3>1, <4>2, Zenon DEF Alive
      <4>3. CASE \E r \in Prims \ {prim} : x \in Range(q.wait[r])
        BY <3>1, <4>3, Zenon DEF Alive
      <4>4. QED
        BY <3>3, <4>1, <4>2, <4>3, Zenon DEF Alive
    <3>4. QED
      BY <3>2, <3>3, Zenon
  <2>8. QED
    BY <2>2, <2>3, <2>4, <2>5, <2>6, <2>7, Zenon
<1>4. QED
  BY <1>2, <1>3, Zenon

\* thread_lock_acquire on a free lock changes only the lock.
LEMMA TakeFacts ==
    ASSUME NEW p \in PoolType, QueuesInv(p)
    PROVE  LET q == LockTake(p, "lock_global")
           IN  /\ q \in PoolType
               /\ QueuesInv(q)
               /\ q.running = p.running
               /\ q.ready = p.ready
               /\ q.wait = p.wait
               /\ q.held["lock_global"]
               /\ q.helder["lock_global"] = p.running
<1> DEFINE q == LockTake(p, "lock_global")
<1>1. q = [p EXCEPT !.held = [p.held EXCEPT !["lock_global"] = TRUE],
                    !.helder = [p.helder EXCEPT !["lock_global"] = p.running]]
  BY Zenon DEF LockTake
<1>2. /\ p.held \in [Prims -> BOOLEAN]
      /\ p.helder \in [Prims -> Threads \cup {MainThread, NoHelder}]
      /\ p.running \in Threads \cup {MainThread}
      /\ "lock_global" \in Prims
  BY Zenon DEF PoolType, Prims
<1> HIDE DEF q
<1>3. /\ q \in PoolType
      /\ q.running = p.running
      /\ q.ready = p.ready
      /\ q.wait = p.wait
      /\ q.held["lock_global"]
      /\ q.helder["lock_global"] = p.running
  BY <1>1, <1>2, Zenon DEF PoolType
<1>4. QueuesInv(q)
  BY <1>3, Zenon DEF QueuesInv
<1>5. QED
  BY <1>3, <1>4, Zenon DEF q

\* thread_lock_release of a lock nobody sleeps on changes only the lock.
LEMMA ReleaseFacts ==
    ASSUME NEW p \in PoolType, QueuesInv(p), p.wait["lock_global"] = <<>>
    PROVE  LET q == LockRelease(p, "lock_global")
           IN  /\ q \in PoolType
               /\ QueuesInv(q)
               /\ q.running = p.running
               /\ q.ready = p.ready
               /\ q.wait = p.wait
               /\ ~ q.held["lock_global"]
<1> DEFINE q == [p EXCEPT !.held["lock_global"] = FALSE,
                          !.helder["lock_global"] = NoHelder]
<1>1. q = [p EXCEPT !.held = [p.held EXCEPT !["lock_global"] = FALSE],
                    !.helder = [p.helder EXCEPT !["lock_global"] = NoHelder]]
  BY Zenon
<1>2. /\ p.held \in [Prims -> BOOLEAN]
      /\ p.helder \in [Prims -> Threads \cup {MainThread, NoHelder}]
      /\ "lock_global" \in Prims
  BY Zenon DEF PoolType, Prims
<1> HIDE DEF q
<1>3. /\ q \in PoolType
      /\ q.running = p.running
      /\ q.ready = p.ready
      /\ q.wait = p.wait
      /\ ~ q.held["lock_global"]
  BY <1>1, <1>2, Zenon DEF PoolType
<1>4. QueuesInv(q)
  BY <1>3, Zenon DEF QueuesInv
<1>5. LockRelease(p, "lock_global") = q
  BY <1>3, Zenon DEF LockRelease, ThreadWakeup, q
<1>6. QED
  BY <1>3, <1>4, <1>5, Zenon

\* thread_exit keeps the pool well formed and touches no queue of sleepers.
LEMMA ExitFacts ==
    ASSUME NEW p \in PoolType, QueuesInv(p)
    PROVE  LET q == ThreadExit(p)
           IN  /\ q \in PoolType
               /\ QueuesInv(q)
               /\ q.wait = p.wait
               /\ q.held = p.held
               /\ q.helder = p.helder
               /\ p.ready = <<>> => q.running = MainThread /\ q.ready = <<>>
               /\ p.ready # <<>> => q.running \in Threads
               /\ \A t \in Threads :
                    t \in Alive(q) <=> t \in Alive(p) /\ t # p.running
<1> DEFINE q == ThreadExit(p)
<1>1. p.ready \in Seq(Threads) /\ p.wait \in [Prims -> Seq(Threads)]
  BY Zenon DEF PoolType
<1>2. CASE p.ready = <<>>
  <2>1. q = [p EXCEPT !.running = MainThread]
    BY <1>2, Zenon DEF ThreadExit
  <2> HIDE DEF q
  <2>2. /\ q \in PoolType
        /\ q.running = MainThread
        /\ q.ready = p.ready
        /\ q.wait = p.wait
        /\ q.held = p.held
        /\ q.helder = p.helder
    BY <2>1, Zenon DEF PoolType
  <2>3. MainThread \notin Threads
    BY NumFacts DEF MainThread, Threads
  <2>4. \A x \in Range(p.ready) : x \in Threads
    BY <1>1 DEF Range
  <2>5. \A r \in Prims : \A x \in Range(p.wait[r]) : x \in Threads
    <3>1. SUFFICES ASSUME NEW r \in Prims
                   PROVE  \A x \in Range(p.wait[r]) : x \in Threads
      BY Zenon
    <3>2. p.wait[r] \in Seq(Threads)
      BY <1>1, Zenon
    <3>3. QED
      BY <3>2 DEF Range
  <2>6. QueuesInv(q)
    BY <2>2, <2>3, <2>4, <2>5, Zenon DEF QueuesInv
  <2>7. \A t \in Threads : t \in Alive(q) <=> t \in Alive(p) /\ t # p.running
    BY <2>2, <2>3, Zenon DEF Alive, QueuesInv
  <2>8. QED
    BY <1>2, <2>2, <2>6, <2>7, Zenon DEF q
<1>3. CASE p.ready # <<>>
  <2>1. q = [p EXCEPT !.running = Head(p.ready), !.ready = Tail(p.ready)]
    BY <1>3, Zenon DEF ThreadExit
  <2>2. /\ Head(p.ready) \in Threads
        /\ Tail(p.ready) \in Seq(Threads)
        /\ Range(p.ready) = Range(Tail(p.ready)) \cup {Head(p.ready)}
        /\ IsInjective(Tail(p.ready))
        /\ Head(p.ready) \notin Range(Tail(p.ready))
    BY <1>1, <1>3, TailFacts, Zenon DEF QueuesInv
  <2> HIDE DEF q
  <2>3. /\ q \in PoolType
        /\ q.running = Head(p.ready)
        /\ q.ready = Tail(p.ready)
        /\ q.wait = p.wait
        /\ q.held = p.held
        /\ q.helder = p.helder
    BY <2>1, <2>2, Zenon DEF PoolType
  <2>4. QueuesInv(q)
    BY <2>2, <2>3, Zenon DEF QueuesInv
  <2>5. \A t \in Threads : t \in Alive(q) <=> t \in Alive(p) /\ t # p.running
    <3>1. /\ Range(q.ready) \cup {q.running} = Range(p.ready)
          /\ p.running \notin Range(p.ready)
          /\ \A r \in Prims : p.running \notin Range(p.wait[r])
      BY <2>2, <2>3, Zenon DEF QueuesInv
    <3>2. QED
      BY <2>3, <3>1, Zenon DEF Alive
  <2>6. QED
    BY <1>3, <2>2, <2>3, <2>4, <2>5, Zenon DEF q
<1>4. QED
  BY <1>2, <1>3, Zenon

\* The pool main_continued starts with: thread client_num runs and the others
\* are ready.
LEMMA BootFacts ==
    LET q == MainResume(ThreadCreation(client_num), client_num)
    IN  /\ q \in PoolType
        /\ QueuesInv(q)
        /\ \A r \in Prims : q.wait[r] = <<>>
        /\ ~ q.held["lock_global"]
        /\ \A t \in Threads : t \in Alive(q)
<1> DEFINE ids == [i \in 1..client_num |-> i]
           rest == [i \in 1..(client_num - 1) |-> i]
           wait == [r \in Prims |-> <<>>]
           held == [r \in Prims |-> FALSE]
           helder == [r \in Prims |-> NoHelder]
           p == ThreadCreation(client_num)
           q == MainResume(p, client_num)
           less == [i \in 1..(Len(p.ready) - 1) |->
                      IF i < client_num THEN p.ready[i] ELSE p.ready[i + 1]]
<1>1. client_num \in Nat \ {0}
  BY NumFacts, Zenon
<1>2. p = [[running |-> MainThread, ready |-> <<>>, wait |-> wait,
            held |-> held, helder |-> helder] EXCEPT !.ready = ids]
  BY Zenon DEF ThreadCreation, ThreadInitial
<1>3. Len(ids) = client_num /\ DOMAIN ids = 1..client_num
  BY <1>1
<1>4. (CHOOSE i \in DOMAIN ids : ids[i] = client_num) = client_num
  BY <1>1, <1>3
<1>5. /\ wait \in [Prims -> Seq(Threads)]
      /\ \A r \in Prims : wait[r] = <<>>
      /\ held \in [Prims -> BOOLEAN]
      /\ ~ held["lock_global"]
      /\ helder \in [Prims -> Threads \cup {MainThread, NoHelder}]
  BY DEF Prims
<1>6. /\ rest \in Seq(Threads)
      /\ IsInjective(rest)
      /\ Range(rest) = 1..(client_num - 1)
      /\ client_num \in Threads
  BY <1>1 DEF Threads, IsInjective, Range
<1>7. Range(<<>>) = {} /\ IsInjective(<<>>)
  BY DEF Range, IsInjective
<1> HIDE DEF wait, held, helder
<1>8. p.ready = ids
  BY <1>2, Zenon
<1>9. less = rest
  BY <1>1, <1>3, <1>8
<1>10. q = [p EXCEPT !.running = client_num, !.ready = less]
  <2>1. q = [p EXCEPT !.running = client_num,
                      !.ready = [i \in 1..(Len(p.ready) - 1) |->
                                   IF i < (CHOOSE j \in DOMAIN p.ready :
                                             p.ready[j] = client_num)
                                   THEN p.ready[i] ELSE p.ready[i + 1]]]
    BY Zenon DEF MainResume
  <2>2. (CHOOSE j \in DOMAIN p.ready : p.ready[j] = client_num) = client_num
    BY <1>4, <1>8, Zenon
  <2>3. QED
    BY <2>1, <2>2, Zenon
<1> HIDE DEF q, p, rest, ids, less
<1>11. q = [running |-> client_num, ready |-> rest, wait |-> wait,
            held |-> held, helder |-> helder]
  BY <1>2, <1>9, <1>10, Zenon
<1>12. q \in PoolType
  BY <1>5, <1>6, <1>11, Zenon DEF PoolType
<1>13. QueuesInv(q)
  BY <1>1, <1>5, <1>6, <1>7, <1>11 DEF QueuesInv
<1>14. \A t \in Threads : t = q.running \/ t \in Range(q.ready)
  BY <1>1, <1>6, <1>11 DEF Threads
<1>15. \A t \in Threads : t \in Alive(q)
  BY <1>14, Zenon DEF Alive
<1>16. QED
  BY <1>5, <1>11, <1>12, <1>13, <1>15 DEF q, p

-----------------------------------------------------------------------------
(* The steps of the server, and the pool. *)

SchedInv == PoolInv /\ BootInv /\ LockNeverContended /\ NoLostWakeup

\* What the proofs use of the sizes of sets: how the size of a set of threads
\* follows that of another, and that as many distinct clients as there are
\* clients are all the clients.  It holds (lemma Counting of GreenServerProofs).
Counted ==
    /\ \A A, B \in SUBSET Threads :
         /\ Cardinality(A) \in Nat
         /\ A \subseteq B => Cardinality(B) >= Cardinality(A)
         /\ \A x \in Threads :
              /\ A \ {x} \subseteq B => Cardinality(B) >= Cardinality(A) - 1
              /\ x \notin A /\ A \cup {x} \subseteq B =>
                   Cardinality(B) >= Cardinality(A) + 1
    /\ \A f \in [ClientIds -> Clients] :
         (\A i, j \in ClientIds : f[i] = f[j] => i = j) =>
           \A c \in Clients : \E i \in ClientIds : f[i] = c

\* How the size of a set of threads follows that of another.
LEMMA CountFacts ==
    ASSUME Counted, NEW A \in SUBSET Threads, NEW B \in SUBSET Threads
    PROVE  /\ Cardinality(A) \in Nat
           /\ A \subseteq B => Cardinality(B) >= Cardinality(A)
           /\ \A x \in Threads :
                /\ A \ {x} \subseteq B => Cardinality(B) >= Cardinality(A) - 1
                /\ x \notin A /\ A \cup {x} \subseteq B =>
                     Cardinality(B) >= Cardinality(A) + 1
  BY Zenon DEF Counted

\* As many distinct clients as there are clients are all the clients.
LEMMA AllClients ==
    ASSUME Counted, NEW f \in [ClientIds -> Clients],
           \A i, j \in ClientIds : f[i] = f[j] => i = j
    PROVE  \A c \in Clients : \E i \in ClientIds : f[i] = c
  BY Zenon DEF Counted

\* What holds of the running thread t, whatever it does next.
LEMMA RunningFacts ==
    ASSUME TypeOK, SchedInv, NEW t \in Threads, pool.running = t
    PROVE  /\ main # "boot"
           /\ pool \in PoolType
           /\ QueuesInv(pool)
           /\ \A p \in Prims : t \notin Range(pool.wait[p])
           /\ pc[t] \notin InLoop =>
                /\ ~ pool.held["lock_global"]
                /\ \A u \in Threads : pc[u] \notin InLoop
           /\ pc[t] \in InLoop => \A u \in Threads \ {t} : pc[u] \notin InLoop
           /\ Awake(PRequest, "producer_list") \in SUBSET Threads
           /\ Awake(CRequest, "consumer_list") \in SUBSET Threads
           /\ Awake(PRequest, "producer_list")' \in SUBSET Threads
           /\ Awake(CRequest, "consumer_list")' \in SUBSET Threads
<1>1. t # MainThread
  BY NumFacts DEF MainThread, Threads
<1>2. main # "boot"
  BY <1>1 DEF SchedInv, BootInv, ThreadInitial
<1>3. pool \in PoolType /\ QueuesInv(pool)
  BY Zenon DEF TypeOK, SchedInv, PoolInv
<1>4. \A p \in Prims : t \notin Range(pool.wait[p])
  BY <1>3, Zenon DEF QueuesInv
<1>5. pc[t] \notin InLoop =>
                /\ ~ pool.held["lock_global"]
                /\ \A u \in Threads : pc[u] \notin InLoop
  BY Zenon DEF SchedInv, LockNeverContended, At, InLoop
<1>6. pc[t] \in InLoop => \A u \in Threads \ {t} : pc[u] \notin InLoop
  BY Zenon DEF SchedInv, LockNeverContended
<1>7. QED
  BY <1>2, <1>3, <1>4, <1>5, <1>6, Zenon DEF Awake

\* A step in which the running thread only moves on, outside the loop and
\* without leaving its request: Recv, INIT and the saving of a request.
LEMMA MoveSched ==
    ASSUME Counted, TypeOK, SchedInv, NEW t \in Threads, NEW next,
           pool.running = t,
           pc[t] \notin InLoop,
           next \notin InLoop,
           pc[t] \in PRequest => next \in PRequest,
           pc[t] \in CRequest => next \in CRequest,
           pc' = [pc EXCEPT ![t] = next],
           UNCHANGED <<pool, buffer, main>>
    PROVE  SchedInv'
<1> USE RunningFacts
<1>1. /\ pc'[t] = next
      /\ \A u \in Threads \ {t} : pc'[u] = pc[u]
  BY Zenon DEF TypeOK
<1>2. /\ \A u \in Range(pool.wait["producer_list"]) : u \in Threads /\ u # t
      /\ \A u \in Range(pool.wait["consumer_list"]) : u \in Threads /\ u # t
  <2>1. /\ "producer_list" \in Prims /\ "consumer_list" \in Prims
        /\ pool.wait["producer_list"] \in Seq(Threads)
        /\ pool.wait["consumer_list"] \in Seq(Threads)
    BY Zenon DEF PoolType, Prims
  <2>2. QED
    BY <2>1 DEF Range
<1>3. PoolInv'
  BY <1>1, <1>2, Zenon DEF SchedInv, PoolInv
<1>4. BootInv'
  BY Zenon DEF BootInv
<1>5. LockNeverContended'
  BY <1>1 DEF SchedInv, LockNeverContended
<1>6. /\ Awake(PRequest, "producer_list") \subseteq Awake(PRequest, "producer_list")'
      /\ Awake(CRequest, "consumer_list") \subseteq Awake(CRequest, "consumer_list")'
  BY <1>1, Zenon DEF Awake
<1>7. /\ Cardinality(Awake(PRequest, "producer_list"))' >=
           Cardinality(Awake(PRequest, "producer_list"))
      /\ Cardinality(Awake(CRequest, "consumer_list"))' >=
           Cardinality(Awake(CRequest, "consumer_list"))
      /\ Cardinality(Awake(PRequest, "producer_list")) \in Nat
      /\ Cardinality(Awake(PRequest, "producer_list"))' \in Nat
      /\ Cardinality(Awake(CRequest, "consumer_list")) \in Nat
      /\ Cardinality(Awake(CRequest, "consumer_list"))' \in Nat
  BY <1>6, CountFacts, Zenon
<1>8. buffer \in Int /\ buffer_limit \in Int
  BY LimitAssumption DEF TypeOK
<1>9. NoLostWakeup'
  BY <1>7, <1>8 DEF SchedInv, NoLostWakeup
<1>10. QED
  BY <1>3, <1>4, <1>5, <1>9, Zenon DEF SchedInv

\* The lists of the two roles, whose sleepers wait to take the lock again.
LEMMA ListFacts ==
    ASSUME TypeOK, SchedInv
    PROVE  /\ Prims = {"lock_global", "producer_list", "consumer_list"}
           /\ \A p \in Prims : pool.wait[p] \in Seq(Threads)
           /\ \A p \in Prims : \A u \in Range(pool.wait[p]) : u \in Threads
           /\ \A u \in Range(pool.wait["producer_list"]) : pc[u] = "p_lock"
           /\ \A u \in Range(pool.wait["consumer_list"]) : pc[u] = "c_lock"
           /\ buffer \in Nat /\ buffer_limit \in Nat /\ buffer <= buffer_limit
<1>1. \A p \in Prims : pool.wait[p] \in Seq(Threads)
  BY Zenon DEF TypeOK, PoolType
<1>2. \A p \in Prims : \A u \in Range(pool.wait[p]) : u \in Threads
  BY <1>1 DEF Range
<1>3. buffer \in Nat /\ buffer_limit \in Nat /\ buffer <= buffer_limit
  BY LimitAssumption DEF TypeOK
<1>4. QED
  BY <1>1, <1>2, <1>3, Zenon DEF SchedInv, PoolInv, Prims

\* The lists of the two roles stay right if nobody joins them and only the
\* running thread moves.
LEMMA ListsKept ==
    ASSUME TypeOK, SchedInv, NEW t \in Threads, pool.running = t,
           \A u \in Threads \ {t} : pc'[u] = pc[u],
           QueuesInv(pool'),
           \A u \in Range(pool'.wait["producer_list"]) :
              u \in Range(pool.wait["producer_list"]),
           \A u \in Range(pool'.wait["consumer_list"]) :
              u \in Range(pool.wait["consumer_list"])
    PROVE  PoolInv'
<1>1. \A u \in Range(pool.wait["producer_list"]) :
         u \in Threads \ {t} /\ pc[u] = "p_lock"
  BY RunningFacts, ListFacts, Zenon
<1>2. \A u \in Range(pool.wait["consumer_list"]) :
         u \in Threads \ {t} /\ pc[u] = "c_lock"
  BY RunningFacts, ListFacts, Zenon
<1>3. QED
  BY <1>1, <1>2, Zenon DEF PoolInv

\* Taking the lock, which is always free: p_lock to p_loop, c_lock to c_loop.
LEMMA AcquireSched ==
    ASSUME TypeOK, SchedInv, NEW t \in Threads, NEW from, NEW next,
           \/ from = "p_lock" /\ next = "p_loop"
           \/ from = "c_lock" /\ next = "c_loop",
           Acquire(t, from, next)
    PROVE  /\ SchedInv'
           /\ pool' \in PoolType
           /\ pool'.running = pool.running
           /\ pc' = [pc EXCEPT ![t] = next]
<1>1. pool.running = t /\ pc[t] = from
  BY Zenon DEF Acquire, At
<1>2. ~ pool.held["lock_global"] /\ \A u \in Threads : pc[u] \notin InLoop
  BY <1>1, RunningFacts, Zenon DEF InLoop
<1>3. /\ pool' = LockTake(pool, "lock_global")
      /\ pc' = [pc EXCEPT ![t] = next]
      /\ buffer' = buffer
      /\ main' = main
  BY <1>2, Zenon DEF Acquire
<1>4. /\ pool' \in PoolType
      /\ QueuesInv(pool')
      /\ pool'.running = pool.running
      /\ pool'.wait = pool.wait
      /\ pool'.held["lock_global"]
      /\ pool'.helder["lock_global"] = pool.running
  BY <1>1, <1>3, RunningFacts, TakeFacts, Zenon
<1>5. /\ pc'[t] = next
      /\ \A u \in Threads \ {t} : pc'[u] = pc[u]
  BY <1>3, Zenon DEF TypeOK
<1>6. PoolInv'
  BY <1>1, <1>4, <1>5, ListsKept, Zenon
<1>7. BootInv'
  BY <1>1, <1>3, RunningFacts, Zenon DEF BootInv
<1>8. LockNeverContended'
  <2>1. pool'.wait["lock_global"] = <<>>
    BY <1>4, Zenon DEF SchedInv, LockNeverContended
  <2>2. \A u \in Threads : pc'[u] \in InLoop => pool'.running = u
    BY <1>1, <1>2, <1>4, <1>5, Zenon
  <2>3. At(t, "p_loop")' \/ At(t, "c_loop")'
    BY <1>1, <1>4, <1>5, Zenon DEF At
  <2>4. QED
    BY <1>1, <1>4, <2>1, <2>2, <2>3, Zenon DEF LockNeverContended
<1>9. /\ Awake(PRequest, "producer_list")' = Awake(PRequest, "producer_list")
      /\ Awake(CRequest, "consumer_list")' = Awake(CRequest, "consumer_list")
  BY <1>1, <1>4, <1>5, Zenon DEF Awake, PRequest, CRequest
<1>10. NoLostWakeup'
  BY <1>3, <1>4, <1>9, Zenon DEF SchedInv, NoLostWakeup
<1>11. QED
  BY <1>3, <1>4, <1>6, <1>7, <1>8, <1>10, Zenon DEF SchedInv

\* Sleeping in the while loop.  The buffer is then full for a producer and
\* empty for a consumer, so the role has nobody to keep awake.
LEMMA SleepSched ==
    ASSUME Counted, TypeOK, SchedInv, NEW t \in Threads,
           NEW from, NEW prim, NEW next,
           \/ /\ from = "p_loop" /\ prim = "producer_list" /\ next = "p_lock"
              /\ buffer = buffer_limit
           \/ /\ from = "c_loop" /\ prim = "consumer_list" /\ next = "c_lock"
              /\ buffer = 0,
           SleepOn(t, from, prim, next)
    PROVE  SchedInv' /\ pool' \in PoolType
<1> DEFINE free == LockRelease(pool, "lock_global")
<1>1. /\ pool.running = t /\ pc[t] = from
      /\ pool' = ThreadSleep(free, prim)
      /\ pc' = [pc EXCEPT ![t] = next]
      /\ buffer' = buffer
      /\ main' = main
  BY Zenon DEF SleepOn, At
<1>2. prim \in Prims
  BY Zenon DEF Prims
<1>3. /\ free \in PoolType
      /\ QueuesInv(free)
      /\ free.running = t
      /\ free.wait = pool.wait
      /\ ~ free.held["lock_global"]
  BY <1>1, RunningFacts, ReleaseFacts, Zenon DEF SchedInv, LockNeverContended
<1> HIDE DEF free
<1>4. /\ pool' \in PoolType
      /\ QueuesInv(pool')
      /\ ~ pool'.held["lock_global"]
      /\ \A r \in Prims \ {prim} : pool'.wait[r] = pool.wait[r]
      /\ \/ pool'.wait = pool.wait
         \/ Range(pool'.wait[prim]) = Range(pool.wait[prim]) \cup {t}
  <2>1. free.running \in Threads
    BY <1>3, Zenon
  <2>2. LET q == ThreadSleep(free, prim)
        IN  /\ q \in PoolType
            /\ QueuesInv(q)
            /\ q.held = free.held
            /\ \A r \in Prims \ {prim} : q.wait[r] = free.wait[r]
            /\ \/ q = free
               \/ Range(q.wait[prim]) = Range(free.wait[prim]) \cup {free.running}
    BY <1>2, <1>3, <2>1, SleepFacts, Zenon
  <2>3. QED
    BY <1>1, <1>3, <2>2, Zenon
<1>5. /\ pc'[t] = next
      /\ \A u \in Threads \ {t} : pc'[u] = pc[u]
  BY <1>1, Zenon DEF TypeOK
<1>6. PoolInv'
  <2>1. \A r \in Prims : \A u \in Range(pool'.wait[r]) :
           u \in Range(pool.wait[r]) \/ (u = t /\ r = prim)
    BY <1>4, Zenon
  <2>2. \A r \in {"producer_list", "consumer_list"} :
           \A u \in Range(pool.wait[r]) : u \in Threads \ {t}
    BY <1>1, RunningFacts, ListFacts, Zenon
  <2>3. \A u \in Range(pool'.wait["producer_list"]) : pc'[u] = "p_lock"
    BY <1>5, <2>1, <2>2, ListFacts, Zenon
  <2>4. \A u \in Range(pool'.wait["consumer_list"]) : pc'[u] = "c_lock"
    BY <1>5, <2>1, <2>2, ListFacts, Zenon
  <2>5. QED
    BY <1>4, <2>3, <2>4, Zenon DEF PoolInv
<1>7. BootInv'
  BY <1>1, RunningFacts, Zenon DEF BootInv
<1>8. LockNeverContended'
  <2>1. pool'.wait["lock_global"] = <<>>
    BY <1>4, ListFacts, Zenon DEF SchedInv, LockNeverContended
  <2>2. \A u \in Threads : pc'[u] \notin InLoop
    BY <1>1, <1>5, RunningFacts DEF InLoop
  <2>3. QED
    BY <1>4, <2>1, <2>2, Zenon DEF LockNeverContended
<1>9. NoLostWakeup'
  <2>1. CASE prim = "producer_list"
    <3>1. pool'.wait["consumer_list"] = pool.wait["consumer_list"]
      BY <1>4, <2>1, ListFacts, Zenon
    <3>2. Awake(CRequest, "consumer_list")' = Awake(CRequest, "consumer_list")
      BY <1>1, <1>5, <2>1, <3>1, Zenon DEF Awake, CRequest
    <3>3. Cardinality(Awake(PRequest, "producer_list")') \in Nat
      BY <1>1, RunningFacts, CountFacts, Zenon
    <3>4. buffer_limit - buffer = 0
      BY <2>1, ListFacts
    <3>5. QED
      BY <1>1, <3>1, <3>2, <3>3, <3>4 DEF SchedInv, NoLostWakeup
  <2>2. CASE prim = "consumer_list"
    <3>1. pool'.wait["producer_list"] = pool.wait["producer_list"]
      BY <1>4, <2>2, ListFacts, Zenon
    <3>2. Awake(PRequest, "producer_list")' = Awake(PRequest, "producer_list")
      BY <1>1, <1>5, <2>2, <3>1, Zenon DEF Awake, PRequest
    <3>3. Cardinality(Awake(CRequest, "consumer_list")') \in Nat
      BY <1>1, RunningFacts, CountFacts, Zenon
    <3>4. QED
      BY <1>1, <2>2, <3>1, <3>2, <3>3 DEF SchedInv, NoLostWakeup
  <2>3. QED
    BY <2>1, <2>2, Zenon
<1>10. QED
  BY <1>4, <1>6, <1>7, <1>8, <1>9, Zenon DEF SchedInv

\* The end of a request, seen from the pool: the first sleeper of the other
\* role is woken, the lock is free and the thread receives again.
LEMMA FinishPool ==
    ASSUME TypeOK, SchedInv, NEW t \in Threads, NEW prim,
           prim \in {"producer_list", "consumer_list"},
           pool.running = t,
           pc[t] \in InLoop,
           Finish(t, prim)
    PROVE  /\ PoolInv' /\ BootInv' /\ LockNeverContended'
           /\ pool' \in PoolType
           /\ pc'[t] = "recv"
           /\ \A u \in Threads \ {t} : pc'[u] = pc[u]
           /\ \A r \in Prims \ {prim} : pool'.wait[r] = pool.wait[r]
           /\ pool.wait[prim] = <<>> => pool'.wait[prim] = <<>>
           /\ pool.wait[prim] # <<>> =>
                \E x \in Range(pool.wait[prim]) :
                   Range(pool'.wait[prim]) = Range(pool.wait[prim]) \ {x}
<1> DEFINE woken == ThreadWakeup(pool, prim)
<1>1. /\ pool' = LockRelease(woken, "lock_global")
      /\ pc' = [pc EXCEPT ![t] = "recv"]
      /\ main' = main
  BY Zenon DEF Finish
<1>2. prim \in Prims /\ "lock_global" \in Prims /\ prim # "lock_global"
  BY Zenon DEF Prims
<1>3. /\ woken \in PoolType
      /\ QueuesInv(woken)
      /\ \A r \in Prims \ {prim} : woken.wait[r] = pool.wait[r]
      /\ pool.wait[prim] = <<>> => woken.wait[prim] = <<>>
      /\ pool.wait[prim] # <<>> =>
           \E x \in Range(pool.wait[prim]) :
              Range(woken.wait[prim]) = Range(pool.wait[prim]) \ {x}
  BY <1>2, RunningFacts, WakeupFacts, Zenon
<1> HIDE DEF woken
<1>4. woken.wait["lock_global"] = <<>>
  BY <1>2, <1>3, Zenon DEF SchedInv, LockNeverContended
<1>5. /\ pool' \in PoolType
      /\ QueuesInv(pool')
      /\ pool'.wait = woken.wait
      /\ ~ pool'.held["lock_global"]
  BY <1>1, <1>3, <1>4, ReleaseFacts, Zenon
<1>6. /\ pc'[t] = "recv"
      /\ \A u \in Threads \ {t} : pc'[u] = pc[u]
  BY <1>1, Zenon DEF TypeOK
<1>7. \A r \in Prims : \A u \in Range(pool'.wait[r]) :
         u \in Range(pool.wait[r])
  <2>1. ASSUME NEW r \in Prims
        PROVE  \A u \in Range(pool'.wait[r]) : u \in Range(pool.wait[r])
    <3>1. CASE r # prim
      BY <1>3, <1>5, <3>1, Zenon
    <3>2. CASE r = prim /\ pool.wait[prim] = <<>>
      BY <1>3, <1>5, <3>2, Zenon
    <3>3. CASE r = prim /\ pool.wait[prim] # <<>>
      BY <1>3, <1>5, <3>3, Zenon
    <3>4. QED
      BY <3>1, <3>2, <3>3, Zenon
  <2>2. QED
    BY <2>1, Zenon
<1>8. PoolInv'
  BY <1>2, <1>5, <1>6, <1>7, ListsKept, Zenon DEF Prims
<1>9. BootInv'
  BY <1>1, RunningFacts, Zenon DEF BootInv
<1>10. LockNeverContended'
  <2>1. \A u \in Threads : pc'[u] \notin InLoop
    BY <1>6, RunningFacts DEF InLoop
  <2>2. QED
    BY <1>4, <1>5, <2>1, Zenon DEF LockNeverContended
<1>11. QED
  BY <1>3, <1>5, <1>6, <1>8, <1>9, <1>10, Zenon

\* PRODUCER stores an item: one free place and one awake producer less, one
\* item more and, if a consumer sleeps, one awake consumer more.
LEMMA PutSched ==
    ASSUME Counted, TypeOK, SchedInv, NEW t \in Threads, ProducerPut(t)
    PROVE  SchedInv' /\ pool' \in PoolType
<1>1. /\ pool.running = t /\ pc[t] = "p_loop"
      /\ buffer' = buffer + 1
      /\ Finish(t, "consumer_list")
  BY Zenon DEF ProducerPut, At
<1>2. /\ PoolInv' /\ BootInv' /\ LockNeverContended'
      /\ pool' \in PoolType
      /\ pc'[t] = "recv"
      /\ \A u \in Threads \ {t} : pc'[u] = pc[u]
      /\ pool'.wait["producer_list"] = pool.wait["producer_list"]
      /\ pool.wait["consumer_list"] = <<>> => pool'.wait["consumer_list"] = <<>>
      /\ pool.wait["consumer_list"] # <<>> =>
           \E x \in Range(pool.wait["consumer_list"]) :
              Range(pool'.wait["consumer_list"])
                = Range(pool.wait["consumer_list"]) \ {x}
  BY <1>1, FinishPool, Zenon DEF InLoop, Prims
<1> DEFINE P == Awake(PRequest, "producer_list")
           C == Awake(CRequest, "consumer_list")
<1>3. P \ {t} \subseteq P'
  BY <1>2, Zenon DEF Awake
<1>4. /\ Cardinality(P) \in Nat /\ Cardinality(P') \in Nat
      /\ Cardinality(P') >= Cardinality(P) - 1
  BY <1>1, <1>3, RunningFacts, CountFacts, Zenon
<1>5. ASSUME pool.wait["consumer_list"] # <<>>
      PROVE  Cardinality(C') >= Cardinality(C) + 1
  <2>1. PICK x \in Range(pool.wait["consumer_list"]) :
            Range(pool'.wait["consumer_list"])
              = Range(pool.wait["consumer_list"]) \ {x}
    BY <1>2, <1>5, Zenon
  <2>2. x \in Threads /\ x # t /\ pc[x] = "c_lock"
    BY <1>1, ListFacts, Zenon
  <2>3. x \notin C /\ C \cup {x} \subseteq C'
    BY <1>1, <1>2, <2>1, <2>2, Zenon DEF Awake, CRequest
  <2>4. QED
    BY <1>1, <2>2, <2>3, RunningFacts, CountFacts, Zenon
<1>6. Cardinality(C) \in Nat /\ Cardinality(C') \in Nat
  BY <1>1, RunningFacts, CountFacts, Zenon
<1>7. /\ pool.wait["producer_list"] # <<>> =>
           Cardinality(P) >= buffer_limit - buffer
      /\ pool.wait["consumer_list"] # <<>> => Cardinality(C) >= buffer
  BY Zenon DEF SchedInv, NoLostWakeup
<1> HIDE DEF P, C
<1>8. /\ pool'.wait["producer_list"] # <<>> =>
           Cardinality(P') >= buffer_limit - buffer'
      /\ pool'.wait["consumer_list"] # <<>> => Cardinality(C') >= buffer'
  <2>1. buffer \in Nat /\ buffer_limit \in Nat /\ buffer' = buffer + 1
    BY <1>1, ListFacts, Zenon
  <2>2. pool'.wait["producer_list"] # <<>> =>
           Cardinality(P') >= buffer_limit - buffer'
    <3>1. pool'.wait["producer_list"] = pool.wait["producer_list"]
      BY <1>2, Zenon
    <3>2. QED
      BY <1>4, <1>7, <2>1, <3>1
  <2>3. pool'.wait["consumer_list"] # <<>> => Cardinality(C') >= buffer'
    <3>1. pool'.wait["consumer_list"] # <<>> => pool.wait["consumer_list"] # <<>>
      BY <1>2, Zenon
    <3>2. QED
      BY <1>5, <1>6, <1>7, <2>1, <3>1
  <2>4. QED
    BY <2>2, <2>3, Zenon
<1>9. NoLostWakeup'
  BY <1>8, Zenon DEF NoLostWakeup, P, C
<1>10. QED
  BY <1>2, <1>9, Zenon DEF SchedInv

\* CONSUMER takes an item: the same with the roles exchanged.
LEMMA TakeSched ==
    ASSUME Counted, TypeOK, SchedInv, NEW t \in Threads, ConsumerTake(t)
    PROVE  SchedInv' /\ pool' \in PoolType
<1>1. /\ pool.running = t /\ pc[t] = "c_loop"
      /\ buffer' = buffer - 1
      /\ Finish(t, "producer_list")
  BY Zenon DEF ConsumerTake, At
<1>2. /\ PoolInv' /\ BootInv' /\ LockNeverContended'
      /\ pool' \in PoolType
      /\ pc'[t] = "recv"
      /\ \A u \in Threads \ {t} : pc'[u] = pc[u]
      /\ pool'.wait["consumer_list"] = pool.wait["consumer_list"]
      /\ pool.wait["producer_list"] = <<>> => pool'.wait["producer_list"] = <<>>
      /\ pool.wait["producer_list"] # <<>> =>
           \E x \in Range(pool.wait["producer_list"]) :
              Range(pool'.wait["producer_list"])
                = Range(pool.wait["producer_list"]) \ {x}
  BY <1>1, FinishPool, Zenon DEF InLoop, Prims
<1> DEFINE P == Awake(PRequest, "producer_list")
           C == Awake(CRequest, "consumer_list")
<1>3. C \ {t} \subseteq C'
  BY <1>2, Zenon DEF Awake
<1>4. /\ Cardinality(C) \in Nat /\ Cardinality(C') \in Nat
      /\ Cardinality(C') >= Cardinality(C) - 1
  BY <1>1, <1>3, RunningFacts, CountFacts, Zenon
<1>5. ASSUME pool.wait["producer_list"] # <<>>
      PROVE  Cardinality(P') >= Cardinality(P) + 1
  <2>1. PICK x \in Range(pool.wait["producer_list"]) :
            Range(pool'.wait["producer_list"])
              = Range(pool.wait["producer_list"]) \ {x}
    BY <1>2, <1>5, Zenon
  <2>2. x \in Threads /\ x # t /\ pc[x] = "p_lock"
    BY <1>1, ListFacts, Zenon
  <2>3. x \notin P /\ P \cup {x} \subseteq P'
    BY <1>1, <1>2, <2>1, <2>2, Zenon DEF Awake, PRequest
  <2>4. QED
    BY <1>1, <2>2, <2>3, RunningFacts, CountFacts, Zenon
<1>6. Cardinality(P) \in Nat /\ Cardinality(P') \in Nat
  BY <1>1, RunningFacts, CountFacts, Zenon
<1>7. /\ pool.wait["producer_list"] # <<>> =>
           Cardinality(P) >= buffer_limit - buffer
      /\ pool.wait["consumer_list"] # <<>> => Cardinality(C) >= buffer
  BY Zenon DEF SchedInv, NoLostWakeup
<1> HIDE DEF P, C
<1>8. /\ pool'.wait["producer_list"] # <<>> =>
           Cardinality(P') >= buffer_limit - buffer'
      /\ pool'.wait["consumer_list"] # <<>> => Cardinality(C') >= buffer'
  <2>1. buffer \in Nat /\ buffer_limit \in Nat /\ buffer' = buffer - 1
    BY <1>1, ListFacts, Zenon
  <2>2. pool'.wait["producer_list"] # <<>> =>
           Cardinality(P') >= buffer_limit - buffer'
    <3>1. pool'.wait["producer_list"] # <<>> => pool.wait["producer_list"] # <<>>
      BY <1>2, Zenon
    <3>2. QED
      BY <1>5, <1>6, <1>7, <2>1, <3>1
  <2>3. pool'.wait["consumer_list"] # <<>> => Cardinality(C') >= buffer'
    <3>1. pool'.wait["consumer_list"] = pool.wait["consumer_list"]
      BY <1>2, Zenon
    <3>2. QED
      BY <1>4, <1>7, <2>1, <3>1
  <2>4. QED
    BY <2>2, <2>3, Zenon
<1>9. NoLostWakeup'
  BY <1>8, Zenon DEF NoLostWakeup, P, C
<1>10. QED
  BY <1>2, <1>9, Zenon DEF SchedInv

\* TMNT: the thread leaves; it held no lock and served no request.
LEMMA TmntSched ==
    ASSUME TypeOK, SchedInv, NEW t \in Threads, HandleTmnt(t)
    PROVE  SchedInv' /\ pool' \in PoolType
<1>1. /\ pool.running = t /\ pc[t] = "TMNT"
      /\ pool' = ThreadExit(pool)
      /\ pc' = [pc EXCEPT ![t] = "gone"]
      /\ buffer' = buffer /\ main' = main
  BY Zenon DEF HandleTmnt, At
<1>2. /\ pool' \in PoolType
      /\ QueuesInv(pool')
      /\ pool'.wait = pool.wait
      /\ pool'.held = pool.held
  BY <1>1, RunningFacts, ExitFacts, Zenon
<1>3. /\ pc'[t] = "gone"
      /\ \A u \in Threads \ {t} : pc'[u] = pc[u]
  BY <1>1, Zenon DEF TypeOK
<1>4. PoolInv'
  BY <1>1, <1>2, <1>3, ListsKept, Zenon
<1>5. BootInv'
  BY <1>1, RunningFacts, Zenon DEF BootInv
<1>6. LockNeverContended'
  BY <1>1, <1>2, <1>3, RunningFacts, Zenon DEF SchedInv, LockNeverContended, InLoop
<1>7. /\ Awake(PRequest, "producer_list")' = Awake(PRequest, "producer_list")
      /\ Awake(CRequest, "consumer_list")' = Awake(CRequest, "consumer_list")
  BY <1>1, <1>2, <1>3, Zenon DEF Awake, PRequest, CRequest
<1>8. NoLostWakeup'
  BY <1>1, <1>2, <1>7, Zenon DEF SchedInv, NoLostWakeup
<1>9. QED
  BY <1>2, <1>4, <1>5, <1>6, <1>8, Zenon DEF SchedInv

\* main_continued starts the threads: nobody sleeps and the lock is free.
LEMMA BootSched ==
    ASSUME TypeOK, SchedInv, MainContinued
    PROVE  SchedInv' /\ pool' \in PoolType
<1>1. /\ main = "boot"
      /\ main' = "resumed"
      /\ pool' = MainResume(ThreadCreation(client_num), client_num)
      /\ pc' = pc
  BY Zenon DEF MainContinued
<1>2. /\ pool' \in PoolType
      /\ QueuesInv(pool')
      /\ \A r \in Prims : pool'.wait[r] = <<>>
      /\ ~ pool'.held["lock_global"]
  BY <1>1, BootFacts, Zenon
<1>3. \A u \in Threads : pc'[u] = "recv"
  BY <1>1, Zenon DEF SchedInv, BootInv
<1>4. \A r \in Prims : Range(pool'.wait[r]) = {}
  BY <1>2 DEF Range
<1>5. /\ "lock_global" \in Prims
      /\ "producer_list" \in Prims
      /\ "consumer_list" \in Prims
  BY Zenon DEF Prims
<1>6. PoolInv'
  BY <1>2, <1>4, <1>5, Zenon DEF PoolInv
<1>7. BootInv'
  BY <1>1, Zenon DEF BootInv
<1>8. LockNeverContended'
  BY <1>2, <1>3, <1>5, Zenon DEF LockNeverContended, InLoop
<1>9. NoLostWakeup'
  BY <1>2, <1>5, Zenon DEF NoLostWakeup
<1>10. QED
  BY <1>2, <1>6, <1>7, <1>8, <1>9, Zenon DEF SchedInv

\* Steps that leave the pool, the threads and the buffer alone: the clients'
\* calls and the end of main_continued.
LEMMA IdleSched ==
    ASSUME SchedInv, UNCHANGED <<pool, pc, buffer>>,
           main' = main \/ main' = "end"
    PROVE  SchedInv'
  BY Zenon DEF SchedInv, PoolInv, BootInv, LockNeverContended, NoLostWakeup, At, Awake

-----------------------------------------------------------------------------
(* The steps of the server, the messages and the capabilities. *)

CapInv == SlotsInv /\ BarrierInv /\ ClientInv /\ PlaceInv /\ WorkInv

\* The types of the variables other than the pool.
RestType ==
    /\ pc \in [Threads -> Labels \cup {"recv", "p_lock", "p_loop", "c_lock",
                                       "c_loop", "gone"}]
    /\ slot \in [Threads -> Slots]
    /\ caps \in [Slots -> Clients \cup {NoClient}]
    /\ caller \in Clients \cup {NoClient}
    /\ reply_eps \in [ClientIds -> Slots \cup {0}]
    /\ client_new \in 0..client_num
    /\ buffer \in 0..buffer_limit
    /\ main \in {"boot", "resumed", "end"}
    /\ ep \in Seq(Clients)
    /\ req \in [Clients -> Labels \cup {"none"}]
    /\ id \in [Clients -> ClientIds \cup {-1}]
    /\ left \in [Clients -> 0..Rounds]

LEMMA InvSplit == IInv <=> pool \in PoolType /\ RestType /\ SchedInv /\ CapInv
  BY Zenon DEF IInv, TypeOK, RestType, SchedInv, CapInv

LEMMA InvJoin == pool' \in PoolType /\ RestType' /\ SchedInv' /\ CapInv' => IInv'
  BY Zenon DEF IInv, TypeOK, RestType, SchedInv, CapInv, PoolType, Threads, Prims,
         client_num

\* A saved reply capability belongs to a client that is blocked in a call.
LEMMA CapFacts ==
    ASSUME RestType, CapInv, NEW s \in Slots, caps[s] # NoClient
    PROVE  caps[s] \in Clients /\ req[caps[s]] \in {"INIT", "PRODUCER", "CONSUMER"}
<1>1. caps[s] \in Clients
  BY Zenon DEF RestType
<1>2. req[caps[s]] \in {"INIT", "PRODUCER", "CONSUMER"}
  BY DEF CapInv, WorkInv
<1>3. QED
  BY <1>1, <1>2, Zenon

\* While t runs no other thread has a message in hand.
LEMMA HandFacts ==
    ASSUME RestType, CapInv, NEW t \in Threads, pool.running = t
    PROVE  \A u \in Threads \ {t} : pc[u] \notin Labels
  BY Zenon DEF CapInv, WorkInv

\* A thread in a handler answers a client with the matching request.
LEMMA WorkFacts ==
    ASSUME CapInv, NEW u \in Threads
    PROVE  /\ pc[u] \in {"p_lock", "p_loop"} =>
                caps[slot[u]] \in Clients /\ req[caps[slot[u]]] = "PRODUCER"
           /\ pc[u] \in {"c_lock", "c_loop"} =>
                caps[slot[u]] \in Clients /\ req[caps[slot[u]]] = "CONSUMER"
  BY Zenon DEF CapInv, WorkInv

\* A call fits the history of the client that makes it.
LEMMA LabelFacts ==
    ASSUME RestType, NEW c \in Clients
    PROVE  /\ NextLabel(c) \in Labels
           /\ NextLabel(c) = "INIT" <=> id[c] = -1
           /\ NextLabel(c) \in {"PRODUCER", "CONSUMER"} => left[c] > 0
<1>1. id[c] \in Int /\ id[c] % 2 \in {0, 1} /\ left[c] \in Nat
  BY NumFacts, RoundsAssumption DEF RestType, ClientIds
<1>2. CASE id[c] = -1
  BY <1>2, Zenon DEF NextLabel, Labels
<1>3. CASE id[c] # -1 /\ left[c] = 0
  BY <1>3, Zenon DEF NextLabel, Labels
<1>4. CASE id[c] # -1 /\ left[c] # 0 /\ id[c] % 2 = 1
  BY <1>1, <1>4 DEF NextLabel, Labels
<1>5. CASE id[c] # -1 /\ left[c] # 0 /\ id[c] % 2 = 0
  BY <1>1, <1>5 DEF NextLabel, Labels
<1>6. QED
  BY <1>1, <1>2, <1>3, <1>4, <1>5, Zenon

\* A client's call.
LEMMA CallInv ==
    ASSUME IInv, NEW c \in Clients, Call(c)
    PROVE  IInv'
<1> USE InvSplit
<1>1. /\ req[c] = "none"
      /\ req' = [req EXCEPT ![c] = NextLabel(c)]
      /\ ep' = Append(ep, c)
      /\ UNCHANGED <<pool, pc, slot, caps, caller, reply_eps, client_new,
                     buffer, main, id, left>>
  BY Zenon DEF Call, serverVars
<1>2. /\ req'[c] = NextLabel(c)
      /\ \A d \in Clients \ {c} : req'[d] = req[d]
  BY <1>1, Zenon DEF RestType
<1>3. /\ c \notin Range(ep)
      /\ c # caller
      /\ \A s \in Slots : caps[s] # c
  BY <1>1, CapFacts, NoClientAssumption, Zenon DEF CapInv, PlaceInv
<1>4. /\ ep' \in Seq(Clients)
      /\ Range(ep') = Range(ep) \cup {c}
      /\ IsInjective(ep')
  BY <1>1, <1>3, AppendFacts DEF RestType, CapInv, PlaceInv
<1>5. RestType'
  BY <1>1, <1>4, LabelFacts, Zenon DEF RestType
<1>6. SchedInv'
  BY <1>1, IdleSched, Zenon
<1>7. SlotsInv'
  BY <1>1, Zenon DEF CapInv, SlotsInv
<1>8. BarrierInv'
  BY <1>1, <1>2, <1>3, NumFacts, Zenon DEF CapInv, BarrierInv, RestType, Slots
<1>9. ClientInv'
  BY <1>1, <1>2, LabelFacts, Zenon DEF CapInv, ClientInv
<1>10. PlaceInv'
  <2>1. \A d \in Range(ep) : d \in Clients
    BY DEF RestType, Range
  <2>2. \A d \in Range(ep)' : req'[d] # "none" /\ d # caller'
    BY <1>1, <1>2, <1>3, <1>4, <2>1, LabelFacts, Zenon DEF CapInv, PlaceInv, Labels
  <2>3. \A s \in Slots : caps'[s] # NoClient =>
         /\ caps'[s] \notin Range(ep)'
         /\ caps'[s] # caller'
         /\ \A r \in Slots : caps'[r] = caps'[s] => r = s
    BY <1>1, <1>3, <1>4, Zenon DEF CapInv, PlaceInv
  <2>4. caller' # NoClient => req'[caller'] # "none"
    BY <1>1, <1>2, <1>3, Zenon DEF RestType, CapInv, PlaceInv
  <2>5. QED
    BY <1>4, <2>2, <2>3, <2>4, Zenon DEF PlaceInv
<1>11. WorkInv'
  <2>1. \A s \in Slots : caps[s] # NoClient => req'[caps[s]] = req[caps[s]]
    BY <1>2, <1>3, CapFacts, Zenon
  <2>2. caller # NoClient => req'[caller] = req[caller]
    BY <1>2, <1>3, Zenon DEF RestType
  <2>3. \A t \in Threads : slot[t] \in Slots
    BY Zenon DEF RestType
  <2>4. QED
    BY <1>1, <2>1, <2>2, <2>3, NoClientAssumption DEF CapInv, WorkInv
<1>12. QED
  BY InvJoin, <1>1, <1>5, <1>6, <1>7, <1>8, <1>9, <1>10, <1>11, Zenon DEF CapInv

\* Recv: the first client of the queue becomes the caller.
LEMMA RecvInv ==
    ASSUME Counted, IInv, NEW t \in Threads, Recv(t)
    PROVE  IInv'
<1> USE InvSplit
<1>1. /\ pool.running = t
      /\ pc[t] = "recv"
      /\ ep # <<>>
      /\ caller' = Head(ep)
      /\ ep' = Tail(ep)
      /\ pc' = [pc EXCEPT ![t] = req[Head(ep)]]
      /\ UNCHANGED <<pool, slot, caps, reply_eps, client_new, buffer, main,
                     req, id, left>>
  BY Zenon DEF Recv, At
<1>2. /\ caller' \in Clients
      /\ caller' \in Range(ep)
      /\ ep' \in Seq(Clients)
      /\ IsInjective(ep')
      /\ caller' \notin Range(ep')
      /\ \A d \in Range(ep') : d \in Range(ep)
  BY <1>1, TailFacts DEF RestType, CapInv, PlaceInv
<1>3. req[caller'] \in Labels
  BY <1>2, Zenon DEF RestType, CapInv, PlaceInv
<1>4. /\ pc'[t] = req[caller']
      /\ \A u \in Threads \ {t} : pc'[u] = pc[u]
  BY <1>1, Zenon DEF RestType
<1>5. RestType'
  BY <1>1, <1>2, <1>3, Zenon DEF RestType
<1>6. SchedInv'
  <2>1. req[caller'] \notin InLoop
    BY <1>3, Zenon DEF Labels, InLoop
  <2>2. QED
    BY <1>1, <2>1, MoveSched, Zenon DEF IInv, InLoop, PRequest, CRequest
<1>7. SlotsInv' /\ BarrierInv' /\ ClientInv'
  BY <1>1, Zenon DEF CapInv, SlotsInv, BarrierInv, ClientInv
<1>8. PlaceInv'
  BY <1>1, <1>2, <1>3, Zenon DEF CapInv, PlaceInv, Labels
<1>9. WorkInv'
  <2>1. \A u \in Threads : pc'[u] \in Labels => u = t
    BY <1>1, <1>4, HandFacts, Zenon
  <2>2. UNCHANGED <<pool, slot, caps, req, client_new>> /\ pool.running = t
    BY <1>1, Zenon
  <2>3. /\ pc[t] \notin {"p_lock", "p_loop", "c_lock", "c_loop"}
        /\ pc'[t] \notin {"p_lock", "p_loop", "c_lock", "c_loop"}
    BY <1>1, <1>3, <1>4, Zenon DEF Labels
  <2>4. \A u \in Threads :
         /\ pc'[u] \in {"p_lock", "p_loop"} <=> pc[u] \in {"p_lock", "p_loop"}
         /\ pc'[u] \in {"c_lock", "c_loop"} <=> pc[u] \in {"c_lock", "c_loop"}
    BY <1>4, <2>3, Zenon
  <2>5. \A u \in Threads :
         pc[u] \in {"p_lock", "p_loop", "c_lock", "c_loop"} =>
           pc'[u] \in {"p_lock", "p_loop", "c_lock", "c_loop"}
    BY <1>4, <2>3, Zenon
  <2>6. \A s \in Slots : caps[s] # NoClient =>
         \/ \E u \in Threads :
              slot[u] = s /\ pc'[u] \in {"p_lock", "p_loop", "c_lock", "c_loop"}
         \/ req[caps[s]] = "INIT" /\ client_new < client_num
                                  /\ s \in (client_num + 1)..(client_num + client_new)
    BY <2>5, Zenon DEF CapInv, WorkInv
  <2>7. QED
    BY <1>2, <1>4, <2>1, <2>2, <2>4, <2>6, WorkFacts DEF WorkInv
<1>10. QED
  BY InvJoin, <1>1, <1>5, <1>6, <1>7, <1>8, <1>9, Zenon DEF CapInv

\* Once a client has an id all have one, and no INIT is left unanswered.
LEMMA StartedFacts ==
    ASSUME RestType, CapInv, NEW c \in Clients,
           req[c] \in {"PRODUCER", "CONSUMER"}
    PROVE  client_new = client_num
<1>1. id[c] # -1
  BY Zenon DEF CapInv, ClientInv, Labels
<1>2. client_new \in 0..client_num /\ client_num \in Nat
  BY NumFacts, Zenon DEF RestType
<1>3. QED
  BY <1>1, <1>2 DEF CapInv, BarrierInv

\* Once all clients have ids, a full slot belongs to a thread in a handler.
LEMMA FullSlot ==
    ASSUME CapInv, client_new = client_num, NEW s \in Slots, caps[s] # NoClient
    PROVE  \E u \in Threads :
              slot[u] = s /\ pc[u] \in {"p_lock", "p_loop", "c_lock", "c_loop"}
<1>1. ~ (client_new < client_num)
  BY NumFacts
<1>2. QED
  BY <1>1, Zenon DEF CapInv, WorkInv

\* A thread with a PRODUCER or CONSUMER message in hand has an empty slot.
LEMMA SaveFacts ==
    ASSUME RestType, CapInv, NEW t \in Threads, pc[t] \in {"PRODUCER", "CONSUMER"}
    PROVE  /\ caller \in Clients /\ req[caller] = pc[t]
           /\ client_new = client_num
           /\ slot[t] \in Slots /\ \A u \in Threads : slot[u] = slot[t] => u = t
           /\ caps[slot[t]] = NoClient
<1>1. caller \in Clients /\ req[caller] = pc[t]
  BY Zenon DEF CapInv, WorkInv, Labels
<1>2. client_new = client_num
  BY <1>1, StartedFacts, Zenon
<1>3. slot[t] \in Slots /\ \A u \in Threads : slot[u] = slot[t] => u = t
  BY Zenon DEF RestType, CapInv, SlotsInv
<1>4. caps[slot[t]] = NoClient
  BY <1>2, <1>3, NumFacts DEF CapInv, WorkInv
<1>5. QED
  BY <1>1, <1>2, <1>3, <1>4, Zenon

\* PRODUCER and CONSUMER save the reply capability: the thread's slot is
\* always empty, so saveCaller never fails.
LEMMA SaveInv ==
    ASSUME Counted, IInv, NEW t \in Threads, NEW label, NEW next,
           \/ label = "PRODUCER" /\ next = "p_lock"
           \/ label = "CONSUMER" /\ next = "c_lock",
           SaveRequest(t, label, next)
    PROVE  IInv'
<1> USE InvSplit
<1>1. /\ pool.running = t
      /\ pc[t] = label
      /\ SaveCaller(slot[t])
      /\ pc' = [pc EXCEPT ![t] = next]
      /\ UNCHANGED <<pool, slot, reply_eps, client_new, buffer, main, ep, req,
                     id, left>>
  BY Zenon DEF SaveRequest, At, clientVars
<1>2. caller \in Clients /\ req[caller] = label
  BY <1>1, SaveFacts, Zenon
<1>3. client_new = client_num
  BY <1>1, SaveFacts, Zenon
<1>4. slot[t] \in Slots /\ \A u \in Threads : slot[u] = slot[t] => u = t
  BY <1>1, SaveFacts, Zenon
<1>5. caps[slot[t]] = NoClient
  BY <1>1, SaveFacts, Zenon
<1>6. caps' = [caps EXCEPT ![slot[t]] = caller] /\ caller' = NoClient
  BY <1>1, <1>5, Zenon DEF SaveCaller
<1>7. /\ caps'[slot[t]] = caller
      /\ \A s \in Slots \ {slot[t]} : caps'[s] = caps[s]
      /\ \A s \in Slots : caps[s] # caller
  BY <1>2, <1>4, <1>6, NoClientAssumption, Zenon DEF RestType, CapInv, PlaceInv
<1>8. /\ pc'[t] = next
      /\ \A u \in Threads \ {t} : pc'[u] = pc[u] /\ slot[u] # slot[t]
  BY <1>1, <1>4, Zenon DEF RestType
<1>9. RestType'
  BY <1>1, <1>2, <1>4, <1>6, Zenon DEF RestType
<1>10. SchedInv'
  BY <1>1, MoveSched, Zenon DEF IInv, InLoop, PRequest, CRequest
<1>11. SlotsInv' /\ BarrierInv' /\ ClientInv'
  BY <1>1, <1>3, NumFacts, Zenon DEF CapInv, SlotsInv, BarrierInv, ClientInv
<1>12. PlaceInv'
  BY <1>1, <1>2, <1>6, <1>7, NoClientAssumption
     DEF RestType, CapInv, PlaceInv, Range
<1>13. WorkInv'
  <2>1. \A u \in Threads \ {t} : caps'[slot[u]] = caps[slot[u]]
    BY <1>7, <1>8, Zenon DEF RestType
  <2>2. \A u \in Threads : pc'[u] \notin Labels
    BY <1>1, <1>8, HandFacts DEF Labels
  <2>3. \A s \in Slots : caps'[s] # NoClient =>
          \E u \in Threads :
             slot[u] = s /\ pc'[u] \in {"p_lock", "p_loop", "c_lock", "c_loop"}
    <3>1. ASSUME NEW s \in Slots \ {slot[t]}, caps'[s] # NoClient
          PROVE  \E u \in Threads \ {t} :
                    slot[u] = s /\ pc[u] \in {"p_lock", "p_loop", "c_lock", "c_loop"}
      BY <1>3, <1>7, <3>1, FullSlot
    <3>2. next \in {"p_lock", "p_loop", "c_lock", "c_loop"}
      BY Zenon
    <3>3. QED
      BY <1>8, <3>1, <3>2
  <2>4. \A u \in Threads :
         /\ pc'[u] \in {"p_lock", "p_loop"} =>
              caps'[slot[u]] \in Clients /\ req[caps'[slot[u]]] = "PRODUCER"
         /\ pc'[u] \in {"c_lock", "c_loop"} =>
              caps'[slot[u]] \in Clients /\ req[caps'[slot[u]]] = "CONSUMER"
    BY <1>2, <1>7, <1>8, <2>1, WorkFacts
  <2>5. QED
    BY <1>1, <2>2, <2>3, <2>4, Zenon DEF WorkInv
<1>14. QED
  BY InvJoin, <1>1, <1>9, <1>10, <1>11, <1>12, <1>13, Zenon DEF CapInv

\* Steps that change only the pool and the place of the running thread,
\* which stays between saving a request and answering it, or never had one.
LEMMA PoolOnly ==
    ASSUME RestType, CapInv, NEW t \in Threads, NEW next,
           pool.running = t,
           \/ pc[t] \in {"p_lock", "p_loop"} /\ next \in {"p_lock", "p_loop"}
           \/ pc[t] \in {"c_lock", "c_loop"} /\ next \in {"c_lock", "c_loop"}
           \/ pc[t] = "TMNT" /\ next = "gone",
           pc' = [pc EXCEPT ![t] = next],
           UNCHANGED <<slot, caps, caller, reply_eps, client_new, buffer, main,
                       clientVars>>
    PROVE  RestType' /\ CapInv'
<1>1. UNCHANGED <<ep, req, id, left>>
  BY Zenon DEF clientVars
<1>2. /\ pc'[t] = next
      /\ \A u \in Threads \ {t} : pc'[u] = pc[u]
  BY Zenon DEF RestType
<1>3. RestType'
  BY <1>1, Zenon DEF RestType
<1>4. SlotsInv' /\ BarrierInv' /\ ClientInv' /\ PlaceInv'
  BY <1>1, Zenon DEF CapInv, SlotsInv, BarrierInv, ClientInv, PlaceInv
<1>5. WorkInv'
  <2>1. \A u \in Threads : pc'[u] \notin Labels
    BY <1>2, HandFacts, Zenon DEF Labels
  <2>2. \A u \in Threads :
         /\ pc'[u] \in {"p_lock", "p_loop"} <=> pc[u] \in {"p_lock", "p_loop"}
         /\ pc'[u] \in {"c_lock", "c_loop"} <=> pc[u] \in {"c_lock", "c_loop"}
    BY <1>2, Zenon
  <2>3. \A u \in Threads :
         pc[u] \in {"p_lock", "p_loop", "c_lock", "c_loop"} =>
           pc'[u] \in {"p_lock", "p_loop", "c_lock", "c_loop"}
    BY <1>2, Zenon
  <2>4. \A s \in Slots : caps[s] # NoClient =>
         \/ \E u \in Threads :
              slot[u] = s /\ pc'[u] \in {"p_lock", "p_loop", "c_lock", "c_loop"}
         \/ req[caps[s]] = "INIT" /\ client_new < client_num
                                  /\ s \in (client_num + 1)..(client_num + client_new)
    BY <2>3, Zenon DEF CapInv, WorkInv
  <2>5. QED
    BY <1>1, <2>1, <2>2, <2>4, WorkFacts DEF WorkInv
<1>6. QED
  BY <1>3, <1>4, <1>5, Zenon DEF CapInv

\* The lock is taken.
LEMMA AcquireInv ==
    ASSUME IInv, NEW t \in Threads, NEW from, NEW next,
           \/ from = "p_lock" /\ next = "p_loop"
           \/ from = "c_lock" /\ next = "c_loop",
           Acquire(t, from, next)
    PROVE  IInv'
<1>1. SchedInv' /\ pool' \in PoolType /\ pc' = [pc EXCEPT ![t] = next]
  BY InvSplit, AcquireSched, Zenon DEF IInv
<1>2. RestType' /\ CapInv'
  BY <1>1, InvSplit, PoolOnly, Zenon DEF Acquire, At
<1>3. QED
  BY <1>1, <1>2, InvJoin, Zenon

\* The thread sleeps in the loop.
LEMMA SleepInv ==
    ASSUME Counted, IInv, NEW t \in Threads, NEW from, NEW prim, NEW next,
           \/ /\ from = "p_loop" /\ prim = "producer_list" /\ next = "p_lock"
              /\ buffer = buffer_limit
           \/ /\ from = "c_loop" /\ prim = "consumer_list" /\ next = "c_lock"
              /\ buffer = 0,
           SleepOn(t, from, prim, next)
    PROVE  IInv'
<1>1. SchedInv' /\ pool' \in PoolType
  BY InvSplit, SleepSched, Zenon DEF IInv
<1>2. RestType' /\ CapInv'
  BY InvSplit, PoolOnly, Zenon DEF SleepOn, At
<1>3. QED
  BY <1>1, <1>2, InvJoin, Zenon

\* TMNT.
LEMMA TmntInv ==
    ASSUME IInv, NEW t \in Threads, HandleTmnt(t)
    PROVE  IInv'
<1>1. SchedInv' /\ pool' \in PoolType
  BY InvSplit, TmntSched, Zenon DEF IInv
<1>2. RestType' /\ CapInv'
  BY InvSplit, PoolOnly, Zenon DEF HandleTmnt, At
<1>3. QED
  BY <1>1, <1>2, InvJoin, Zenon

\* The client that the running thread answers when it leaves the loop.
LEMMA ReplyFacts ==
    ASSUME RestType, CapInv, NEW t \in Threads, pc[t] \in InLoop
    PROVE  /\ slot[t] \in Slots
           /\ caps[slot[t]] \in Clients
           /\ pc[t] = "p_loop" => req[caps[slot[t]]] = "PRODUCER"
           /\ pc[t] = "c_loop" => req[caps[slot[t]]] = "CONSUMER"
           /\ left[caps[slot[t]]] \in 1..Rounds
           /\ client_new = client_num
<1>1. /\ slot[t] \in Slots
      /\ caps[slot[t]] \in Clients
      /\ pc[t] = "p_loop" => req[caps[slot[t]]] = "PRODUCER"
      /\ pc[t] = "c_loop" => req[caps[slot[t]]] = "CONSUMER"
  BY DEF RestType, CapInv, WorkInv, InLoop
<1>2. left[caps[slot[t]]] \in 0..Rounds /\ left[caps[slot[t]]] > 0
  BY <1>1, Zenon DEF RestType, CapInv, ClientInv, InLoop
<1>3. QED
  BY <1>1, <1>2, StartedFacts, RoundsAssumption DEF InLoop

\* The end of a request: its own client, and no other, is answered.
LEMMA FinishInv ==
    ASSUME RestType, CapInv, NEW t \in Threads, NEW prim,
           pool.running = t,
           pc[t] \in InLoop,
           buffer' \in 0..buffer_limit,
           Finish(t, prim)
    PROVE  RestType' /\ CapInv'
<1> DEFINE s0 == slot[t]
           c == caps[slot[t]]
<1>1. /\ caps' = [caps EXCEPT ![s0] = NoClient]
      /\ req' = [d \in Clients |-> IF d = c THEN "none" ELSE req[d]]
      /\ left' = [d \in Clients |-> IF d = c THEN left[d] - 1 ELSE left[d]]
      /\ pc' = [pc EXCEPT ![t] = "recv"]
      /\ UNCHANGED <<slot, caller, reply_eps, client_new, main, ep, id>>
  BY Zenon DEF Finish, Reply
<1>2. /\ s0 \in Slots
      /\ c \in Clients
      /\ req[c] \in {"PRODUCER", "CONSUMER"}
      /\ left[c] \in 1..Rounds
      /\ client_new = client_num
  BY ReplyFacts, Zenon DEF InLoop
<1> HIDE DEF s0, c
<1>3. /\ caps'[s0] = NoClient
      /\ \A s \in Slots \ {s0} : caps'[s] = caps[s]
  BY <1>1, <1>2, Zenon DEF RestType
<1>4. /\ req'[c] = "none"
      /\ \A d \in Clients \ {c} : req'[d] = req[d] /\ left'[d] = left[d]
  BY <1>1, <1>2, Zenon
<1>5. /\ pc'[t] = "recv"
      /\ \A u \in Threads \ {t} : pc'[u] = pc[u] /\ slot[u] # s0
  BY <1>1, Zenon DEF RestType, CapInv, SlotsInv, s0
<1>6. /\ c \notin Range(ep)
      /\ c # caller
      /\ \A s \in Slots \ {s0} : caps[s] # c
  BY <1>2, NoClientAssumption, Zenon DEF CapInv, PlaceInv, c, s0
<1>7. RestType'
  <2>1. left' \in [Clients -> 0..Rounds]
    <3>1. \A d \in Clients : left[d] \in 0..Rounds
      BY Zenon DEF RestType
    <3>2. left[c] - 1 \in 0..Rounds
      BY <1>2, RoundsAssumption
    <3>3. \A d \in Clients : (IF d = c THEN left[d] - 1 ELSE left[d]) \in 0..Rounds
      BY <3>1, <3>2, Zenon
    <3>4. QED
      BY <1>1, <3>3, Zenon
  <2>2. req' \in [Clients -> Labels \cup {"none"}]
    BY <1>1, Zenon DEF RestType
  <2>3. QED
    BY <1>1, <1>2, <2>1, <2>2, Zenon DEF RestType
<1>8. SlotsInv' /\ BarrierInv'
  BY <1>1, <1>2, NumFacts, Zenon DEF CapInv, SlotsInv, BarrierInv
<1>9. ClientInv'
  BY <1>1, <1>4, Zenon DEF CapInv, ClientInv, Labels
<1>10. PlaceInv'
  <2>1. ep \in Seq(Clients) /\ caller \in Clients \cup {NoClient}
        /\ caps \in [Slots -> Clients \cup {NoClient}]
    BY Zenon DEF RestType
  <2>2. \A d \in Range(ep) : d \in Clients
    BY <2>1, RangeFacts, Zenon
  <2>3. QED
    BY <1>1, <1>3, <1>4, <1>6, <2>1, <2>2, NoClientAssumption
       DEF CapInv, PlaceInv
<1>11. WorkInv'
  <2>1. \A u \in Threads : pc'[u] \notin Labels
    BY <1>5, HandFacts, Zenon DEF Labels
  <2>2. \A u \in Threads \ {t} :
           slot[u] \in Slots \ {s0} /\ caps'[slot[u]] = caps[slot[u]]
    BY <1>3, <1>5, Zenon DEF RestType
  <2>3. \A u \in Threads :
         /\ pc'[u] \in {"p_lock", "p_loop"} =>
              caps'[slot[u]] \in Clients /\ req'[caps'[slot[u]]] = "PRODUCER"
         /\ pc'[u] \in {"c_lock", "c_loop"} =>
              caps'[slot[u]] \in Clients /\ req'[caps'[slot[u]]] = "CONSUMER"
    <3>1. \A u \in Threads \ {t} :
             caps[slot[u]] \in Clients => req'[caps[slot[u]]] = req[caps[slot[u]]]
      BY <1>4, <1>6, <2>2, Zenon
    <3>2. ASSUME NEW u \in Threads \ {t}
          PROVE  /\ pc[u] \in {"p_lock", "p_loop"} =>
                      caps[slot[u]] \in Clients /\ req'[caps[slot[u]]] = "PRODUCER"
                 /\ pc[u] \in {"c_lock", "c_loop"} =>
                      caps[slot[u]] \in Clients /\ req'[caps[slot[u]]] = "CONSUMER"
      BY <3>1, WorkFacts, Zenon
    <3>3. QED
      BY <1>5, <2>2, <3>2
  <2>4. \A s \in Slots : caps'[s] # NoClient =>
          \E u \in Threads :
             slot[u] = s /\ pc'[u] \in {"p_lock", "p_loop", "c_lock", "c_loop"}
    <3>1. ASSUME NEW s \in Slots, caps'[s] # NoClient
          PROVE  \E u \in Threads :
                    slot[u] = s /\ pc'[u] \in {"p_lock", "p_loop", "c_lock", "c_loop"}
      <4>1. s # s0 /\ caps[s] # NoClient
        BY <1>3, <3>1, Zenon
      <4>2. PICK u \in Threads :
               slot[u] = s /\ pc[u] \in {"p_lock", "p_loop", "c_lock", "c_loop"}
        BY <1>2, <4>1, FullSlot, Zenon
      <4>3. u # t
        BY <4>1, <4>2, Zenon DEF s0
      <4>4. QED
        BY <1>5, <4>2, <4>3, Zenon
    <3>2. QED
      BY <3>1, Zenon
  <2>5. slot' = slot
    BY <1>1, Zenon
  <2>6. QED
    BY <2>1, <2>3, <2>4, <2>5, Zenon DEF WorkInv
<1>12. QED
  BY <1>7, <1>8, <1>9, <1>10, <1>11, Zenon DEF CapInv

\* PRODUCER stores its item.
LEMMA PutInv ==
    ASSUME Counted, IInv, NEW t \in Threads, ProducerPut(t)
    PROVE  IInv'
<1>1. SchedInv' /\ pool' \in PoolType
  BY InvSplit, PutSched, Zenon DEF IInv
<1>2. buffer' \in 0..buffer_limit
  BY LimitAssumption, InvSplit DEF ProducerPut, RestType
<1>3. RestType' /\ CapInv'
  BY <1>2, InvSplit, FinishInv, Zenon DEF ProducerPut, At, InLoop
<1>4. QED
  BY <1>1, <1>3, InvJoin, Zenon

\* CONSUMER takes an item.
LEMMA TakeInv ==
    ASSUME Counted, IInv, NEW t \in Threads, ConsumerTake(t)
    PROVE  IInv'
<1>1. SchedInv' /\ pool' \in PoolType
  BY InvSplit, TakeSched, Zenon DEF IInv
<1>2. buffer' \in 0..buffer_limit
  BY LimitAssumption, InvSplit DEF ConsumerTake, RestType
<1>3. RestType' /\ CapInv'
  BY <1>2, InvSplit, FinishInv, Zenon DEF ConsumerTake, At, InLoop
<1>4. QED
  BY <1>1, <1>3, InvJoin, Zenon

\* The main thread starts the others, and reports the end.
LEMMA MainInv ==
    ASSUME IInv, MainContinued \/ MainEnd
    PROVE  IInv'
<1>1. /\ UNCHANGED <<pc, slot, caps, caller, reply_eps, client_new, buffer, ep,
                     req, id, left>>
      /\ main' \in {"resumed", "end"}
  BY Zenon DEF MainContinued, MainEnd, clientVars
<1>2. RestType'
  BY <1>1, InvSplit, Zenon DEF RestType
<1>3. CASE MainContinued
  <2>1. SchedInv' /\ pool' \in PoolType
    BY <1>3, InvSplit, BootSched, Zenon DEF IInv
  <2>2. \A t \in Threads : pc'[t] \notin Labels
    BY <1>1, <1>3, InvSplit, Zenon DEF MainContinued, SchedInv, BootInv, Labels
  <2>3. CapInv'
    BY <1>1, <2>2, InvSplit, Zenon
       DEF CapInv, SlotsInv, BarrierInv, ClientInv, PlaceInv, WorkInv
  <2>4. QED
    BY <1>2, <2>1, <2>3, InvJoin, Zenon
<1>4. CASE MainEnd
  <2>1. pool' = pool /\ main' = "end"
    BY <1>4, Zenon DEF MainEnd
  <2>2. SchedInv'
    BY <1>1, <2>1, InvSplit, IdleSched, Zenon
  <2>3. CapInv'
    BY <1>1, <2>1, InvSplit, Zenon
       DEF CapInv, SlotsInv, BarrierInv, ClientInv, PlaceInv, WorkInv
  <2>4. QED
    BY <1>2, <2>1, <2>2, <2>3, InvSplit, InvJoin, Zenon
<1>5. QED
  BY <1>3, <1>4, Zenon

\* What holds when an INIT is handled: the barrier is still closed, no buffer
\* request exists and the fresh slot is empty.
LEMMA InitFacts ==
    ASSUME RestType, CapInv, NEW t \in Threads, pc[t] = "INIT"
    PROVE  /\ caller \in Clients /\ req[caller] = "INIT"
           /\ client_new \in Nat /\ client_new < client_num
           /\ \A c \in Clients : id[c] = -1 /\ req[c] \in {"INIT", "none"}
           /\ \A u \in Threads : pc[u] \notin {"p_lock", "p_loop", "c_lock", "c_loop"}
           /\ \A s \in Slots : caps[s] # NoClient =>
                s \in (client_num + 1)..(client_num + client_new)
           /\ \A i \in 0..(client_new - 1) :
                /\ reply_eps[i] = client_num + 1 + i
                /\ caps[client_num + 1 + i] \in Clients
           /\ client_num + client_new + 1 \in Slots
<1>1. caller \in Clients /\ req[caller] = "INIT"
  BY Zenon DEF CapInv, WorkInv, Labels
<1>2. client_new \in Nat /\ client_new < client_num
  <2>1. id[caller] = -1
    BY <1>1, Zenon DEF CapInv, ClientInv
  <2>2. QED
    BY <1>1, <2>1, NumFacts DEF RestType, CapInv, BarrierInv
<1>3. \A c \in Clients : id[c] = -1
  BY <1>2, Zenon DEF CapInv, BarrierInv
<1>4. \A c \in Clients : req[c] \in {"INIT", "none"}
  BY <1>3, Zenon DEF RestType, CapInv, ClientInv
<1>5. \A u \in Threads : pc[u] \notin {"p_lock", "p_loop", "c_lock", "c_loop"}
  BY <1>4, Zenon DEF CapInv, WorkInv
<1>6. \A s \in Slots : caps[s] # NoClient =>
                s \in (client_num + 1)..(client_num + client_new)
  BY <1>5, Zenon DEF CapInv, WorkInv
<1>7. \A i \in 0..(client_new - 1) :
                /\ reply_eps[i] = client_num + 1 + i
                /\ caps[client_num + 1 + i] \in Clients
  BY <1>2, Zenon DEF CapInv, BarrierInv
<1>8. client_num + client_new + 1 \in Slots
  BY <1>2, NumFacts DEF Slots
<1>9. QED
  BY <1>1, <1>2, <1>3, <1>4, <1>5, <1>6, <1>7, <1>8, Zenon

\* INIT: the fresh slot joins the barrier, and the last one opens it.
LEMMA HandleInitInv ==
    ASSUME Counted, IInv, NEW t \in Threads, HandleInit(t)
    PROVE  /\ IInv'
           /\ \A c \in Clients :
                c = caller \/ (\E s \in Slots : caps[s] = c) =>
                  req'[c] = "none" \/ \E s \in Slots : caps'[s] = c
           /\ \A c \in Clients : req'[c] = "none" \/ (req'[c] = req[c] /\ id'[c] = id[c])
           /\ client_new' = client_num =>
                /\ \A c \in Clients : req'[c] = "none"
                /\ \A c, d \in Clients : id'[c] = id'[d] => c = d
                /\ \A i \in ClientIds : \E c \in Clients : id'[c] = i
<1> DEFINE fresh == client_num + client_new + 1
           saved == [caps EXCEPT ![fresh] = caller]
           eps   == [reply_eps EXCEPT ![client_new] = fresh]
           told  == {i \in ClientIds : client_new + 1 = client_num}
           Answered(c) == \E i \in told : saved[eps[i]] = c
<1>typ. pool \in PoolType /\ RestType /\ SchedInv /\ CapInv /\ TypeOK
  BY InvSplit, Zenon DEF IInv
<1>at. pool.running = t /\ pc[t] = "INIT"
  BY Zenon DEF HandleInit, At
<1>new. client_new' = client_new + 1
  BY Zenon DEF HandleInit
<1>mov. slot' = [slot EXCEPT ![t] = fresh] /\ pc' = [pc EXCEPT ![t] = "recv"]
  BY Zenon DEF HandleInit
<1>eps. reply_eps' = eps
  BY Zenon DEF HandleInit
<1>cap. caps' = [s \in Slots |-> IF \E i \in told : eps[i] = s
                                 THEN NoClient ELSE saved[s]]
  BY Zenon DEF HandleInit
<1>ans. /\ req' = [c \in Clients |-> IF Answered(c) THEN "none" ELSE req[c]]
        /\ id' = [c \in Clients |->
                    IF Answered(c) THEN CHOOSE i \in told : saved[eps[i]] = c
                                   ELSE id[c]]
  BY Zenon DEF HandleInit
<1>unc. caller' = NoClient /\ UNCHANGED <<pool, buffer, main, ep, left>>
  BY Zenon DEF HandleInit
<1>1. /\ caller \in Clients /\ req[caller] = "INIT"
      /\ \A c \in Clients : id[c] = -1 /\ req[c] \in {"INIT", "none"}
      /\ \A u \in Threads : pc[u] \notin {"p_lock", "p_loop", "c_lock", "c_loop"}
      /\ \A s \in Slots : caps[s] # NoClient =>
           s \in (client_num + 1)..(client_num + client_new)
      /\ \A i \in 0..(client_new - 1) :
           /\ reply_eps[i] = client_num + 1 + i
           /\ caps[client_num + 1 + i] \in Clients
      /\ fresh \in Slots
  BY <1>typ, <1>at, InitFacts, Zenon
<1>2. /\ client_new \in Nat /\ client_num \in Nat \ {0}
      /\ client_new < client_num
      /\ fresh = client_num + client_new + 1
  BY <1>typ, <1>at, InitFacts, NumFacts, Zenon
<1>3. /\ saved \in [Slots -> Clients \cup {NoClient}]
      /\ saved[fresh] = caller
      /\ \A s \in Slots \ {fresh} : saved[s] = caps[s]
  <2>1. caps \in [Slots -> Clients \cup {NoClient}]
    BY <1>typ, Zenon DEF RestType
  <2> HIDE DEF fresh
  <2>2. QED
    BY <1>1, <2>1, Zenon
<1>4. /\ eps \in [ClientIds -> Slots \cup {0}]
      /\ client_new \in ClientIds
      /\ eps[client_new] = fresh
      /\ \A i \in ClientIds \ {client_new} : eps[i] = reply_eps[i]
  <2>1. reply_eps \in [ClientIds -> Slots \cup {0}]
    BY <1>typ, Zenon DEF RestType
  <2>2. client_new \in ClientIds
    BY <1>2 DEF ClientIds
  <2> HIDE DEF fresh
  <2>3. QED
    BY <1>1, <2>1, <2>2, Zenon
<1> HIDE DEF saved, eps, fresh, told, Answered
<1>5. \A i \in 0..client_new :
         /\ i \in ClientIds
         /\ eps[i] = client_num + 1 + i
         /\ client_num + 1 + i \in Slots
         /\ saved[client_num + 1 + i] \in Clients
  <2>1. ASSUME NEW i \in 0..(client_new - 1)
        PROVE  /\ i \in ClientIds \ {client_new}
               /\ client_num + 1 + i \in Slots \ {fresh}
    BY <1>2 DEF ClientIds, Slots
  <2>2. ASSUME NEW i \in 0..(client_new - 1)
        PROVE  /\ i \in ClientIds
               /\ eps[i] = client_num + 1 + i
               /\ client_num + 1 + i \in Slots
               /\ saved[client_num + 1 + i] \in Clients
    BY <1>1, <1>3, <1>4, <2>1, Zenon
  <2>3. client_num + 1 + client_new = fresh
    BY <1>2
  <2>4. \A i \in 0..client_new : i = client_new \/ i \in 0..(client_new - 1)
    BY <1>2
  <2>5. QED
    BY <1>1, <1>3, <1>4, <2>2, <2>3, <2>4, Zenon
<1>6. \A s \in Slots : saved[s] # NoClient =>
         /\ s \in (client_num + 1)..(client_num + client_new + 1)
         /\ saved[s] \in Clients
         /\ req[saved[s]] = "INIT"
         /\ saved[s] \notin Range(ep)
         /\ \A r \in Slots : saved[r] = saved[s] => r = s
  <2>1. caller \notin Range(ep) /\ \A s \in Slots : caps[s] # caller
    BY <1>1, <1>typ, NoClientAssumption, Zenon DEF CapInv, PlaceInv
  <2>2. \A s \in Slots : caps[s] # NoClient =>
           /\ caps[s] \in Clients
           /\ req[caps[s]] = "INIT"
           /\ caps[s] \notin Range(ep)
           /\ \A r \in Slots : caps[r] = caps[s] => r = s
    <3>1. \A s \in Slots : caps[s] # NoClient =>
             caps[s] \in Clients /\ req[caps[s]] \in {"INIT", "PRODUCER", "CONSUMER"}
      BY <1>typ, CapFacts, Zenon
    <3>2. QED
      BY <1>1, <1>typ, <3>1, Zenon DEF CapInv, PlaceInv
  <2>3. fresh \in (client_num + 1)..(client_num + client_new + 1)
    BY <1>2
  <2>4. \A s \in (client_num + 1)..(client_num + client_new) :
           s \in (client_num + 1)..(client_num + client_new + 1)
    BY <1>2
  <2>5. /\ fresh \in Slots /\ saved[fresh] = caller
        /\ caller \in Clients /\ req[caller] = "INIT"
        /\ \A s \in Slots \ {fresh} : saved[s] = caps[s]
    BY <1>1, <1>3, Zenon
  <2>6. \A s \in Slots \ {fresh} : saved[s] # NoClient =>
           s \in (client_num + 1)..(client_num + client_new + 1)
    BY <1>1, <2>4, <2>5, Zenon
  <2>7. QED
    BY <2>1, <2>2, <2>3, <2>5, <2>6
<1>7. /\ \A u \in Threads \ {t} : slot'[u] = slot[u] /\ pc'[u] = pc[u]
      /\ slot'[t] = fresh /\ pc'[t] = "recv"
      /\ slot' \in [Threads -> Slots]
      /\ pc' \in [Threads -> Labels \cup {"recv", "p_lock", "p_loop", "c_lock",
                                          "c_loop", "gone"}]
  <2>1. /\ slot \in [Threads -> Slots]
        /\ pc \in [Threads -> Labels \cup {"recv", "p_lock", "p_loop", "c_lock",
                                           "c_loop", "gone"}]
    BY <1>typ, Zenon DEF RestType
  <2>2. QED
    BY <1>1, <1>mov, <2>1, Zenon
<1>8. SchedInv'
  BY <1>typ, <1>at, <1>mov, <1>unc, MoveSched, Zenon DEF InLoop, PRequest, CRequest
<1>9. SlotsInv'
  <2>1. \A u \in Threads :
          slot[u] = u \/ slot[u] \in (client_num + 1)..(client_num + client_new)
    BY <1>typ, Zenon DEF CapInv, SlotsInv
  <2>2. \A u \in Threads : slot[u] # fresh
    BY <1>2, <2>1 DEF Threads
  <2>3. /\ fresh \in (client_num + 1)..(client_num + client_new')
        /\ \A i \in (client_num + 1)..(client_num + client_new) :
              i \in (client_num + 1)..(client_num + client_new')
    BY <1>2, <1>new
  <2>4. \A u \in Threads :
          slot'[u] = u \/ slot'[u] \in (client_num + 1)..(client_num + client_new')
    BY <1>7, <2>1, <2>3, Zenon
  <2>5. \A u, v \in Threads : slot'[u] = slot'[v] => u = v
    BY <1>typ, <1>7, <2>2 DEF CapInv, SlotsInv
  <2>6. QED
    BY <2>4, <2>5, Zenon DEF SlotsInv
<1>10. \A u \in Threads : pc'[u] \notin Labels /\
                          pc'[u] \notin {"p_lock", "p_loop", "c_lock", "c_loop"}
  <2>1. \A u \in Threads \ {t} : pc[u] \notin Labels
    BY <1>typ, <1>at, HandFacts, Zenon
  <2>2. "recv" \notin Labels
    BY Zenon DEF Labels
  <2>3. QED
    BY <1>1, <1>7, <2>1, <2>2, Zenon
<1>11. client_new' \in 0..client_num
  BY <1>2, <1>new
<1>12. \A c \in Range(ep) : c \in Clients
  <2>1. ep \in Seq(Clients)
    BY <1>typ, Zenon DEF RestType
  <2>2. QED
    BY <2>1, RangeFacts, Zenon
<1>13. CASE client_new + 1 # client_num
  <2>1. told = {} /\ \A c \in Clients : ~ Answered(c)
    BY <1>13, Zenon DEF told, Answered
  <2>2. caps' = saved
    BY <1>cap, <1>3, <2>1, Zenon
  <2>3. req' = req /\ id' = id
    BY <1>typ, <1>ans, <2>1, Zenon DEF RestType
  <2>4. RestType'
    BY <1>typ, <1>unc, <1>eps, <1>3, <1>4, <1>7, <1>11, <2>2, <2>3 DEF RestType
  <2>5. client_new' < client_num /\ client_new' - 1 = client_new /\ client_new' \in Nat
    BY <1>2, <1>new, <1>13
  <2>6. BarrierInv'
    <3>1. \A i \in 0..client_new : /\ reply_eps'[i] = client_num + 1 + i
                                   /\ caps'[client_num + 1 + i] \in Clients
                                   /\ req'[caps'[client_num + 1 + i]] = "INIT"
      BY <1>eps, <1>5, <1>6, <2>2, <2>3, NoClientAssumption, Zenon
    <3>2. client_new' # client_num
      BY <1>2, <2>5
    <3>3. QED
      BY <1>1, <2>3, <2>5, <3>1, <3>2, Zenon DEF BarrierInv
  <2>7. ClientInv'
    BY <1>typ, <1>unc, <2>3, Zenon DEF CapInv, ClientInv
  <2>8. PlaceInv'
    BY <1>typ, <1>unc, <1>6, <1>12, <2>2, <2>3, NoClientAssumption, Zenon
       DEF CapInv, PlaceInv
  <2>9. WorkInv'
    <3>1. \A s \in Slots : saved[s] # NoClient =>
             s \in (client_num + 1)..(client_num + client_new')
      BY <1>2, <1>new, <1>6
    <3>2. QED
      BY <1>6, <1>10, <2>2, <2>3, <2>5, <3>1, Zenon DEF WorkInv
  <2>10. IInv'
    BY InvJoin, <1>typ, <1>unc, <1>8, <1>9, <2>4, <2>6, <2>7, <2>8, <2>9, Zenon
       DEF CapInv
  <2>11. \A c \in Clients : c = caller \/ (\E s \in Slots : caps[s] = c) =>
            \E s \in Slots : caps'[s] = c
    <3>1. fresh \notin (client_num + 1)..(client_num + client_new)
      BY <1>2
    <3>2. \A s \in Slots : caps[s] \in Clients => s # fresh
      BY <1>1, <3>1, NoClientAssumption, Zenon
    <3>3. QED
      BY <1>1, <1>3, <2>2, <3>2, Zenon
  <2>12. client_new' # client_num
    BY <1>2, <2>5
  <2>13. QED
    BY <2>3, <2>10, <2>11, <2>12, Zenon
<1>14. CASE client_new + 1 = client_num
  <2>1. told = ClientIds /\ ClientIds = 0..client_new
    BY <1>2, <1>14 DEF ClientIds, told
  <2>once. ASSUME NEW i \in ClientIds, NEW j \in ClientIds,
                  saved[eps[i]] = saved[eps[j]]
           PROVE  i = j
    <3>1. /\ saved[client_num + 1 + i] = saved[client_num + 1 + j]
          /\ saved[client_num + 1 + i] # NoClient
          /\ client_num + 1 + i \in Slots
          /\ client_num + 1 + j \in Slots
      BY <1>5, <2>1, <2>once, NoClientAssumption, Zenon
    <3>2. client_num + 1 + i = client_num + 1 + j
      BY <1>6, <3>1, Zenon
    <3>3. QED
      BY <1>2, <3>2 DEF ClientIds
  <2>2. \A c \in Clients : \E i \in told : saved[eps[i]] = c
    <3> DEFINE f == [i \in ClientIds |-> saved[eps[i]]]
    <3>1. f \in [ClientIds -> Clients]
      BY <1>5, <2>1, Zenon
    <3>2. \A i, j \in ClientIds : f[i] = f[j] => i = j
      BY <2>once, Zenon
    <3>3. \A c \in Clients : \E i \in ClientIds : f[i] = c
      <4> HIDE DEF f
      <4>1. QED
        BY <3>1, <3>2, AllClients, Zenon
    <3>4. QED
      BY <2>1, <3>3, Zenon
  <2>3. \A s \in Slots : caps'[s] = NoClient
    <3>1. ASSUME NEW s \in Slots, saved[s] # NoClient
          PROVE  \E i \in told : eps[i] = s
      <4>1. s \in (client_num + 1)..(client_num + client_new + 1)
        BY <1>6, <3>1, Zenon
      <4>2. PICK i \in 0..client_new : client_num + 1 + i = s
        <5>1. s - client_num - 1 \in 0..client_new
          BY <1>2, <4>1
        <5>2. client_num + 1 + (s - client_num - 1) = s
          BY <1>2, <4>1
        <5>3. QED
          BY <5>1, <5>2, Zenon
      <4>3. QED
        BY <1>5, <2>1, <4>2, Zenon
    <3>2. QED
      BY <1>cap, <3>1, Zenon
  <2>4. \A c \in Clients : req'[c] = "none" /\ id'[c] \in ClientIds
    BY <1>ans, <2>1, <2>2, Zenon DEF Answered
  <2>5. \A c \in Clients : id'[c] # -1
    <3>1. -1 \notin ClientIds
      BY <1>2 DEF ClientIds
    <3>2. QED
      BY <2>4, <3>1, Zenon
  <2>6. \A c \in Range(ep) : FALSE
    <3>1. \A i \in told : saved[eps[i]] \notin Range(ep)
      BY <1>5, <1>6, <2>1, NoClientAssumption
    <3>2. QED
      BY <1>12, <2>2, <3>1, Zenon
  <2>7. RestType'
    <3>1. req' \in [Clients -> Labels \cup {"none"}]
      BY <1>ans, <2>4, Zenon
    <3>2. id' \in [Clients -> ClientIds \cup {-1}]
      BY <1>ans, <2>4, Zenon
    <3>3. caps' \in [Slots -> Clients \cup {NoClient}]
      BY <1>cap, <2>3, Zenon
    <3>4. QED
      BY <1>typ, <1>unc, <1>eps, <1>4, <1>7, <1>11, <3>1, <3>2, <3>3, Zenon DEF RestType
  <2>8. BarrierInv'
    <3>1. client_new' = client_num
      BY <1>new, <1>14, Zenon
    <3>2. ~ (client_new' < client_num)
      BY <1>2, <3>1
    <3>3. QED
      BY <2>5, <3>2, Zenon DEF BarrierInv
  <2>9. ClientInv'
    <3>1. \A c \in Clients :
             req'[c] \notin Labels /\ req'[c] \notin {"INIT", "PRODUCER", "CONSUMER"}
      BY <2>4, Zenon DEF Labels
    <3>2. QED
      BY <3>1, Zenon DEF ClientInv
  <2>10. PlaceInv'
    BY <1>typ, <1>unc, <2>3, <2>6, Zenon DEF CapInv, PlaceInv
  <2>11. WorkInv'
    BY <1>10, <2>3, Zenon DEF WorkInv
  <2>12. IInv'
    BY InvJoin, <1>typ, <1>unc, <1>8, <1>9, <2>7, <2>8, <2>9, <2>10, <2>11, Zenon
       DEF CapInv
  <2>13. \A c \in Clients : id'[c] \in ClientIds /\ saved[eps[id'[c]]] = c
    BY <1>ans, <2>1, <2>2, Zenon DEF Answered
  <2>14. \A c, d \in Clients : id'[c] = id'[d] => c = d
    BY <2>13, Zenon
  <2>15. \A i \in ClientIds : saved[eps[i]] \in Clients /\ id'[saved[eps[i]]] = i
    <3>1. ASSUME NEW i \in ClientIds, NEW j \in ClientIds,
                 saved[eps[i]] = saved[eps[j]]
          PROVE  i = j
      BY <2>once, <3>1, Zenon
    <3>2. \A i \in ClientIds : saved[eps[i]] \in Clients
      BY <1>5, <2>1, Zenon
    <3>3. QED
      BY <2>13, <3>1, <3>2, Zenon
  <2>16. \A i \in ClientIds : \E c \in Clients : id'[c] = i
    BY <2>15, Zenon
  <2>17. \A c \in Clients : req'[c] = "none"
    BY <2>4, Zenon
  <2>18. QED
    BY <2>12, <2>14, <2>16, <2>17, Zenon
<1>15. QED
  BY <1>13, <1>14, Zenon

\* The initial states.
LEMMA InitInv == Init => IInv
<1> SUFFICES ASSUME Init PROVE IInv
  BY Zenon
<1>1. client_num \in Nat \ {0}
  BY NumFacts, Zenon
<1>2. pool = ThreadInitial(Prims)
  BY Zenon DEF Init
<1> DEFINE wait == [p \in Prims |-> <<>>]
           held == [p \in Prims |-> FALSE]
           helder == [p \in Prims |-> NoHelder]
<1>3. pool = [running |-> MainThread, ready |-> <<>>, wait |-> wait,
              held |-> held, helder |-> helder]
  BY <1>2, Zenon DEF ThreadInitial
<1>4. /\ wait \in [Prims -> Seq(Threads)]
      /\ \A p \in Prims : wait[p] = <<>>
      /\ held \in [Prims -> BOOLEAN]
      /\ \A p \in Prims : ~ held[p]
      /\ helder \in [Prims -> Threads \cup {MainThread, NoHelder}]
      /\ <<>> \in Seq(Threads)
      /\ Range(<<>>) = {} /\ IsInjective(<<>>)
  BY DEF Range, IsInjective
<1> HIDE DEF wait, held, helder
<1>5. pool \in PoolType
  BY <1>3, <1>4, Zenon DEF PoolType
<1>6. RestType
  <2>1. /\ slot \in [Threads -> Slots]
        /\ buffer \in 0..buffer_limit
        /\ client_new \in 0..client_num
        /\ left \in [Clients -> 0..Rounds]
    BY <1>1, LimitAssumption, RoundsAssumption DEF Init, Threads, Slots
  <2>2. ep \in Seq(Clients)
    BY DEF Init
  <2>3. QED
    BY <2>1, <2>2, Zenon DEF Init, RestType
<1>7. /\ "lock_global" \in Prims
      /\ "producer_list" \in Prims
      /\ "consumer_list" \in Prims
  BY Zenon DEF Prims
<1>8. \A p \in Prims : pool.wait[p] = <<>>
  BY <1>3, <1>4, Zenon
<1>9. PoolInv
  BY <1>3, <1>4, <1>7, <1>8, Zenon DEF PoolInv, QueuesInv
<1>10. \A t \in Threads : pc[t] = "recv"
  BY Zenon DEF Init
<1>11. SchedInv
  <2>1. BootInv
    BY <1>2, <1>10, Zenon DEF BootInv
  <2>2. ~ pool.held["lock_global"]
    BY <1>3, <1>4, <1>7, Zenon
  <2>3. LockNeverContended
    BY <1>7, <1>8, <1>10, <2>2, Zenon DEF LockNeverContended, InLoop
  <2>4. NoLostWakeup
    BY <1>7, <1>8, Zenon DEF NoLostWakeup
  <2>5. QED
    BY <1>9, <2>1, <2>3, <2>4, Zenon DEF SchedInv
<1>12. SlotsInv /\ ClientInv
  BY Zenon DEF Init, SlotsInv, ClientInv, Labels
<1>13. BarrierInv
  BY <1>1 DEF Init, BarrierInv
<1>14. PlaceInv /\ WorkInv
  BY <1>4, <1>10, Zenon DEF Init, PlaceInv, WorkInv, Labels
<1>15. QED
  BY <1>5, <1>6, <1>11, <1>12, <1>13, <1>14, InvSplit, Zenon DEF CapInv

\* Every step keeps the inductive invariant.
LEMMA NextInv ==
    ASSUME Counted, IInv, [Next]_vars
    PROVE  IInv'
<1>1. CASE UNCHANGED vars
  <2>1. UNCHANGED <<pool, pc, slot, caps, caller, reply_eps, client_new, buffer,
                    main, ep, req, id, left>>
    BY <1>1, Zenon DEF vars, serverVars, clientVars
  <2>2. SchedInv'
    BY <2>1, InvSplit, IdleSched, Zenon
  <2>3. pool' \in PoolType /\ RestType' /\ CapInv'
    <3>1. pool' \in PoolType /\ RestType'
      BY <2>1, InvSplit, Zenon DEF RestType
    <3>2. SlotsInv' /\ BarrierInv' /\ ClientInv' /\ PlaceInv'
      BY <2>1, InvSplit, Zenon DEF CapInv, SlotsInv, BarrierInv, ClientInv, PlaceInv
    <3>3. WorkInv'
      BY <2>1, InvSplit, Zenon DEF CapInv, WorkInv
    <3>4. QED
      BY <3>1, <3>2, <3>3, Zenon DEF CapInv
  <2>4. QED
    BY <2>2, <2>3, InvJoin, Zenon
<1>2. CASE MainContinued \/ MainEnd
  BY <1>2, MainInv, Zenon
<1>3. ASSUME NEW c \in Clients, Call(c) PROVE IInv'
  BY <1>3, CallInv, Zenon
<1>4. ASSUME NEW t \in Threads, ServerStep(t) PROVE IInv'
  <2>1. CASE Recv(t)
    BY <2>1, RecvInv, Zenon
  <2>2. CASE HandleInit(t)
    BY <2>2, HandleInitInv, Zenon
  <2>3. CASE ProducerSave(t) \/ ConsumerSave(t)
    BY <2>3, SaveInv, Zenon DEF ProducerSave, ConsumerSave
  <2>4. CASE ProducerAcquire(t) \/ ConsumerAcquire(t)
    BY <2>4, AcquireInv, Zenon DEF ProducerAcquire, ConsumerAcquire
  <2>5. CASE ProducerSleep(t) \/ ConsumerSleep(t)
    BY <2>5, SleepInv, Zenon DEF ProducerSleep, ConsumerSleep
  <2>6. CASE ProducerPut(t)
    BY <2>6, PutInv, Zenon
  <2>7. CASE ConsumerTake(t)
    BY <2>7, TakeInv, Zenon
  <2>8. CASE HandleTmnt(t)
    BY <2>8, TmntInv, Zenon
  <2>9. QED
    BY <1>4, <2>1, <2>2, <2>3, <2>4, <2>5, <2>6, <2>7, <2>8, Zenon
       DEF ServerStep, Producer, Consumer
<1>5. CASE Terminated
  BY <1>1, <1>5, Zenon DEF Terminated
<1>6. QED
  BY <1>1, <1>2, <1>3, <1>4, <1>5, Zenon DEF Next, Server

-----------------------------------------------------------------------------
(* No request is forgotten. *)

\* Between two messages the caller slot holds at most a client in its TMNT
\* call.
LEMMA CallerFacts ==
    ASSUME IInv, KeptInv, \A t \in Threads : pool.running = t => pc[t] \notin Labels \ {"TMNT"},
           caller \in Clients
    PROVE  req[caller] = "TMNT"
<1>1. req[caller] \in Labels
  BY InvSplit, NoClientAssumption, Zenon DEF RestType, CapInv, PlaceInv
<1>2. QED
  BY <1>1, Zenon DEF KeptInv, At

\* A call queues its client on the endpoint.
LEMMA CallKept ==
    ASSUME IInv, KeptInv, NEW c \in Clients, Call(c)
    PROVE  KeptInv'
<1>1. /\ req[c] = "none"
      /\ req' = [req EXCEPT ![c] = NextLabel(c)]
      /\ ep' = Append(ep, c)
      /\ UNCHANGED <<pool, pc, caps, caller>>
  BY Zenon DEF Call, serverVars
<1>2. Range(ep') = Range(ep) \cup {c}
  BY <1>1, InvSplit, AppendFacts DEF RestType
<1>3. \A d \in Clients \ {c} : req'[d] = req[d]
  BY <1>1, InvSplit, Zenon DEF RestType
<1>4. caller \in Clients => caller # c
  BY <1>1, InvSplit, NoClientAssumption, Zenon DEF CapInv, PlaceInv
<1>5. QED
  BY <1>1, <1>2, <1>3, <1>4, Zenon DEF KeptInv, At

\* Recv hands over the first client; what it drops is a TMNT.
LEMMA RecvKept ==
    ASSUME IInv, KeptInv, NEW t \in Threads, Recv(t)
    PROVE  KeptInv'
<1>1. /\ pool.running = t
      /\ pc[t] = "recv"
      /\ ep # <<>>
      /\ caller' = Head(ep)
      /\ ep' = Tail(ep)
      /\ pc' = [pc EXCEPT ![t] = req[Head(ep)]]
      /\ UNCHANGED <<pool, caps, req>>
  BY Zenon DEF Recv, At
<1>2. Range(ep) = Range(ep') \cup {caller'}
  BY <1>1, InvSplit, TailFacts, Zenon DEF RestType
<1>3. caller \in Clients => req[caller] = "TMNT"
  BY <1>1, CallerFacts, Zenon DEF Labels
<1>4. pc'[t] = req'[caller']
  BY <1>1, InvSplit, Zenon DEF RestType
<1>5. QED
  BY <1>1, <1>2, <1>3, <1>4, Zenon DEF KeptInv, At

\* INIT saves the caller in the fresh slot, or answers everybody.
LEMMA HandleInitKept ==
    ASSUME Counted, IInv, KeptInv, NEW t \in Threads, HandleInit(t)
    PROVE  KeptInv'
<1>1. /\ \A c \in Clients :
           c = caller \/ (\E s \in Slots : caps[s] = c) =>
             req'[c] = "none" \/ \E s \in Slots : caps'[s] = c
      /\ \A c \in Clients : req'[c] = "none" \/ req'[c] = req[c]
  BY HandleInitInv, Zenon
<1>2. caller' = NoClient /\ UNCHANGED ep
  BY Zenon DEF HandleInit
<1>3. "none" \notin Labels
  BY Zenon DEF Labels
<1>4. QED
  BY <1>1, <1>2, <1>3, NoClientAssumption, Zenon DEF KeptInv

\* PRODUCER and CONSUMER save the caller in the thread's empty slot.
LEMMA SaveKept ==
    ASSUME IInv, KeptInv, NEW t \in Threads, NEW label, NEW next,
           label \in {"PRODUCER", "CONSUMER"},
           SaveRequest(t, label, next)
    PROVE  KeptInv'
<1>1. /\ caps[slot[t]] = NoClient /\ slot[t] \in Slots
      /\ caps' = [caps EXCEPT ![slot[t]] = caller] /\ caller' = NoClient
  BY InvSplit, SaveFacts, Zenon DEF SaveRequest, SaveCaller, At
<1>2. UNCHANGED <<ep, req>>
  BY Zenon DEF SaveRequest, clientVars
<1>3. /\ caps'[slot[t]] = caller
      /\ \A s \in Slots \ {slot[t]} : caps'[s] = caps[s]
  BY <1>1, InvSplit, Zenon DEF RestType
<1>4. QED
  BY <1>1, <1>2, <1>3, NoClientAssumption DEF KeptInv

\* Steps that leave clients and capabilities alone, taken with no message in
\* hand but a TMNT.
LEMMA PoolKept ==
    ASSUME IInv, KeptInv, UNCHANGED <<ep, req, caps, caller>>,
           \A t \in Threads : pool.running = t => pc[t] \notin Labels \ {"TMNT"}
    PROVE  KeptInv'
  BY CallerFacts, Zenon DEF KeptInv

\* The reply is the end of its client's request.
LEMMA FinishKept ==
    ASSUME IInv, KeptInv, NEW t \in Threads, NEW prim, pool.running = t,
           pc[t] \in InLoop, Finish(t, prim)
    PROVE  KeptInv'
<1> DEFINE c == caps[slot[t]]
<1>1. /\ caps' = [caps EXCEPT ![slot[t]] = NoClient]
      /\ req' = [d \in Clients |-> IF d = c THEN "none" ELSE req[d]]
      /\ UNCHANGED <<caller, ep>>
  BY Zenon DEF Finish, Reply
<1>2. /\ slot[t] \in Slots /\ c \in Clients
      /\ req[c] \in {"PRODUCER", "CONSUMER"}
  BY InvSplit, ReplyFacts, Zenon DEF InLoop
<1>3. caller \in Clients => req[caller] = "TMNT"
  BY CallerFacts, Zenon DEF Labels, InLoop
<1>4. \A s \in Slots : caps[s] # c => caps'[s] = caps[s]
  BY <1>1, <1>2, InvSplit, Zenon DEF RestType
<1>5. \A d \in Clients : req'[d] \in Labels => d # c /\ req'[d] = req[d]
  BY <1>1, <1>2, Zenon DEF Labels
<1>6. caller' \in Clients => req'[caller'] = "TMNT"
  BY <1>1, <1>2, <1>3, Zenon
<1>7. ASSUME NEW d \in Clients, req'[d] \in Labels \ {"TMNT"}
      PROVE  d \in Range(ep') \/ d = caller' \/ \E s \in Slots : caps'[s] = d
  <2>1. d # c /\ req[d] \in Labels \ {"TMNT"}
    BY <1>5, <1>7, Zenon
  <2>2. d \in Range(ep) \/ d = caller \/ \E s \in Slots : caps[s] = d
    BY <2>1, Zenon DEF KeptInv
  <2>3. QED
    BY <1>1, <1>4, <2>1, <2>2, Zenon
<1>8. QED
  BY <1>6, <1>7, Zenon DEF KeptInv

\* Every step keeps what NoRequestForgotten rests on.
LEMMA KeptNext ==
    ASSUME Counted, IInv, KeptInv, [Next]_vars
    PROVE  KeptInv'
<1>1. CASE UNCHANGED vars
  BY <1>1, Zenon DEF vars, serverVars, clientVars, KeptInv, At
<1>2. CASE \E c \in Clients : Call(c)
  BY <1>2, CallKept, Zenon
<1>3. CASE Terminated
  BY <1>3, Zenon DEF Terminated, vars, serverVars, clientVars, KeptInv, At
<1>4. CASE MainContinued
  <2>1. \A t \in Threads : pool.running # t
    BY <1>4, InvSplit, NumFacts
       DEF MainContinued, SchedInv, BootInv, ThreadInitial, MainThread, Threads
  <2>2. QED
    BY <1>4, <2>1, PoolKept, Zenon DEF MainContinued, clientVars
<1>5. CASE MainEnd
  BY <1>5, Zenon DEF MainEnd, clientVars, KeptInv, At
<1>6. ASSUME NEW t \in Threads, ServerStep(t)
      PROVE  KeptInv'
  <2>1. CASE Recv(t)
    BY <2>1, RecvKept, Zenon
  <2>2. CASE HandleInit(t)
    BY <2>2, HandleInitKept, Zenon
  <2>3. CASE ProducerSave(t) \/ ConsumerSave(t)
    BY <2>3, SaveKept DEF ProducerSave, ConsumerSave
  <2>4. CASE ProducerAcquire(t) \/ ConsumerAcquire(t)
    BY <2>4, PoolKept, Zenon
       DEF ProducerAcquire, ConsumerAcquire, Acquire, At, clientVars, Labels
  <2>5. CASE ProducerSleep(t) \/ ConsumerSleep(t)
    BY <2>5, PoolKept, Zenon
       DEF ProducerSleep, ConsumerSleep, SleepOn, At, clientVars, Labels
  <2>6. CASE ProducerPut(t) \/ ConsumerTake(t)
    BY <2>6, FinishKept, Zenon DEF ProducerPut, ConsumerTake, At, InLoop
  <2>7. CASE HandleTmnt(t)
    BY <2>7, PoolKept, Zenon DEF HandleTmnt, At, clientVars
  <2>8. QED
    BY <1>6, <2>1, <2>2, <2>3, <2>4, <2>5, <2>6, <2>7, Zenon
       DEF ServerStep, Producer, Consumer
<1>7. QED
  BY <1>1, <1>2, <1>3, <1>4, <1>5, <1>6, Zenon DEF Next, Server

\* A client that is not in a call is nowhere.
LEMMA NonePending ==
    ASSUME IInv, NEW c \in Clients, req[c] = "none"
    PROVE  Pending(c) = {}
<1>1. c \notin Range(ep) /\ c # caller
  BY InvSplit, NoClientAssumption, Zenon DEF CapInv, PlaceInv
<1>2. \A s \in Slots : caps[s] # c
  BY InvSplit, CapFacts, NoClientAssumption, Zenon
<1>3. /\ {i \in DOMAIN ep : ep[i] = c} = {}
      /\ {c} \cap {caller} = {}
      /\ {r \in Slots : caps[r] = c} = {}
  BY <1>1, <1>2, Zenon DEF Range
<1>4. QED
  BY <1>3, Zenon DEF Pending

\* A saved capability is used: by a thread in its handler or by the barrier.
LEMMA CapUsed ==
    ASSUME IInv, NEW c \in Clients, NEW s \in Slots, caps[s] = c
    PROVE  \/ \E t \in Threads :
                /\ slot[t] = s
                /\ \/ req[c] = "PRODUCER" /\ pc[t] \in {"p_lock", "p_loop"}
                   \/ req[c] = "CONSUMER" /\ pc[t] \in {"c_lock", "c_loop"}
           \/ \E i \in ClientIds : reply_eps[i] = s /\ req[c] = "INIT"
<1>1. CASE \E t \in Threads :
              slot[t] = s /\ pc[t] \in {"p_lock", "p_loop", "c_lock", "c_loop"}
  BY <1>1, InvSplit, WorkFacts, Zenon
<1>2. CASE /\ req[c] = "INIT" /\ client_new < client_num
           /\ s \in (client_num + 1)..(client_num + client_new)
  <2>1. client_new \in Nat /\ client_num \in Nat
    BY InvSplit, NumFacts DEF RestType
  <2>2. /\ s - client_num - 1 \in 0..(client_new - 1)
        /\ s - client_num - 1 \in ClientIds
        /\ client_num + 1 + (s - client_num - 1) = s
    BY <1>2, <2>1 DEF ClientIds
  <2>3. reply_eps[s - client_num - 1] = s
    BY <1>2, <2>2, InvSplit, Zenon DEF CapInv, BarrierInv
  <2>4. QED
    BY <1>2, <2>2, <2>3, Zenon
<1>3. QED
  BY <1>1, <1>2, InvSplit, NoClientAssumption, Zenon DEF CapInv, WorkInv

-----------------------------------------------------------------------------
(* The end of the test: every thread is alive until its client's TMNT. *)

\* The pool at a step of thread t.
LEMMA PoolFacts ==
    ASSUME IInv
    PROVE  pool \in PoolType /\ QueuesInv(pool) /\ pool.wait["lock_global"] = <<>>
  BY InvSplit, Zenon DEF SchedInv, PoolInv, LockNeverContended

\* Taking the lock moves nobody.
LEMMA AcquireAlive ==
    ASSUME IInv, NEW t \in Threads, NEW from, NEW next, Acquire(t, from, next),
           from \notin InLoop
    PROVE  Alive(pool') = Alive(pool) /\ pool'.running = t
<1>1. pool.running = t /\ ~ pool.held["lock_global"]
  BY InvSplit, Zenon DEF SchedInv, LockNeverContended, Acquire, At, InLoop
<1>2. pool' = LockTake(pool, "lock_global")
  BY <1>1, Zenon DEF Acquire
<1>3. /\ pool'.running = pool.running
      /\ pool'.ready = pool.ready
      /\ pool'.wait = pool.wait
  BY PoolFacts, <1>2, TakeFacts, Zenon
<1>4. QED
  BY <1>1, <1>3, Zenon DEF Alive

\* Going to sleep moves the running thread to a list, if another is ready.
LEMMA SleepAlive ==
    ASSUME IInv, NEW t \in Threads, NEW from, NEW prim, NEW next,
           prim \in {"producer_list", "consumer_list"},
           SleepOn(t, from, prim, next)
    PROVE  Alive(pool') = Alive(pool) /\ pool'.running \in Threads
<1> DEFINE free == LockRelease(pool, "lock_global")
<1>1. /\ free \in PoolType /\ QueuesInv(free)
      /\ free.running = pool.running
      /\ free.ready = pool.ready
      /\ free.wait = pool.wait
  BY PoolFacts, ReleaseFacts, Zenon
<1>2. pool' = ThreadSleep(free, prim) /\ pool.running = t
  BY Zenon DEF SleepOn, At
<1>3. prim \in Prims
  BY Zenon DEF Prims
<1> HIDE DEF free
<1>4. Alive(free) = Alive(pool)
  BY <1>1, Zenon DEF Alive
<1>5. QED
  BY <1>1, <1>2, <1>3, <1>4, SleepFacts, Zenon

\* Waking somebody moves a sleeper to the ready queue.
LEMMA FinishAlive ==
    ASSUME IInv, NEW prim, prim \in {"producer_list", "consumer_list"},
           NEW t \in Threads, Finish(t, prim)
    PROVE  Alive(pool') = Alive(pool) /\ pool'.running = pool.running
<1> DEFINE woken == ThreadWakeup(pool, prim)
<1>1. prim \in Prims /\ "lock_global" \in Prims \ {prim}
  BY Zenon DEF Prims
<1>2. /\ woken \in PoolType /\ QueuesInv(woken)
      /\ woken.running = pool.running
      /\ woken.wait["lock_global"] = <<>>
      /\ Alive(woken) = Alive(pool)
  <2>1. pool \in PoolType /\ QueuesInv(pool) /\ pool.wait["lock_global"] = <<>>
    BY PoolFacts, Zenon
  <2>2. /\ woken \in PoolType /\ QueuesInv(woken)
        /\ woken.running = pool.running
        /\ \A r \in Prims \ {prim} : woken.wait[r] = pool.wait[r]
        /\ Alive(woken) = Alive(pool)
    BY <1>1, <2>1, WakeupFacts, Zenon
  <2>3. QED
    BY <1>1, <2>1, <2>2, Zenon
<1>3. pool' = LockRelease(woken, "lock_global")
  BY Zenon DEF Finish
<1> HIDE DEF woken
<1>4. /\ pool'.running = woken.running
      /\ pool'.ready = woken.ready
      /\ pool'.wait = woken.wait
  BY <1>2, <1>3, ReleaseFacts, Zenon
<1>5. Alive(pool') = Alive(woken)
  BY <1>4, Zenon DEF Alive
<1>6. QED
  BY <1>2, <1>4, <1>5, Zenon

\* A thread that moves on, without exiting, stays alive.
LEMMA MoveAlive ==
    ASSUME IInv, AliveInv, NEW t \in Threads, NEW next, pool.running = t,
           pc' = [pc EXCEPT ![t] = next], next # "gone",
           Alive(pool') = Alive(pool), main' = main
    PROVE  AliveInv'
<1>1. pool.running \in Alive(pool)
  BY Zenon DEF Alive
<1>2. /\ pc'[t] = next
      /\ \A u \in Threads \ {t} : pc'[u] = pc[u]
  BY InvSplit, Zenon DEF RestType
<1>3. QED
  BY <1>1, <1>2, Zenon DEF AliveInv

\* Every step keeps AliveInv: sleeping, waking and locking only move threads
\* between the queues.
LEMMA AliveNext ==
    ASSUME IInv, AliveInv, [Next]_vars
    PROVE  AliveInv'
<1>1. CASE UNCHANGED <<pool, pc>> /\ (main = "boot" => main' = "boot")
  BY <1>1, Zenon DEF AliveInv
<1>2. CASE MainContinued
  <2>1. \A t \in Threads : pc[t] = "recv"
    BY <1>2, InvSplit, Zenon DEF MainContinued, SchedInv, BootInv
  <2>2. \A t \in Threads : t \in Alive(pool')
    BY <1>2, BootFacts, Zenon DEF MainContinued
  <2>3. QED
    BY <1>2, <2>1, <2>2, Zenon DEF MainContinued, AliveInv
<1>3. ASSUME NEW t \in Threads, ServerStep(t)
      PROVE  AliveInv'
  <2>1. pool.running = t
    BY <1>3, Zenon DEF ServerStep, Recv, HandleInit, Producer, Consumer, HandleTmnt,
                ProducerSave, ProducerAcquire, ProducerSleep, ProducerPut,
                ConsumerSave, ConsumerAcquire, ConsumerSleep, ConsumerTake,
                SaveRequest, Acquire, SleepOn, At
  <2>2. CASE Recv(t)
    <3>1. Head(ep) \in Clients
      BY <2>2, InvSplit, TailFacts, Zenon DEF Recv, RestType
    <3>2. req[Head(ep)] # "gone"
      BY <3>1, InvSplit, Zenon DEF RestType, Labels
    <3>3. QED
      BY <2>1, <2>2, <3>2, MoveAlive, Zenon DEF Recv
  <2>3. CASE HandleInit(t)
    BY <2>1, <2>3, MoveAlive, Zenon DEF HandleInit
  <2>4. CASE ProducerSave(t) \/ ConsumerSave(t)
    BY <2>1, <2>4, MoveAlive, Zenon DEF ProducerSave, ConsumerSave, SaveRequest
  <2>5. ASSUME NEW from, NEW next, Acquire(t, from, next), from \notin InLoop,
               next # "gone"
        PROVE  AliveInv'
    <3>1. Alive(pool') = Alive(pool) /\ UNCHANGED main
      BY <2>5, AcquireAlive, Zenon DEF Acquire
    <3>2. pc' = [pc EXCEPT ![t] = next] \/ UNCHANGED pc
      BY <2>5, Zenon DEF Acquire
    <3>3. QED
      BY <2>1, <2>5, <3>1, <3>2, MoveAlive, Zenon DEF AliveInv
  <2>6. CASE ProducerSleep(t)
    <3>1. Alive(pool') = Alive(pool)
      BY <2>6, SleepAlive DEF ProducerSleep
    <3>2. QED
      BY <2>1, <2>6, <3>1, MoveAlive, Zenon DEF ProducerSleep, SleepOn
  <2>7. CASE ConsumerSleep(t)
    <3>1. Alive(pool') = Alive(pool)
      BY <2>7, SleepAlive DEF ConsumerSleep
    <3>2. QED
      BY <2>1, <2>7, <3>1, MoveAlive, Zenon DEF ConsumerSleep, SleepOn
  <2>8. ASSUME NEW prim, prim \in {"producer_list", "consumer_list"}, Finish(t, prim)
        PROVE  AliveInv'
    <3>1. Alive(pool') = Alive(pool)
      BY <2>8, FinishAlive, Zenon
    <3>2. QED
      BY <2>1, <2>8, <3>1, MoveAlive, Zenon DEF Finish
  <2>9. CASE HandleTmnt(t)
    <3>1. \A u \in Threads : u \in Alive(pool') <=> u \in Alive(pool) /\ u # t
      BY <2>1, <2>9, InvSplit, ExitFacts, Zenon DEF HandleTmnt, SchedInv, PoolInv
    <3>2. /\ pc'[t] = "gone"
          /\ \A u \in Threads \ {t} : pc'[u] = pc[u]
      BY <2>9, InvSplit, Zenon DEF RestType, HandleTmnt
    <3>3. QED
      BY <2>9, <3>1, <3>2, Zenon DEF AliveInv, HandleTmnt
  <2>10. QED
    <3>1. ProducerAcquire(t) \/ ConsumerAcquire(t) => AliveInv'
      BY <2>5, Zenon DEF ProducerAcquire, ConsumerAcquire, InLoop
    <3>2. ProducerPut(t) \/ ConsumerTake(t) => AliveInv'
      BY <2>8, Zenon DEF ProducerPut, ConsumerTake
    <3>3. QED
      BY <1>3, <2>2, <2>3, <2>4, <2>6, <2>7, <2>9, <3>1, <3>2, Zenon
         DEF ServerStep, Producer, Consumer
<1>4. QED
  <2>1. CASE UNCHANGED vars \/ Terminated \/ MainEnd \/ \E c \in Clients : Call(c)
    BY <1>1, <2>1, Zenon DEF vars, serverVars, Terminated, MainEnd, Call
  <2>2. QED
    BY <1>2, <1>3, <2>1, Zenon DEF Next, Server

-----------------------------------------------------------------------------
(* The end of the test: clients play the roles of their ids. *)

\* Every step keeps RoleInv.
LEMMA RoleNext ==
    ASSUME Counted, IInv, RoleInv, [Next]_vars
    PROVE  RoleInv'
<1>1. CASE UNCHANGED <<client_new, id, req, left>>
  BY <1>1, Zenon DEF RoleInv
<1>2. ASSUME NEW c \in Clients, Call(c)
      PROVE  RoleInv'
  <2>1. /\ req' = [req EXCEPT ![c] = NextLabel(c)]
        /\ UNCHANGED <<client_new, id, left>>
    BY <1>2, Zenon DEF Call, serverVars
  <2>2. /\ req'[c] = NextLabel(c)
        /\ \A d \in Clients \ {c} : req'[d] = req[d]
    BY <2>1, InvSplit, Zenon DEF RestType
  <2>3. id[c] \in Int /\ id[c] % 2 \in {0, 1}
    BY InvSplit, NumFacts DEF RestType, ClientIds
  <2>4. /\ NextLabel(c) = "TMNT" => left[c] = 0
        /\ NextLabel(c) = "PRODUCER" => id[c] % 2 = 1
        /\ NextLabel(c) = "CONSUMER" => id[c] % 2 = 0
    <3>1. CASE id[c] = -1
      BY <3>1, Zenon DEF NextLabel
    <3>2. CASE id[c] # -1 /\ left[c] = 0
      BY <3>2, Zenon DEF NextLabel
    <3>3. CASE id[c] # -1 /\ left[c] # 0 /\ id[c] % 2 = 1
      BY <2>3, <3>3, Zenon DEF NextLabel
    <3>4. CASE id[c] # -1 /\ left[c] # 0 /\ id[c] % 2 = 0
      BY <2>3, <3>4, Zenon DEF NextLabel
    <3>5. QED
      BY <2>3, <3>1, <3>2, <3>3, <3>4, Zenon
  <2>5. QED
    BY <2>1, <2>2, <2>4 DEF RoleInv
<1>3. ASSUME NEW t \in Threads, HandleInit(t)
      PROVE  RoleInv'
  <2>1. \A c \in Clients : id[c] = -1 /\ req[c] \in {"INIT", "none"}
    BY <1>3, InvSplit, InitFacts, Zenon DEF HandleInit, At
  <2>2. /\ \A c \in Clients : req'[c] = "none" \/ req'[c] = req[c]
        /\ client_new' = client_num =>
             /\ \A c, d \in Clients : id'[c] = id'[d] => c = d
             /\ \A i \in ClientIds : \E c \in Clients : id'[c] = i
    BY <1>3, HandleInitInv, Zenon
  <2>3. left' = left
    BY <1>3, Zenon DEF HandleInit
  <2>4. \A c \in Clients :
           left'[c] = Rounds /\ req'[c] \notin {"TMNT", "PRODUCER", "CONSUMER"}
    BY <2>1, <2>2, <2>3, Zenon DEF RoleInv
  <2>5. QED
    BY <2>2, <2>4, Zenon DEF RoleInv
<1>4. ASSUME NEW t \in Threads, pc[t] \in InLoop, NEW prim, Finish(t, prim)
      PROVE  RoleInv'
  <2> DEFINE c == caps[slot[t]]
  <2>1. /\ req' = [d \in Clients |-> IF d = c THEN "none" ELSE req[d]]
        /\ left' = [d \in Clients |-> IF d = c THEN left[d] - 1 ELSE left[d]]
        /\ UNCHANGED <<client_new, id>>
    BY <1>4, Zenon DEF Finish, Reply
  <2>2. c \in Clients /\ req[c] \in {"PRODUCER", "CONSUMER"}
    BY <1>4, InvSplit, ReplyFacts, Zenon DEF InLoop
  <2>3. id[c] # -1
    BY <2>2, InvSplit, Zenon DEF CapInv, ClientInv, Labels
  <2> HIDE DEF c
  <2>4. /\ req'[c] = "none"
        /\ \A d \in Clients \ {c} : req'[d] = req[d] /\ left'[d] = left[d]
    BY <2>1, <2>2, Zenon
  <2>5. QED
    BY <2>1, <2>3, <2>4, Zenon DEF RoleInv
<1>5. CASE UNCHANGED vars \/ Terminated \/ MainEnd \/ MainContinued
  BY <1>1, <1>5, Zenon
     DEF vars, serverVars, clientVars, Terminated, MainEnd, MainContinued
<1>6. ASSUME NEW t \in Threads, ServerStep(t)
      PROVE  RoleInv'
  <2>1. CASE HandleInit(t)
    BY <1>3, <2>1, Zenon
  <2>2. CASE ProducerPut(t) \/ ConsumerTake(t)
    BY <1>4, <2>2, Zenon DEF ProducerPut, ConsumerTake, At, InLoop
  <2>3. CASE ~ HandleInit(t) /\ ~ ProducerPut(t) /\ ~ ConsumerTake(t)
    <3>1. UNCHANGED <<client_new, id, req, left>>
      BY <1>6, <2>3, Zenon
         DEF ServerStep, Producer, Consumer, Recv, HandleTmnt, clientVars,
             ProducerSave, ConsumerSave, SaveRequest, ProducerAcquire,
             ConsumerAcquire, Acquire, ProducerSleep, ConsumerSleep, SleepOn
    <3>2. QED
      BY <1>1, <3>1, Zenon
  <2>4. QED
    BY <2>1, <2>2, <2>3, Zenon
<1>7. QED
  BY <1>2, <1>5, <1>6, Zenon DEF Next, Server

\* EndInv is an invariant.
LEMMA InitEnd == Init => EndInv
<1> SUFFICES ASSUME Init PROVE EndInv
  BY Zenon
<1>1. /\ main = "boot" /\ client_new = 0 /\ buffer = 0
      /\ \A t \in Threads : pc[t] = "recv"
      /\ \A c \in Clients : req[c] = "none" /\ id[c] = -1 /\ left[c] = Rounds
  BY Zenon DEF Init
<1>2. client_num \in Nat \ {0}
  BY NumFacts, Zenon
<1>3. AliveInv
  BY <1>1, Zenon DEF AliveInv
<1>4. Left = {} /\ Leaving = {}
  BY <1>1, Zenon DEF Left, Leaving
<1>5. LeaveInv
  BY <1>4, Zenon DEF LeaveInv
<1>6. RoleInv
  BY <1>1, <1>2, Zenon DEF RoleInv
<1>7. BalanceInv
  BY <1>1, <1>2, Zenon DEF BalanceInv
<1>8. QED
  BY <1>3, <1>5, <1>6, <1>7, Zenon DEF EndInv

\* The running thread goes on running until it sleeps or exits, and a sleep
\* hands over to a thread.
LEMMA StillRunning ==
    ASSUME IInv, NEW t \in Threads, ServerStep(t), ~ HandleTmnt(t)
    PROVE  pool'.running \in Threads
<1>1. CASE Recv(t) \/ HandleInit(t) \/ ProducerSave(t) \/ ConsumerSave(t)
  BY <1>1, Zenon DEF Recv, HandleInit, ProducerSave, ConsumerSave, SaveRequest, At
<1>2. CASE ProducerAcquire(t) \/ ConsumerAcquire(t)
  BY <1>2, AcquireAlive, Zenon DEF ProducerAcquire, ConsumerAcquire, InLoop
<1>3. CASE ProducerSleep(t) \/ ConsumerSleep(t)
  BY <1>3, SleepAlive DEF ProducerSleep, ConsumerSleep
<1>4. CASE ProducerPut(t) \/ ConsumerTake(t)
  BY <1>4, FinishAlive, Zenon DEF ProducerPut, ConsumerTake, At
<1>5. QED
  BY <1>1, <1>2, <1>3, <1>4, Zenon DEF ServerStep, Producer, Consumer

-----------------------------------------------------------------------------
(* The bounded buffer. *)

\* The abstract requests, as the refinement mapping in GreenServer.
Asked == [c \in Clients |-> IF req[c] \in {"PRODUCER", "CONSUMER"}
                            THEN req[c] ELSE "none"]

\* Storing or taking an item is the step that answers its own client.
LEMMA ReplyStep ==
    ASSUME IInv, NEW t \in Threads, NEW prim, pc[t] \in InLoop, Finish(t, prim)
    PROVE  /\ caps[slot[t]] \in Clients
           /\ pc[t] = "p_loop" => Asked[caps[slot[t]]] = "PRODUCER"
           /\ pc[t] = "c_loop" => Asked[caps[slot[t]]] = "CONSUMER"
           /\ Asked' = [Asked EXCEPT ![caps[slot[t]]] = "none"]
<1>1. /\ caps[slot[t]] \in Clients
      /\ pc[t] = "p_loop" => req[caps[slot[t]]] = "PRODUCER"
      /\ pc[t] = "c_loop" => req[caps[slot[t]]] = "CONSUMER"
  BY InvSplit, ReplyFacts, Zenon
<1>2. req' = [c \in Clients |-> IF c = caps[slot[t]] THEN "none" ELSE req[c]]
  BY Zenon DEF Finish, Reply
<1>3. QED
  BY <1>1, <1>2, Zenon DEF Asked

\* Every step of the server or a client is a step of the buffer or leaves it
\* alone.
LEMMA BufferStep ==
    ASSUME IInv, [Next]_vars
    PROVE  [Buffer!Next]_<<buffer, Asked>>
<1> USE DEF Buffer!Next, Buffer!Ask, Buffer!Produce, Buffer!Consume,
            Buffer!Request
<1>1. ASSUME buffer' = buffer, req' = req
      PROVE  UNCHANGED <<buffer, Asked>>
  BY <1>1, Zenon DEF Asked
<1>2. CASE UNCHANGED vars \/ Terminated
  BY <1>1, <1>2, Zenon DEF Terminated, vars, serverVars, clientVars
<1>3. CASE MainContinued \/ MainEnd
  BY <1>1, <1>3, Zenon DEF MainContinued, MainEnd, clientVars
<1>4. ASSUME NEW c \in Clients, Call(c)
      PROVE  [Buffer!Next]_<<buffer, Asked>>
  <2>1. /\ req[c] = "none"
        /\ req' = [req EXCEPT ![c] = NextLabel(c)]
        /\ buffer' = buffer
        /\ req \in [Clients -> Labels \cup {"none"}]
    BY <1>4, InvSplit, Zenon DEF Call, serverVars, RestType
  <2>2. CASE NextLabel(c) \in {"PRODUCER", "CONSUMER"}
    <3>1. Asked[c] = "none" /\ Asked' = [Asked EXCEPT ![c] = NextLabel(c)]
      BY <2>1, <2>2, Zenon DEF Asked
    <3>2. QED
      BY <2>1, <2>2, <3>1, Zenon DEF Asked
  <2>3. CASE NextLabel(c) \notin {"PRODUCER", "CONSUMER"}
    BY <2>1, <2>3, Zenon DEF Asked
  <2>4. QED
    BY <2>2, <2>3, Zenon
<1>5. ASSUME NEW t \in Threads, ServerStep(t)
      PROVE  [Buffer!Next]_<<buffer, Asked>>
  <2>1. buffer \in 0..buffer_limit /\ buffer_limit \in Nat
    BY InvSplit, LimitAssumption, Zenon DEF RestType
  <2>2. CASE Recv(t)
    BY <1>1, <2>2, Zenon DEF Recv
  <2>3. CASE HandleInit(t)
    <3>1. \A c \in Clients : req[c] \in {"INIT", "none"}
      BY <2>3, InvSplit, InitFacts, Zenon DEF HandleInit, At
    <3>2. /\ buffer' = buffer
          /\ \A c \in Clients : req'[c] \in {"none", req[c]}
      BY <2>3, Zenon DEF HandleInit
    <3>3. QED
      BY <3>1, <3>2, Zenon DEF Asked
  <2>4. CASE ProducerSave(t) \/ ConsumerSave(t)
    BY <1>1, <2>4, Zenon DEF ProducerSave, ConsumerSave, SaveRequest, clientVars
  <2>5. CASE ProducerAcquire(t) \/ ConsumerAcquire(t)
    BY <1>1, <2>5, Zenon DEF ProducerAcquire, ConsumerAcquire, Acquire, clientVars
  <2>6. CASE ProducerSleep(t) \/ ConsumerSleep(t)
    BY <1>1, <2>6, Zenon DEF ProducerSleep, ConsumerSleep, SleepOn, clientVars
  <2>7. CASE ProducerPut(t)
    <3>1. /\ pc[t] = "p_loop" /\ pc[t] \in InLoop
          /\ buffer < buffer_limit /\ buffer' = buffer + 1
          /\ Finish(t, "consumer_list")
      BY <2>1, <2>7 DEF ProducerPut, At, InLoop
    <3>2. QED
      BY <3>1, ReplyStep, Zenon DEF Asked
  <2>8. CASE ConsumerTake(t)
    <3>1. /\ pc[t] = "c_loop" /\ pc[t] \in InLoop
          /\ buffer > 0 /\ buffer' = buffer - 1
          /\ Finish(t, "producer_list")
      BY <2>1, <2>8 DEF ConsumerTake, At, InLoop
    <3>2. QED
      BY <3>1, ReplyStep, Zenon DEF Asked
  <2>9. CASE HandleTmnt(t)
    BY <1>1, <2>9, Zenon DEF HandleTmnt, clientVars
  <2>10. QED
    BY <1>5, <2>2, <2>3, <2>4, <2>5, <2>6, <2>7, <2>8, <2>9, Zenon
       DEF ServerStep, Producer, Consumer
<1>6. QED
  BY <1>2, <1>3, <1>4, <1>5, Zenon DEF Next, Server
=============================================================================
