---------------------------- MODULE GreenThreads ----------------------------
(***************************************************************************)
(* The cooperative green-thread library that main.c links against          *)
(* (thread_lib and sync_prim).  Its C files are not part of the            *)
(* repository: the operators below say what main.c relies on, one operator *)
(* per library call.                                                       *)
(*                                                                         *)
(* All green threads share one kernel thread, so a library call is atomic. *)
(* A call maps the thread pool before it to the thread pool after it:      *)
(*   running  the thread that owns the processor (0 is the main thread),   *)
(*   ready    the ready queue, first to run first,                         *)
(*   wait     for each synchronisation primitive, its queue of sleepers,   *)
(*   held     for each primitive, whether it is taken as a lock,           *)
(*   helder   for each primitive, the thread that took it, or NoHelder.    *)
(* The counters ready_num and num are the lengths of what is here;         *)
(* waiting_num and the join lists are not read by the calls below.         *)
(***************************************************************************)
EXTENDS Integers, Sequences

MainThread == 0
NoHelder == -1

\* thread_initial and thread_lock_create: only the main thread exists and
\* runs, and every primitive is free.
ThreadInitial(prims) ==
    [running |-> MainThread,
     ready   |-> <<>>,
     wait    |-> [p \in prims |-> <<>>],
     held    |-> [p \in prims |-> FALSE],
     helder  |-> [p \in prims |-> NoHelder]]

\* thread_resume, called by the main thread: t leaves the ready queue and
\* runs.  The main thread is never put in the ready queue.
MainResume(pool, t) ==
    LET place == CHOOSE i \in DOMAIN pool.ready : pool.ready[i] = t
    IN  [pool EXCEPT !.running = t,
                     !.ready = [i \in 1..(Len(@) - 1) |->
                                  IF i < place THEN @[i] ELSE @[i + 1]]]

\* thread_sleep: with no ready thread the call returns at once; otherwise
\* the caller queues on prim and the first ready thread runs.
ThreadSleep(pool, prim) ==
    IF pool.ready = <<>>
    THEN pool
    ELSE [pool EXCEPT !.running    = Head(pool.ready),
                      !.ready      = Tail(@),
                      !.wait[prim] = Append(@, pool.running)]

\* thread_wakeup: the first sleeper of prim, if any, becomes ready; the
\* caller keeps the processor.
ThreadWakeup(pool, prim) ==
    IF pool.wait[prim] = <<>>
    THEN pool
    ELSE [pool EXCEPT !.ready      = Append(@, Head(pool.wait[prim])),
                      !.wait[prim] = Tail(@)]

\* thread_exit: the caller is gone and the first ready thread runs, or the
\* main thread when none is ready.
ThreadExit(pool) ==
    IF pool.ready = <<>>
    THEN [pool EXCEPT !.running = MainThread]
    ELSE [pool EXCEPT !.running = Head(pool.ready), !.ready = Tail(@)]

\* thread_lock_acquire once the lock is seen free (the call sleeps on the
\* lock while it is held).
LockTake(pool, lock) ==
    [pool EXCEPT !.held[lock] = TRUE, !.helder[lock] = pool.running]

\* thread_lock_release: the lock is free and its first sleeper is woken.
LockRelease(pool, lock) ==
    ThreadWakeup([pool EXCEPT !.held[lock] = FALSE, !.helder[lock] = NoHelder],
                 lock)

\* thread_wakeup_wait: the first sleeper of prim, if any, gets the processor
\* at once and the caller takes its place at the tail of the queue.
ThreadWakeupWait(pool, prim) ==
    IF pool.wait[prim] = <<>>
    THEN pool
    ELSE [pool EXCEPT !.running    = Head(pool.wait[prim]),
                      !.wait[prim] = Append(Tail(@), pool.running)]

\* thread_lock_release_acquire: the lock is freed and the caller changes
\* places with its first sleeper.  Nothing is done when the caller runs again:
\* in spite of the name, the call returns without taking the lock.
LockReleaseAcquire(pool, lock) ==
    ThreadWakeupWait([pool EXCEPT !.held[lock] = FALSE,
                                  !.helder[lock] = NoHelder], lock)

\* thread_semaphore_P and thread_semaphore_V are thread_sleep while the count
\* is 0, then a decrement; and an increment, then thread_wakeup.

=============================================================================
