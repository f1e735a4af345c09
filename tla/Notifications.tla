---------------------------- MODULE Notifications ----------------------------
(***************************************************************************)
(* Kernel notification objects as seL4_Signal and seL4_Wait change them.   *)
(* A notification holds one bit, so signals that nobody waits for merge,   *)
(* and a FIFO queue of blocked threads.  A thread that has waited goes on  *)
(* when it is no longer in the queue.  No notification of the server is    *)
(* bound to a thread, so the bound cases of the kernel do not arise.       *)
(***************************************************************************)
EXTENDS Naturals, Sequences, FiniteSets

CONSTANT Threads    \* the threads that signal and wait

ASSUME ThreadsAssumption == IsFiniteSet(Threads)

\* A new notification object.
NtfnIdle == [active |-> FALSE, queue |-> <<>>]

\* sendSignal: wakes the first waiter, or sets the bit.
SendSignal(n) ==
    IF n.queue # <<>> THEN [n EXCEPT !.queue = Tail(@)]
                      ELSE [n EXCEPT !.active = TRUE]

\* receiveSignal (blocking): takes the bit, or queues thread t.
ReceiveSignal(n, t) ==
    IF n.active THEN [n EXCEPT !.active = FALSE]
                ELSE [n EXCEPT !.queue = Append(@, t)]

=============================================================================
