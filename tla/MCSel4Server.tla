---------------------------- MODULE MCSel4Server ----------------------------
(* Bounded instances of Sel4Server for TLC. *)
EXTENDS Sel4Server, TLC

\* Threads are interchangeable; clients get their ids in the order of their
\* INIT calls and play no other part.
Symmetry == Permutations(Clients) \cup Permutations(Threads)

\* A state the barrier leads to: every client has been answered and has not
\* called again, every thread is back in Recv.
InitOpen ==
    /\ pc = [t \in Threads |-> "recv"]
    /\ label = [t \in Threads |-> "none"]
    /\ i = [t \in Threads |-> 0]
    /\ caller = [t \in Threads |-> NoClient]
    /\ saved = [t \in Threads |-> NoClient]
    /\ reply_eps = [k \in ClientIds |-> NoClient]
    /\ client_new = client_num
    /\ value = 1
    /\ ntfn = [p \in Prims |-> NtfnIdle]
    /\ buffer = 0
    /\ terminate_num = 0
    /\ loaded = [t \in Threads |-> 0]
    /\ ep = <<>>
    /\ req = [c \in Clients |-> "none"]
    /\ id \in Injection(Clients, ClientIds)
    /\ left = [c \in Clients |-> Rounds]

OpenSpec == InitOpen /\ [][Next]_vars

=============================================================================
