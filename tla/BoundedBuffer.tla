---------------------------- MODULE BoundedBuffer ----------------------------
(***************************************************************************)
(* What the producer/consumer server promises its clients: a counter that  *)
(* stays between 0 and buffer_limit, and requests that are each answered   *)
(* at most once, in the same step as the change of the counter they ask    *)
(* for.                                                                    *)
(***************************************************************************)
EXTENDS Naturals

CONSTANTS Clients, buffer_limit

VARIABLES
    buffer,  \* the number of items in the buffer
    asked    \* for each client, the buffer request it waits for, or "none"

Request == {"PRODUCER", "CONSUMER"}

Init == buffer = 0 /\ asked = [c \in Clients |-> "none"]

Ask(c, r) ==
    /\ asked[c] = "none"
    /\ asked' = [asked EXCEPT ![c] = r]
    /\ UNCHANGED buffer

\* An item of client c is stored and the client is answered.
Produce(c) ==
    /\ asked[c] = "PRODUCER"
    /\ buffer < buffer_limit
    /\ buffer' = buffer + 1
    /\ asked' = [asked EXCEPT ![c] = "none"]

\* An item is taken for client c and the client is answered.
Consume(c) ==
    /\ asked[c] = "CONSUMER"
    /\ buffer > 0
    /\ buffer' = buffer - 1
    /\ asked' = [asked EXCEPT ![c] = "none"]

Next == \E c \in Clients :
            \/ \E r \in Request : Ask(c, r)
            \/ Produce(c)
            \/ Consume(c)

Spec == Init /\ [][Next]_<<buffer, asked>>

=============================================================================
