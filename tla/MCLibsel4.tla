----------------------------- MODULE MCLibsel4 -----------------------------
(* Bounded instances for TLC of what libsel4 and the kernel exchange: a      *)
(* behaviour is one of invocations, of messages or of packed structures,     *)
(* chosen at the start.                                                      *)
EXTENDS Invocations

CONSTANTS Lengths, Pointers, MaxMessages, MaxSets

VARIABLES
    part,   \* "invocations", "messages" or "bitfields"; never changes
    buf, local, regs, call, frame, fault, info, sent, count,    \* of Messages
    type, words, given, aborted, sets                           \* of Bitfields

mVars == <<buf, local, regs, call, frame, fault, info, sent, count>>
bVars == <<type, words, given, aborted, sets>>

M == INSTANCE Messages
B == INSTANCE Bitfields

LibInit ==
    /\ part \in {"invocations", "messages", "bitfields"}
    /\ Init /\ M!Init /\ B!Init

LibNext ==
    /\ \/ part = "invocations" /\ Next /\ UNCHANGED <<mVars, bVars>>
       \/ part = "messages" /\ M!Next /\ UNCHANGED <<vars, bVars>>
       \/ part = "bitfields" /\ B!Next /\ UNCHANGED <<vars, mVars>>
    /\ UNCHANGED part

LibSpec == LibInit /\ [][LibNext]_<<part, vars, mVars, bVars>>

\* The properties of Messages and Bitfields: the layouts of faults, the words
\* of messages in registers and buffers, and the fields of structures.
FaultReported == M!FaultReported
MessageArrives == M!MessageArrives
FieldsKept == B!FieldsKept
=============================================================================
