----------------------------- MODULE Bitfields -----------------------------
(***************************************************************************)
(* A structure is made and its fields are set, one after the other.  The   *)
(* record given keeps what the caller passed last for each field, as a     *)
(* structure without packing would.                                        *)
(***************************************************************************)
EXTENDS Layouts

CONSTANT MaxSets    \* bound on the calls of set functions

VARIABLES
    type,       \* the structure, or NoStruct before it is made
    words,      \* its contents
    given,      \* the values the caller passed
    aborted,    \* an assertion has failed
    sets

vars == <<type, words, given, aborted, sets>>

Structs ==
    {seL4_PrioProps, seL4_MessageInfo, seL4_CapRights, seL4_CapData_Badge,
     seL4_CapData_Guard, seL4_Fault_NullFault, seL4_Fault_CapFault,
     seL4_Fault_UnknownSyscall, seL4_Fault_UserException, seL4_Fault_VMFault}
NoStruct == Struct(0, FALSE, <<>>)

\* Values that reach the edges of a field, and beyond them.
Values(width) ==
    {{}, {0}, Low(width), {b \in Low(width) : b % 2 = 1}}
      \cup {{b} \cap Bits : b \in {width - 1, width, 31}}

Init ==
    /\ type = NoStruct /\ words = <<>> /\ given = <<>>
    /\ aborted = FALSE /\ sets = 0

\* A new structure: every field at the same kind of value.
New(t) ==
    /\ type = NoStruct
    /\ \E full \in {{}, DOMAIN t.fields}, wide \in {{}} \cup {{f} : f \in DOMAIN t.fields} :
         LET v == [f \in DOMAIN t.fields |->
                     IF f \in wide THEN Bits
                     ELSE IF f \in full THEN Low(t.fields[f].width) ELSE {}]
         IN  given' = v /\ words' = new(t, v) /\ aborted' = ~ newAsserts(t, v)
    /\ type' = t
    /\ UNCHANGED sets

Set(f) ==
    /\ ~ aborted /\ sets < MaxSets
    /\ \E v \in Values(type.fields[f].width) :
         /\ given' = [given EXCEPT ![f] = v]
         /\ words' = set(type, words, f, v)
         /\ aborted' = ~ setAsserts(type, f, v)
    /\ sets' = sets + 1
    /\ UNCHANGED type

Next ==
    \/ \E t \in Structs : New(t)
    \/ \E f \in DOMAIN type.fields : Set(f)

Spec == Init /\ [][Next]_vars

-----------------------------------------------------------------------------
Fits(f) == given[f] \subseteq Low(type.fields[f].width)

\* Whatever was set before, and in which order, a get function returns the
\* value of its field that was passed last: no function disturbs a
\* neighbouring field, not even one that is passed bits its field does not
\* have.  Nor does one disturb the tag of a union, so that the assertions on
\* the tag in the get and set functions never fail.
FieldsKept ==
    /\ \A f \in DOMAIN type.fields : Fits(f) => get(type, words, f) = given[f]
    /\ type.tag # <<>> => get_tag(type, words) = type.tag[2]

\* "fail if user has passed bits that we will override": a function that is
\* passed a value its field cannot hold ends in the failed assertion.
OverriddenBitsFail == (\E f \in DOMAIN type.fields : ~ Fits(f)) => aborted
=============================================================================
