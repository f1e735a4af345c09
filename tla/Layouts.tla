------------------------------ MODULE Layouts ------------------------------
(***************************************************************************)
(* The bit fields that libsel4 and the kernel exchange, as the generated   *)
(* headers pack them.  A word is the set of its bits that are one, so a    *)
(* shift moves the elements of a set and a mask is an intersection.  The   *)
(* get and set functions on a structure and on a pointer to one do the     *)
(* same, and are modelled once.                                            *)
(***************************************************************************)
EXTENDS Naturals, Sequences

Bits == 0..31
Low(width) == 0..(width - 1)
BitsOf(n) == {b \in 0..2 : (n \div 2^b) % 2 = 1}

\* A field: the word it is in, its shift and its width.
Field(word, shift, width) == [word |-> word, shift |-> shift, width |-> width]
Mask(f) == f.shift..(f.shift + f.width - 1)

\* A structure: its length in words, its fields, and for a member of a tagged
\* union the field that holds the tag and its value.  The headers that two
\* generators wrote differ in one point: whether the masks in the assertions
\* of the set functions are signed.
Struct(words, signed, fields) ==
    [words |-> words, signed |-> signed, fields |-> fields, tag |-> <<>>]
Member(words, tag, value, fields) ==
    [words |-> words, signed |-> FALSE, fields |-> fields,
     tag |-> <<tag, BitsOf(value)>>]

-----------------------------------------------------------------------------
(* shared_types_gen.h *)

seL4_PrioProps ==
    Struct(1, TRUE, [mcp |-> Field(0, 8, 8), prio |-> Field(0, 0, 8)])
seL4_MessageInfo ==
    Struct(1, TRUE,
           [label |-> Field(0, 12, 20), capsUnwrapped |-> Field(0, 9, 3),
            extraCaps |-> Field(0, 7, 2), length |-> Field(0, 0, 7)])
seL4_CapRights ==
    Struct(1, TRUE,
           [capAllowGrant |-> Field(0, 2, 1), capAllowRead |-> Field(0, 1, 1),
            capAllowWrite |-> Field(0, 0, 1)])

(* types_gen.h *)

CapDataType == Field(0, 31, 1)
seL4_CapData_Badge ==
    Member(1, CapDataType, 0, [Badge |-> Field(0, 0, 28)])
seL4_CapData_Guard ==
    Member(1, CapDataType, 1,
           [GuardBits |-> Field(0, 8, 18), GuardSize |-> Field(0, 3, 5)])

(* sel4_arch/types_gen.h: every field is a word. *)

seL4_FaultType == Field(0, 0, 3)
seL4_Fault(value, fields) == Member(12, seL4_FaultType, value, fields)
Whole(word) == Field(word, 0, 32)

seL4_Fault_NullFault == seL4_Fault(0, <<>>)

CapFault_IP == Whole(7)
CapFault_Addr == Whole(6)
CapFault_InRecvPhase == Whole(5)
CapFault_LookupFailureType == Whole(4)
CapFault_MR4 == Whole(3)
CapFault_MR5 == Whole(2)
CapFault_MR6 == Whole(1)
seL4_Fault_CapFault ==
    seL4_Fault(1,
        [IP |-> CapFault_IP, Addr |-> CapFault_Addr,
         InRecvPhase |-> CapFault_InRecvPhase,
         LookupFailureType |-> CapFault_LookupFailureType,
         MR4 |-> CapFault_MR4, MR5 |-> CapFault_MR5, MR6 |-> CapFault_MR6])

UnknownSyscall_EAX == Whole(11)
UnknownSyscall_EBX == Whole(10)
UnknownSyscall_ECX == Whole(9)
UnknownSyscall_EDX == Whole(8)
UnknownSyscall_ESI == Whole(7)
UnknownSyscall_EDI == Whole(6)
UnknownSyscall_EBP == Whole(5)
UnknownSyscall_FaultIP == Whole(4)
UnknownSyscall_ESP == Whole(3)
UnknownSyscall_EFLAGS == Whole(2)
UnknownSyscall_Syscall == Whole(1)
seL4_Fault_UnknownSyscall ==
    seL4_Fault(2,
        [EAX |-> UnknownSyscall_EAX, EBX |-> UnknownSyscall_EBX,
         ECX |-> UnknownSyscall_ECX, EDX |-> UnknownSyscall_EDX,
         ESI |-> UnknownSyscall_ESI, EDI |-> UnknownSyscall_EDI,
         EBP |-> UnknownSyscall_EBP, FaultIP |-> UnknownSyscall_FaultIP,
         ESP |-> UnknownSyscall_ESP, EFLAGS |-> UnknownSyscall_EFLAGS,
         Syscall |-> UnknownSyscall_Syscall])

UserException_FaultIP == Whole(5)
UserException_Stack == Whole(4)
UserException_EFLAGS == Whole(3)
UserException_Number == Whole(2)
UserException_Code == Whole(1)
seL4_Fault_UserException ==
    seL4_Fault(3,
        [FaultIP |-> UserException_FaultIP, Stack |-> UserException_Stack,
         EFLAGS |-> UserException_EFLAGS, Number |-> UserException_Number,
         Code |-> UserException_Code])

VMFault_IP == Whole(4)
VMFault_Addr == Whole(3)
VMFault_PrefetchFault == Whole(2)
VMFault_FSR == Whole(1)
seL4_Fault_VMFault ==
    seL4_Fault(5,
        [IP |-> VMFault_IP, Addr |-> VMFault_Addr,
         PrefetchFault |-> VMFault_PrefetchFault, FSR |-> VMFault_FSR])

-----------------------------------------------------------------------------
(* The functions, for the structure t with contents words. *)

Placed(f, v) == {b + f.shift : b \in v}

get(t, words, f) ==
    {b - t.fields[f].shift : b \in words[t.fields[f].word] \cap Mask(t.fields[f])}
get_tag(t, words) ==
    {b - t.tag[1].shift : b \in words[t.tag[1].word] \cap Mask(t.tag[1])}

\* The values are masked, and the assertion fails for one that is too wide.
new(t, v) ==
    [w \in 0..(t.words - 1) |->
       UNION {Placed(t.fields[f], v[f] \cap Low(t.fields[f].width)) :
                f \in {g \in DOMAIN t.fields : t.fields[g].word = w}}
       \cup IF t.tag # <<>> /\ t.tag[1].word = w THEN Placed(t.tag[1], t.tag[2])
                                                 ELSE {}]
newAsserts(t, v) == \A f \in DOMAIN t.fields : v[f] \subseteq Low(t.fields[f].width)

\* Mutant: the old value is not cleared.
setUncleared(t, words, f, v) ==
    LET d == t.fields[f]
    IN  [words EXCEPT ![d.word] = @ \cup (Placed(d, v) \cap Mask(d))]

set(t, words, f, v) ==
    LET d == t.fields[f]
    IN  [words EXCEPT ![d.word] = (@ \ Mask(d)) \cup (Placed(d, v) \cap Mask(d))]

\* The assertion of set shifts the complement of the mask down.  Zeros come
\* in from above, or copies of bit 31 where the complement is a signed int.
Overridden(t, f) ==
    LET d == t.fields[f]
        rest == Bits \ Mask(d)
    IN  {b - d.shift : b \in {c \in rest : c >= d.shift}}
          \cup IF t.signed /\ 31 \in rest THEN (32 - d.shift)..31 ELSE {}
setAsserts(t, f, v) == v \cap Overridden(t, f) = {}
=============================================================================
