---------------------------- MODULE TestProcess ----------------------------
(***************************************************************************)
(* How the driver of main.c launches its client processes: run_test, kept  *)
(* from seL4test, and run_test_new, which the program calls.  Each gives a *)
(* new process its capabilities, starts it, maps the init data frame, and  *)
(* at the end unmaps the frame and revokes the untypeds.  The processes    *)
(* have the driver's priority and run between any two of its steps.        *)
(***************************************************************************)
EXTENDS Naturals, Sequences, FiniteSets

CONSTANTS
    num_untypeds,   \* what populate_untypeds returned
    arch_timer_caps,    \* caps that arch_copy_timer_caps copies (external)
    arch_serial_caps,   \* caps that arch_copy_serial_caps copies (external)
    FirstFree,      \* SEL4UTILS_FIRST_FREE
    CSpaceEnd,      \* bound: 1 << CONFIG_SEL4UTILS_CSPACE_SIZE_BITS
    MaxTests        \* bound: processes launched

Untypeds == 1..num_untypeds
Tests == 1..MaxTests

\* The capabilities that a function gives to its process, in the order the
\* driver copies them.
GivenBy(function) ==
    IF function = "run_test_new" THEN <<"endpoint">>
    ELSE <<"page_directory", "tcb", "domain", "asid_pool", "asid_ctrl">>
           \o [i \in Untypeds |-> "untyped"]
           \o <<"timer_irq", "timer_dev_ut">> \o [n \in 1..arch_timer_caps |-> "arch_timer"]
           \o <<"serial_irq">> \o [n \in 1..arch_serial_caps |-> "arch_serial"]
           \o <<"endpoint">>

\* The Untypeds of main.c end the program when there are none for the tests.
ASSUME TestProcessAssumption ==
    /\ num_untypeds \in Nat \ {0} /\ MaxTests \in Nat \ {0}
    /\ arch_timer_caps \in Nat /\ arch_serial_caps \in Nat
    /\ FirstFree \in Nat \ {0} /\ CSpaceEnd \in Nat
    /\ FirstFree + Len(GivenBy("run_test")) < CSpaceEnd

Slots == FirstFree..(CSpaceEnd - 1)
NoTest == 0
Empty == <<"empty", 0>>

VARIABLES
    Function,   \* what the driver runs, "run_test" or "run_test_new"; never changes
    pc,         \* where the driver is in it
    test,       \* the process it is working on
    i,          \* caps copied, or untypeds revoked
    next_free,  \* the process's next free slot, in sel4utils_process_t
    cspace,     \* the cspace of each process
    init,       \* env.init: the slots recorded for the process
    state,      \* of each process: "none", "ready", "running", "dead"
    mapped,     \* process init_frame_cap_copy is mapped in, or NoTest
    objects,    \* for each untyped, the processes that made objects from it
    fault_ep    \* what is sent to each process's fault endpoint

vars == <<Function, pc, test, i, next_free, cspace, init, state, mapped, objects,
          fault_ep>>

driver == <<pc, test, i, next_free, init>>

NoInit == [untypeds |-> [start |-> 0, end |-> 0], free |-> 0, slot |-> <<>>]

Given == GivenBy(Function)

Init ==
    /\ Function \in {"run_test", "run_test_new"}
    /\ pc = "configure" /\ test = 1 /\ i = 0 /\ next_free = FirstFree
    /\ cspace = [p \in Tests |-> [s \in Slots |-> Empty]]
    /\ init = NoInit
    /\ state = [p \in Tests |-> "none"]
    /\ mapped = NoTest
    /\ objects = [u \in Untypeds |-> {}]
    /\ fault_ep = [p \in Tests |-> "none"]

-----------------------------------------------------------------------------
(* The driver. *)

\* sel4utils_configure_process.
Configure ==
    /\ pc = "configure"
    /\ state' = [state EXCEPT ![test] = "ready"]
    /\ next_free' = FirstFree
    /\ init' = NoInit
    /\ i' = 0
    /\ pc' = "copy"
    /\ UNCHANGED <<test, cspace, mapped, objects, fault_ep>>

\* The cap that is copied next; an untyped is known by its number.
Cap ==
    LET before == Cardinality({n \in 1..i : Given[n] = "untyped"})
    IN  IF Given[i + 1] = "untyped" THEN <<"untyped", before + 1>>
                                    ELSE <<Given[i + 1], 0>>

\* copy_untypeds_to_process: the first copy sets both ends, the others the
\* last slot.
UntypedRange(range, slot) ==
    [start |-> IF Cap[2] = 1 THEN slot ELSE range.start, end |-> slot]

\* One sel4utils_copy_cap_to_process, or the mint of the endpoint.
CopyCap ==
    /\ pc = "copy" /\ i < Len(Given)
    /\ cspace' = [cspace EXCEPT ![test][next_free] = Cap]
    /\ init' = [init EXCEPT
         !.slot = Append(@, next_free),
         !.untypeds = IF Cap[1] = "untyped" THEN UntypedRange(@, next_free) ELSE @]
    /\ next_free' = next_free + 1
    /\ i' = i + 1
    /\ UNCHANGED <<pc, test, state, mapped, objects, fault_ep>>

\* The free slots begin after the endpoint.  Mutant: they begin at it.
FreeFromEndpoint(endpoint) == endpoint
FreeSlots(endpoint) == endpoint + 1

\* run_test records the free slots; then sel4utils_spawn_process_v.
Spawn ==
    /\ pc = "copy" /\ i = Len(Given)
    /\ init' = IF Function = "run_test"
               THEN [init EXCEPT !.free = FreeSlots(init.slot[Len(Given)])]
               ELSE init
    /\ state' = [state EXCEPT ![test] = "running"]
    /\ pc' = "send_init_data"
    /\ UNCHANGED <<test, i, next_free, cspace, mapped, objects, fault_ep>>

\* send_init_data: vspace_map_pages of the one frame cap.
SendInitData ==
    /\ pc = "send_init_data"
    /\ mapped' = test
    /\ pc' = IF Function = "run_test" THEN "recv" ELSE "unmap"
    /\ UNCHANGED <<test, i, next_free, cspace, init, state, objects, fault_ep>>

\* seL4_Recv on the fault endpoint: the result, or the fault, after which
\* the process waits for a reply that never comes.  Without a sender the
\* driver blocks.
Recv ==
    /\ pc = "recv" /\ fault_ep[test] # "none"
    /\ fault_ep' = [fault_ep EXCEPT ![test] = IF @ = "fault" THEN @ ELSE "none"]
    /\ pc' = "unmap"
    /\ UNCHANGED <<test, i, next_free, cspace, init, state, mapped, objects>>

\* vspace_unmap_pages.
Unmap ==
    /\ pc = "unmap"
    /\ mapped' = NoTest
    /\ i' = 0
    /\ pc' = "revoke"
    /\ UNCHANGED <<test, next_free, cspace, init, state, objects, fault_ep>>

\* vka_cnode_revoke(untypeds[i]): the copies of the cap, and the objects
\* made through them, are gone.  Mutant: the objects stay.
RevokeCopies(u) ==
    /\ cspace' = [p \in Tests |-> [s \in Slots |->
                    IF cspace[p][s] = <<"untyped", u>> THEN Empty ELSE cspace[p][s]]]
    /\ UNCHANGED objects
RevokeUntyped(u) ==
    /\ cspace' = [p \in Tests |-> [s \in Slots |->
                    IF cspace[p][s] = <<"untyped", u>> THEN Empty ELSE cspace[p][s]]]
    /\ objects' = [objects EXCEPT ![u] = {}]

Revoke ==
    /\ pc = "revoke" /\ i < num_untypeds
    /\ RevokeUntyped(i + 1)
    /\ i' = i + 1
    /\ UNCHANGED <<pc, test, next_free, init, state, mapped, fault_ep>>

\* sel4utils_destroy_process in run_test; run_test_new leaves the process
\* alone.  Then the next test, if there is one.
Finish ==
    /\ pc = "revoke" /\ i = num_untypeds
    /\ IF Function = "run_test"
       THEN /\ state' = [state EXCEPT ![test] = "dead"]
            /\ cspace' = [cspace EXCEPT ![test] = [s \in Slots |-> Empty]]
            /\ fault_ep' = [fault_ep EXCEPT ![test] = "none"]
       ELSE UNCHANGED <<state, cspace, fault_ep>>
    /\ IF test < MaxTests THEN test' = test + 1 /\ pc' = "configure"
                          ELSE pc' = "end" /\ UNCHANGED test
    /\ UNCHANGED <<i, next_free, init, mapped, objects>>

-----------------------------------------------------------------------------
(* The processes, whose program is not part of the repository: what the    *)
(* capabilities they are given let them do.                                *)

MayRun(p) == state[p] = "running" /\ fault_ep[p] = "none"

\* Makes objects out of an untyped.
Retype(p) ==
    /\ MayRun(p)
    /\ \E u \in Untypeds :
         /\ \E s \in Slots : cspace[p][s] = <<"untyped", u>>
         /\ objects' = [objects EXCEPT ![u] = @ \cup {p}]
    /\ UNCHANGED <<driver, cspace, state, mapped, fault_ep>>

\* Puts a cap of its own in a slot it takes for free.
UseSlot(p) ==
    /\ MayRun(p) /\ Function = "run_test"
    /\ \E s \in init.free..(CSpaceEnd - 1) :
         cspace' = [cspace EXCEPT ![p][s] = <<"own", 0>>]
    /\ UNCHANGED <<driver, state, mapped, objects, fault_ep>>

\* Sends its result, or faults: both are messages to the fault endpoint.
Report(p) ==
    /\ MayRun(p)
    /\ \E m \in {"result", "fault"} :
         /\ m = "result" => Function = "run_test"
         /\ fault_ep' = [fault_ep EXCEPT ![p] = m]
    /\ UNCHANGED <<driver, cspace, state, mapped, objects>>

Driver ==
    \/ Configure \/ CopyCap \/ Spawn \/ SendInitData \/ Recv \/ Unmap
    \/ Revoke \/ Finish

Process(p) == Retype(p) \/ UseSlot(p) \/ Report(p)

Next ==
    /\ Driver \/ \E p \in Tests : Process(p)
    /\ UNCHANGED Function

Spec == Init /\ [][Next]_vars

-----------------------------------------------------------------------------
(* Properties. *)

\* "THE SLOTS WILL BE CONSIDERED FREE AND OVERRIDDEN BY THE TEST PROCESS":
\* whatever the process puts in its free slots, the caps recorded for it in
\* env.init stay where they are, the untypeds until they are revoked.  What is
\* recorded is what the driver's assertion asks for: the untypeds are a range
\* of num_untypeds slots.
CapsKept ==
    state[test] = "running" =>
      /\ \A n \in 1..Len(Given) :
           \/ cspace[test][init.slot[n]][1] = Given[n]
           \/ /\ Given[n] = "untyped" /\ pc \in {"revoke", "end"}
              /\ cspace[test][init.slot[n]] = Empty
      /\ Function = "run_test" =>
           (init.untypeds.end - init.untypeds.start) + 1 = num_untypeds

\* "reset all the untypeds for the next test": when a process is started,
\* no other process has an untyped or anything made from one, although the
\* process tested before keeps running while the untypeds are revoked; and the
\* frame with the init data is mapped nowhere, so that its one cap can be
\* mapped again (a mapped frame cap would be refused).
UntypedsReset ==
    /\ pc \in {"configure", "copy"} =>
         /\ \A u \in Untypeds : objects[u] = {}
         /\ \A p \in Tests \ {test}, s \in Slots : cspace[p][s][1] # "untyped"
    /\ pc \in {"configure", "copy", "send_init_data"} => mapped = NoTest
=============================================================================
