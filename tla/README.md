# Verification of the green-thread servers and the libraries under them

`src/main.c` is the driver of a benchmark that compares two ways to write a
multi-threaded server on seL4: with a cooperative *green-thread* library (all
threads share one kernel thread) and with one *kernel thread* per server thread.
Six client processes call one server endpoint. The driver starts the clients,
runs the server threads, and reports the end of the test. The repository also
holds the libraries the driver is compiled with (headers under `stage/`) and the
kernel it runs on (`build/kernel/`); what the servers rest on there is modelled
as well.

## The system and its parts

| part | where | what it does |
|---|---|---|
| boot and environment | `main.c` 96-137, 1710-1824 | allocators, endpoint, timer and serial capabilities |
| untyped memory | 142-231 | reserve memory for the driver, give the rest to test processes |
| process life cycle | 266-452 | configure, spawn, wait for and destroy a client process |
| main thread | 1548-1691 | create the server threads, resume one, report the end |
| green server, producer/consumer | 558-725, 938-970 | INIT barrier, PRODUCER, CONSUMER, TMNT |
| green server, token | 727-931 | WAIT and SEND_WAIT with a lock, a semaphore or a condition variable |
| kernel-thread server, producer/consumer | 979-1185, 1387-1442, 1446-1508 | the same handlers with mutexes and notifications |
| kernel-thread server, token | 1189-1381 | does not compile (four parameters, called with five) |
| libsel4sync | `stage/x86/pc99/include/sync/*.h` | binary semaphore, mutex, semaphore, condition variable |
| libsel4 | `stage/.../interfaces/sel4_client.h`, `sel4/` | invocation stubs, message registers, packed structures, faults |
| sel4utils | `stage/.../sel4utils/vspace_internal.h` | which pages of an address space are reserved or mapped |
| kernel | `build/kernel/kernel_all.c` | threads and scheduler, endpoints, notifications, reply capabilities, message transfer, decoding of invocations |
| green-thread library | not in the repository | thread pool, sleep and wakeup lists, locks |
| client program | not in the repository as source | INIT, then buffer requests, then TMNT |

How they interact: a client blocks in `seL4_Call` on the endpoint. The server
thread that executes `seL4_Recv` gets the message, and the kernel keeps a *reply
capability* in the thread's caller slot until the next `Recv`. A handler that
answers later moves it to a slot of its own with `vka_cnode_saveCaller`. In the
green build only one kernel thread receives, so a green thread that sleeps
inside a handler hands the processor to another green thread, which may go back
to the blocking `seL4_Recv`.

## Modules

| module | models |
|---|---|
| `GreenThreads` | the library calls the server makes, as operators from thread pool to thread pool (external: modelled from how `main.c` uses them) |
| `BoundedBuffer` | abstract specification: a counter between 0 and `buffer_limit`, each request answered at most once, together with the change it asks for |
| `GreenServer` | the green producer/consumer server with its clients and main thread; the mutants of its definitions stand just before them |
| `GreenServerInv` | the inductive invariant |
| `MCGreenServer` | the bounded instances TLC checks |
| `Notifications` | the kernel's notification objects: one bit and a queue |
| `Sel4Server` | the kernel-thread producer/consumer server with its clients, from INIT to TMNT |
| `MCSel4Server` | its bounded instances, among them one that starts after the barrier |
| `TokenServer` | the green token server with the lock or the semaphore |
| `TestProcess` | `run_test` and `run_test_new` with the processes they launch |
| `BinSem` | libsel4sync's binary semaphore, which is also its mutex |
| `Semaphore` | its counting semaphore |
| `ConditionVar` | its condition variable |
| `MCSync` | the bounded instances of the last two |
| `KernelThreads` | the kernel's threads, ready queues and scheduler, as operators on a record |
| `KernelIPC` | its endpoints, notifications, reply capabilities and faults, on the same record |
| `Kernel`, `MCKernel` | system calls, fast paths, invocations and interrupts, as actions; the sets of them that each run explores |
| `Stubs` | the 68 invocation stubs: the message each one builds |
| `Decoders` | the kernel's decoders: the arguments each one reads from a message |
| `Invocations` | one invocation after the other, from stub to decoder and back |
| `Layouts` | the packed structures of libsel4: words, fields, tags, and the generated functions |
| `Bitfields` | a structure that is made and changed with these functions |
| `Messages` | message words on their way through registers and buffers; faults and replies to them |
| `MCLibsel4` | the bounded instances of `Invocations`, `Messages` and `Bitfields` |
| `QueueLemmas` | lemmas on sequences without duplicates |
| `GreenServerSteps` | lemmas on each call of the green-thread library, and that each step of `GreenServer` keeps its invariants, one lemma per kind of step |
| `GreenServerProofs` | the counting of clients and threads, the invariance theorems and the refinement theorem |
| `BinSemProofs` | mutual exclusion and the exact count of the binary semaphore |
| `SyncProofs` | the counting semaphore: its units and its assertion; the condition variable: its count of waiters, its broadcasts, its lock |
| `TokenProofs` | the token server: its inductive invariant, its replies, the passing of the token and the end of a test |
| `Sel4Steps`, `Sel4Proofs` | the kernel-thread server: its steps, places and reply capabilities; its ids, its mutex, its sleepers and both refinements |

### State and actions of `GreenServer`

`pool` is the library's thread pool, `pc[t]` the place of green thread `t` in
`server_loop`/`process_message`, `slot[t]` its `t->slot`, `caps` the reply
capability in each slot (named by the client it answers), `caller` the kernel's
caller slot, `reply_eps`, `client_new` (the count behind `initial_client` and
`client_barrier`) and `buffer` the globals of the same meaning, `main` the
progress of `main_continued`. The clients are `ep` (the endpoint queue), `req`
(the call a client is blocked in), `id` and `left` (requests still to make).

| action | code |
|---|---|
| `Call` | a client's `seL4_Call`; the label follows from its id and the requests left |
| `MainContinued`, `MainEnd` | thread creation and `thread_resume` of the last thread (1615-1649); the "end of test" line (1651) |
| `Recv` | `seL4_Recv` in `server_loop` |
| `HandleInit` | the INIT case with the barrier and the answer to every client, `process_message_multicast` included (567-595, 456-474) |
| `ProducerSave`, `ProducerAcquire`, `ProducerSleep`, `ProducerPut` | the PRODUCER case (597-646) cut where the thread can lose the processor, and the reply in `server_loop` |
| `ConsumerSave`, `ConsumerAcquire`, `ConsumerSleep`, `ConsumerTake` | the same for CONSUMER (648-696) |
| `HandleTmnt` | the TMNT case (698-716): the thread exits and its client is never answered |

A green thread gives up the processor only inside library calls and in
`seL4_Recv`, so the code between two such points is one step. Fresh capability
slots are numbered in order of allocation. Two library facts matter and are
modelled as they are: `thread_sleep` returns at once when no thread is ready,
and `thread_wakeup` only makes the sleeper ready.

### State and actions of `Sel4Server`

All server threads have the same priority and the kernel preempts them on a
timer, so a step is one access to shared memory, one system call or one atomic
instruction. `pc[t]` is the thread's place, `label[t]` and `i[t]` locals of
`process_message`, `caller[t]` and `saved[t]` the reply capability in the
thread's caller slot and in its own slot, `reply_eps[i]` the reply capability in
the slot with that name, `value` and `ntfn["lock_global"]` the mutex,
`ntfn["producer_list"]` and `ntfn["consumer_list"]` the two lists. A thread that
has waited stands at its next place and goes on when it has left the queue.

| action | code |
|---|---|
| `Recv`, `Reply` | `server_loop` (1387-1442) |
| `InitialClientLoad`, `InitialClientStore`, `InitSave`, `ClientBarrier`, `Multicast` | the INIT case (987-1016); the compiled `initial_client` (`build/x86/pc99/sel4test-driver/src/lib_test.o`) is a load and a store of `client_new`, `client_barrier` a comparison of it with `client_num` |
| `Save` | `vka_cnode_saveCaller` under SEL4_GREEN (1040, 1110) |
| `Lock`, `LockWait`, `Unlock`, `UnlockSignal` | `sync_mutex_lock` and `sync_mutex_unlock` of `lock_global` |
| `Test`, `LoopUnlock`, `LoopUnlockSignal`, `LoopSleep` | the while loops (1062-1067, 1131-1137) |
| `Update`, `SignalOther` | the update of the buffer and the signal of the other list |
| `TerminateLoad`, `TerminateStore` | the TMNT case (1161-1176): `terminate_num++` outside the lock, no reply; the next `Recv` drops the capability |

### State and actions of `TokenServer`

As `GreenServer`, with the token's primitive in `pool`, `build` the choice between the
lock and the semaphore, `count` the units of the semaphore, and `flag` the mark that INIT gives to the first client.
`HandleInit` and `HandleTmnt` are the INIT and TMNT cases, `HandleWait`,
`AcquireSleep` and `AcquireTake` the WAIT case (773-810), the actions on
SEND_WAIT the calls of `thread_lock_release_acquire` or of `V` and `P` (853-909).
The token clients are external; what the server tells them fixes what they call.

### State and actions of `TestProcess`

`CopyCap` is one `sel4utils_copy_cap_to_process`; `Spawn`, `SendInitData`,
`Recv`, `Unmap`, `Revoke` (one untyped) and `Finish` are the rest of `run_test`.
`run_test_new`, which the program calls, is the same with one capability and
without `Recv`. The process (external) makes objects from its untypeds, uses the
slots it is told are free, and reports or faults, between any two of these steps.
How many capabilities `arch_copy_timer_caps` and `arch_copy_serial_caps` add is
external, a constant. `send_init_data` says that it sends the address of the frame; the send is
commented out, so nothing is sent.

### The kernel

The kernel runs to completion, so each of its functions is an operator from
state to state and an action is one kernel entry: a system call, an invocation,
a fault or an interrupt, followed by `schedule` and `activateThread`. An assertion
of the code that fails clears `ok` (`AssertsHold`). The fast paths are actions of
their own; `FastpathExact` compares each with the slow path from the same state.

Seen while modelling: `setPriority` reschedules only when the current thread's
priority changes (the history variable `raised` exempts the other case from
`HighestRuns`); binding a notification that is already active to a thread that
waits on an endpoint leaves the thread waiting; a
thread of priority 0 woken by an interrupt while the idle thread runs is queued
and runs with the next schedule only; `tcbFault` stays set when a thread blocked
on the send of its fault is suspended. Which capability a lookup finds is a choice
of the model, and preemption points inside deletions are left out.

### Invocations and messages

`Stubs` gives for each stub the object, label, capabilities, message words and
result places; `Decoders` gives for each label the arguments the kernel takes from
message and capabilities, and its refusal of short messages. `Invocations` passes
symbolic values, so that a value found under the wrong name is a different one.
The kernel's answer is one of: refused by a check, a range error, another error,
success; `AfterCall` is what the stub does then. Addresses are numbers, which the
decoders round down to the size of what they map. The 64-bit mask of
`decodeX86EPTPDPTInvocation` leaves nothing of an address in a 32-bit word. The
decoders for VT-x are modelled although this build leaves them out.

In `Messages` every word carries the number of the message it was written for.
Client and server use the plain functions or the ones `WithMRs`, with any subset
of pointers given; the client may also fault. Seen while modelling: a plain
`seL4_Recv` overwrites words 0 and 1 of the buffer whatever the length, and
`seL4_getFault` after a receive `WithMRs` reads stale words there, so
`FaultReported` is about plain receives. The replies to PRODUCER and CONSUMER in
`main.c` have length 1 and no `seL4_SetMR`, so they carry what the buffer held.

## Runs

`green` (`GreenServer.cfg`): four clients with one buffer request each,
`buffer_limit = 1`, no symmetry (it is not sound for temporal properties); about
149 thousand states. Deadlock is checked: the only state without a further step of
the program is the end of the test, in which every client stays blocked in TMNT.

* `TypeOK`: the types, and the buffer bounds that the assertions at 628 and 678
  state.
* `LockNeverContended`: `lock_global` is never held over a switch of threads.
* `NoLostWakeup`: while a producer sleeps there are at least as many awake
  producers as free places (and dually). A newcomer may take the place a woken
  thread was woken for; the count says that this never strands the others.
* `NoRequestForgotten`: a blocked client is reachable through exactly one of the
  endpoint queue, the caller slot and the capability slots.
* `EndMeansServed`: the main thread regains the processor only when all is done.
* `ImplementsBuffer`: refinement of `BoundedBuffer`.
* `EveryRequestAnswered`: every INIT, PRODUCER and CONSUMER call returns.
* `TestEnds`: "end of test" is reached; so no thread spins for ever in a `while`
  loop whose `thread_sleep` returns at once.

`sel4_safety` (`Sel4ServerSafety.cfg`): four clients with one request each, four
threads, SEL4_GREEN, started in the state after the barrier; symmetry over
clients and threads; about 140 thousand states, deadlock checked.

* `MutualExclusion`: the binary semaphore excludes, although its count and its
  notification change in separate steps.
* `AssertsHold`: the assertions at 1069 and 1139, and the one in
  `sync_bin_sem_bare_post` on the count of the mutex.
* `NoStranding`: a merged signal never leaves a sleeper behind that could go on.
* `RequestsKept`: the reply capability survives the waits.
* `ImplementsBuffer`: refinement of `BoundedBuffer`; a request takes effect at
  `Update`, before its reply.
* `ImplementsMutex`: the use of `lock_global` is a behaviour of `BinSem`, whose
  `value`, notification and places are read off the server's state.

`NoStranding` and the absence of deadlock depend on `buffer_limit = 1`, the
value `initial_client_pool` sets. With 2, two consumers that have found the
buffer empty but not yet waited can meet two puts whose signals merge: one
consumer takes the signal, the other sleeps with an item in the buffer, and TLC
finds the deadlock. The green build has no such limit (`NoLostWakeup` is proved
for every one).

`sel4_boot` (`Sel4Boot.cfg`): from boot, two clients with two requests each,
SEL4_SLOW/SEL4_FAST; about 5 thousand states.

* `UniqueIds`: no two clients are told the same id.
* `OpenBarrierAnswersAll`: the barrier may open while another thread's slot is
  missing from `reply_eps`; the send on the empty slot has no effect and the late
  thread, which also finds the barrier open, answers for itself.
* `EveryRequestAnswered`: every PRODUCER and CONSUMER call returns.

`sel4_barrier_lost` (`Sel4BarrierLost.cfg`) is expected to fail. The comment at
457 says "if received initial data from all clients, multicast responses to all
of them"; when two threads interleave in `initial_client`, one increment is
lost, the barrier never opens and all clients stay blocked. For this reason
`sel4_boot` does not check deadlock, and its liveness properties begin with
`client_new = client_num` or with a buffer request.

`sync` (`Sync.cfg`): a behaviour uses either the semaphore, with four threads, two
units and an `int` of four values so that both ends are reached, or the condition
variable, with three threads that wait, signal, broadcast and release in any order.
`UnitsKept`: units are neither lost nor made, whichever of the two waits is used.
`NobodyLeft`: every waiter enters, and `post` never blocks for ever although it sends
on an endpoint. `WaitersExact`: the count of waiters; `BroadcastAlive`: as long as the
flag is set a signal is under way; `BroadcastEnds`.

`cv_called_off` (`CvCalledOff.cfg`) is expected to fail. The comment at 116 of
`condition_var.h` says that a broadcast "notifies all waiters" (`BroadcastNotifiesAll`);
a thread that starts to wait clears the flag of a broadcast under way (67), and a
thread that slept before the broadcast sleeps on.

`token` (`TokenServer.cfg`): three clients with three rounds, both builds.
`NoReplyLost`: the answer to a waiting client is in one place. `PassedToAnother`:
with the lock, each SEND_WAIT gives the token to another thread. `EndStrandsOne`: at
the end of the test one thread sleeps on the lock. `EndOfTest`: with the lock
the main thread always gets the processor back and reports the end.

`token_spins` (`TokenSpins.cfg`) is expected to fail. `run_test.sh` waits for the line
"end of test" (`EndReported`). With the semaphore `V` followed by `P` takes the unit
back, so one client makes all its rounds before another has its turn, and the last `P`
finds no thread to switch to and spins: the line is never printed.

`kernel` (`Kernel.cfg`): three threads under seven programs, sets of kernel entries
that between them are all of them; about 800 thousand states. `ReadyExact`: queues,
bitmaps and thread states agree; `BlockedExact`: a blocked thread is in the queue of
what it is blocked on, the state of an endpoint or notification fits its queue, and a
binding is mutual; `RepliesExact`: a reply capability exists exactly for a thread that
waits for it, and only one; `FastpathExact`; `HighestRuns`; `AssertsHold`.

`test_process` (`TestProcess.cfg`): three processes, launched by `run_test` or by
`run_test_new`. `CapsKept`: no slot the process may use holds a capability it was
given, and the assertion at 213 holds. `UntypedsReset`: no object is left when
the next test is configured, and one mapping of the frame exists at a time.

`libsel4` (`Libsel4.cfg`): a behaviour is one of invocations, of messages or of packed
structures; about 417 thousand states.

* `ArgumentsArrive` compares what the caller passed with what the kernel's decoder
  reads, name by name, for all 68 stubs; addresses agree up to the rounding of the
  decoder, so that a guest address never reaches an EPT PDPT, whose span exceeds a
  word. Two arguments the kernel does not use are not covered: `attr` of the EPT
  structures and `arch_flags` of the three calls that transfer registers.
* `AnswersArrive`: after an error its details are in the buffer, after a success the
  results are with the caller; `seL4_TCB_WriteRegisters` sets the registers it names.
* `MessageKept`: a call that succeeds leaves words 0 and 1 of the buffer as they were.
* `FieldsKept`: all ten structures, each field set to values at the edges of its width:
  a function changes its own field and nothing else, the tag included.
* `MessageArrives`: three messages or faults of one or four words; each word is where
  the receiver looks for it, and the words of a reply to a fault are in the registers
  of the thread that faulted. `FaultReported`: libsel4's enumerations find every field
  of a fault where the kernel put it.

`bitfields_wide` (`BitfieldsWide.cfg`) is expected to fail. The set functions say "fail
if user has passed bits that we will override" (`OverriddenBitsFail`); the assertion
tests `~mask >> shift`, which has zeros at the top, so the highest bits of a value for
a field moved to the left are dropped silently, and `seL4_MessageInfo_set_label` never
fails.

Bounds. Two producers, two consumers and a buffer of one are the smallest
instance in which a sleeper of each role, a newcomer of the same role and an
item in the buffer exist together. The workload is balanced (as many
producer as consumer requests), as the program's six clients with four requests
each are. `EndMeansServed`, `EveryRequestAnswered` and `TestEnds`
rest on that balance: with an odd number of clients the last consumer would
spin. Six clients take TLC beyond a few minutes; the theorems below cover every
number.

In `Sel4Server` four clients are likewise the smallest number with two sleepers
of one role and two partners. Together with INIT they exceed TLC's time, so
`sel4_safety` starts after the barrier and the run from boot has two clients. What they leave open is a buffer request of one of four clients served
while the barrier's thread still answers the others.

The kernel run needs a current thread and two others, the least with a queue of
two behind a running thread; `NumPrios = 3` with words of two bits gives two words
of the bitmap. The word values of `Invocations` and `Messages` are symbolic, so
their number does not matter; lengths 1 and 4 lie on the two sides of the two
message registers.

Fairness. `WF(Server)`: the server's kernel thread runs when it can; in
`Sel4Server` one `WF(Server(t))` per thread, which the kernel's round robin among
threads of equal priority provides.
In `BinSem`, `Semaphore` and `ConditionVar` it is one per thread for the steps
inside a library call and for giving back what it holds, not for entering one.
`WF(Call(c))`: the kernel runs every runnable client. Nothing is assumed about
the order among green threads; that is the library's queue discipline.

## Proofs

All are checked by TLAPS for every finite non-empty set of clients (`client_num` is
its size and is assumed positive), every number of rounds and every positive
`buffer_limit` (the named assumptions in `GreenServer`).

* `Invariant`: `Spec => []IInv`.
* `TypeCorrect`, `LockFree`, `WakeupsKept`: `TypeOK`, `LockNeverContended` and
  `NoLostWakeup` are invariants.
* `Refinement`: `Spec => ImplementsBuffer`.

Neither `TypeOK` nor `NoLostWakeup` is inductive by itself. That `left` and
`client_new` stay in range needs the history of the reply capabilities, and that
the count of awake threads follows the buffer needs the queues to be disjoint.
`IInv` therefore adds: each thread has a slot of its own (`SlotsInv`); until the
barrier opens the i-th caller's capability is in the i-th fresh slot
(`BarrierInv`); a call fits its client's history (`ClientInv`); a client is in
one place only (`PlaceInv`); a thread in a handler holds the capability of a
client with the matching request (`WorkInv`); the queues of the pool are
disjoint and duplicate-free (`PoolInv`); nothing runs before boot (`BootInv`).

The argument. `SaveInv` shows that `saveCaller` never meets an occupied slot: a
buffer request implies that the barrier is open, and then a full slot belongs to
another thread in a handler. `HandleInitInv` shows that the last INIT answers
everybody: `client_num` different capabilities are saved, hence one for each
client (`AllClients`, from the premise `Counted` that the lemma `Counting`
proves for every finite set of clients). `PutSched` and `TakeSched` count awake threads: storing an
item uses up one awake producer and one free place, and adds one item together
with one awake consumer if any slept.

* `NoneForgotten`: `NoRequestForgotten` is an invariant. `KeptInv` adds to `IInv`
  that what a blocked client is waiting for exists: its message is queued, its
  capability is with the thread that handles it, or it is one of the barrier's.
* `EndServed`, `SleepsYield`: `EndMeansServed` and `NeverSpins` (a thread that calls
  `thread_sleep` finds another one ready), for an even number of clients. With an odd
  number there are more consumers than producers and both are false.

The last two need the balance of the workload. `EndInv` says that a thread is either
gone with its client's TMNT or still in the pool (`AliveInv`, `LeaveInv`), that a
client keeps to the role of its id (`RoleInv`), and that the items in the buffer are
the difference between what producers and consumers have still to do
(`BalanceInv`). If nobody were ready when a thread sleeps, all clients left would be
of one role (`OneRoleLeft`): producers in front of a full buffer or consumers in
front of an empty one, which the balance excludes.

For the binary semaphore (`BinSemProofs`; any finite set of threads):

* `MutexExcludes`, `MutexCountExact`: `MutualExclusion` and `CountExact`.

The invariant counts: threads between decrement and increment, wherever they are,
make up one minus the count; and a signal under way, a signal kept by the
notification and a holder exclude each other.

For the condition variable (`SyncProofs`; any finite set of threads):

* `CvWaitersExact`, `CvBroadcastAlive`: the two safety properties of its run;
  `CvTypeCorrect`.
* `CvLockExcludes`: its calls use the mutex as `BinSem` allows, so that the lock
  excludes. The other proofs rest on it: a step that changes the count of waiters or
  the flag is taken by the holder.

For the semaphore (`SyncProofs`; any finite set of threads, any initial count,
any width of the count):

* `SemUnitsKept`: units are neither lost nor made; `SemUnitsBound`: never more
  threads than units are past their wait; `SemAssertHolds`: the assertion in
  `sync_sem_bare_post`. The invariant accounts for every unit: in the count, with a
  thread, or on its way from a poster to a waiter.

For the kernel-thread server (`Sel4Steps`, `Sel4Proofs`; any finite sets of clients
and threads, from boot on, with either way of saving the caller, any `buffer_limit`):

* `MutexRefinement`: the server's use of `lock_global` is a behaviour of `BinSem`,
  so that `Sel4Excludes` follows from `MutexExcludes`;
* `Sel4RequestsKept`: no reply capability is lost before its answer;
* `Sel4AssertsHold`: the assertions at 1069 and 1139 and, from the invariant of
  `BinSemProofs`, the one in `sync_bin_sem_bare_post`;
* `Sel4Refinement`: `Spec => ImplementsBuffer`;
* `Sel4UniqueIds`: `UniqueIds`;
* `Sel4Wakes`: for every capacity, some thread goes on while producers sleep and the
  buffer is empty, or consumers sleep and it is full; `Sel4NoStranding`: hence
  `NoStranding`, if `buffer_limit = 1`.

`IInv` there says which step of the lock each place of the code is, that a client
is in one place only (endpoint queue, a thread's caller slot, its saved slot, an
entry of `reply_eps` or nowhere), and that a thread asleep on a list stands in a
loop. It holds with the lost increment of `initial_client`: two threads may then
write the same entry of `reply_eps`, and the refinement shows that even so nothing
is answered that was not asked.

`Sel4UniqueIds` is about the same race. A store of `n` in `client_new` is only made
by a thread that loaded `n - 1`, so all ids below `n` have been given (`CountInv`).
When the count reaches `client_num` there are as many ids as clients, each client
has one at most (`OwnsOne`), and so no id was given twice (`AllOwned`): whenever the
race does happen, the barrier stays closed and nobody is told an id. The same
argument shows that an INIT never indexes `reply_eps` out of bounds
(`LoadInBounds`).

For `Sel4Wakes` a thread that has found the buffer full (or empty) counts as a
sleeper from its test on, since the signal may come before its wait (`WakeInv`). An
update that opens the buffer is followed by a signal, which wakes a sleeper or sets
the bit; the bit is taken by the next thread to wait, which then tests the buffer.
`WakeInv` speaks of the empty and the full buffer only. Between the two it is
false: two signals may have merged and woken one thread of two, the case
described above for a capacity of two.

For the token server (`TokenProofs`; any finite non-empty set of clients, any number of rounds,
with the lock and with the semaphore):

* `TokenInvariant`: `Spec => []IInv`;
* `TokenReplies`: `NoReplyLost`;
* `TokenPassed`: the action property `PassedToAnother`;
* `TokenEnd`: `EndStrandsOne`.

A run has two phases, and the invariant says which one it is in: `Asked` holds once
the WAIT of client 0 has been handled. Until then the last thread alone runs, the
i-th caller's capability is in the i-th slot after the threads' and nobody has an
answer (`BeforeInv`, `InitsInv`); the last INIT answers client 0 only and the others
wait in their slots (`FirstInv`). That all of the others do, so that the WAIT of
client 0 answers each of them, needs that different capabilities in `client_num`
slots are those of all the clients (`Counted`, proved by `ClientsCounted`). From then on a client that
waits for the token is in the slot of a thread that has asked for it (`AfterInv`),
each thread is running, ready, asleep or gone (`QueueInv`), and at most one sleeps.
The two builds differ in who: with the lock some thread sleeps at all times, or is
about to (`LockInv`); with the semaphore only the last thread ever does, and it never
gets the unit (`SemInv`). `TokenEnd` also counts: `terminate_num` is the number of
threads that have exited and the number of clients whose TMNT they handled
(`DoneInv`), and the main thread runs again only when no thread is ready (`MainLast`).
A sleeper and the other threads gone leave one client without the token.

## What is only model-checked

* Liveness (`EveryRequestAnswered`, `TestEnds`, `OpenBarrierAnswersAll`,
  `BroadcastEnds`, `NobodyLeft`, `EndOfTest`): the prover has no rules for fairness.
* The test processes and the kernel: their invariants are checked on the bounded
  instances and no inductive strengthening has been worked out. The kernel's would
  relate most of the nineteen fields of the kernel state, and a kernel entry changes
  them through a chain of nested operators, most of which would need a lemma.
* `Invocations`, `Messages` and `Bitfields`: finite tables (stubs, faults,
  structures), of which TLC covers every entry.

## What is not modelled

The reservation of untyped memory and the boot sequence are a straight line of library calls that abort on failure.
Benchmark counters (`wait_count`, `started`,
`terminate_num` in the green build, `rdtsc`), and
the IMMD label, which no client sends, are left out. The reply's message info is
returned through a pointer to a local variable of `process_message`; only its
label and length depend on that, which no client reads, so the model keeps the
reply itself. The kernel-thread token build does not compile, and in the green token build
THREAD_CV passes the address of an uninitialised `int` to the library.

In the kernel: page tables, retyping and the capability derivation tree beyond
reply capabilities, capability transfer in messages, deletion in several preempted
steps, and everything that drives hardware. In the libraries: what only allocates
and forwards (`vka`, `simple`, `vspace` interfaces), sel4utils' table of mapped pages,
which one thread at a time changes, cycle counters, drivers, the C
library. Most of the 47 thousand lines of headers under `stage/` declare types,
constants and prototypes without behaviour of their own; the definitions of the
map stand for about an eighth of them, and for the larger part of what is code.
