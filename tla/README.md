# Post-copy migration between two BitVisor machines: specification and proofs

This directory models the repository's own program: two patched copies of the
BitVisor hypervisor, `bitvisor_client` (the migration **source**) and
`bitvisor_server` (the migration **destination**), that move a running guest by
post-copy migration. The guest is stopped at the source, its processor state and
a little memory are sent, it starts at the destination, and the rest of its
memory follows: units the guest faults on are asked for, all others are copied
in the background.

Paths below are relative to the repository (`src/`).

## 1. Inventory

| Part | Where | State it keeps | Operations |
|---|---|---|---|
| Background copy and answers | `bitvisor_client/ip/echo-client.c` | `bitarray` (units marked as sent), `requested_addr`, `no_request`, `is_transmitting`, `seq_thread_is_transmitting`, `request_recv_disrupted`, three `fail_to_send_*` flags, `migration_done`, `migration_done_msg_sent`, the cursor of `get_start_addr`, `postcopy_state`, a static counter in each send function, `msg`, `seq_msg` | `echo_client_recv`, `request_recv`, `postcopy_requested`, `postcopy_requested_disrupted`, `send_margin`, `postcopy_seq_task`, `send_disrupted_addr`, `send_migration_done`, `seq_transmit_thread` |
| Reception | `bitvisor_server/ip/echo-server.c` | its own `bitarray`, `ept_recved`, `es->state`, `es->p`, guest memory | `echo_recv`, `echo_server_reply_request`, `echo_server_postcopy_start` |
| Page faults | `bitvisor_server/core/vt_ept.c` | the EPT tables, `aft_mig_in_mmio` | `vt_ept_violation`, `vt_ept_map_page` |
| Handover | `bitvisor_client/core/vmmcall_postcopy_migration.c`, `bitvisor_server/core/vmmcall_postcopy_migration_ready.c`, both `ip/echoctl.c` | `dont_start_postcopy`, `stop_value`, `init_message`, the `margin..` flags | the two vmmcalls, `send_margins`, `cpu_recv_callback` |
| Connection | `bitvisor_client/ip/lwip-2.0.0` (vendored) | send buffer, callbacks | `tcp_write`, `tcp_sent`, `tcp_recv` |
| Network thread | both `ip/net_main.c` | list of tasks | `net_thread`, `net_task_call` |
| Threads | `core/thread.c` | `td_runnable`, states | `schedule`, `thread_new`, `thread_will_stop`, `thread_wakeup`, `thread_exit` |
| Locks | `include/core/spinlock.h` | the word of a spin, ticket or reader-writer lock | lock, trylock, unlock |
| Debug shell | `core/vmmcall_dbgsh.c`, `tools/dbgsh/dbgsh.c` | `s`, `r`, `stopped`, the thread | `dbgsh_thread`, the vmmcall, the guest's program |
| MMIO areas | `core/mmio.c` | handles, 17 lists, `rwlock`, `unregister_flag` | register, unregister, access, lock, unlock |
| EPT tables | both `core/vt_ept.c`, `core/gmm_pass.c` | the pool of tables, `cleared`, the kept walk `cur` | `vt_ept_violation`, `vt_ept_clear_all`, `vt_ept_map_1mb`, `vt_ept_extern_mapsearch` |
| Timers | `core/timer.c` | three lists, `timer_lock` | `timer_new`, `timer_set`, `timer_free`, `timer_thread` |
| Messages, processes | `core/msg.c`, `core/process.c` | descriptors, protection domains | `msgopen`, `msgsendbuf` |
| Lists of memory areas | `echo-client.c`, `echo-server.c`, `vt_ept.c` of the destination | none (constant tables) | `get_next_addr`, `select_mem_area`, `vt_migration_range` |
| I/O ports, stop-and-copy migration, drivers, VMX/SVM, boot, crypto, storage, VPN | elsewhere in `core/`, `drivers/`, ... | | |

**Interaction.** At the source two BitVisor threads run: `net_thread` receives
requests and runs the callback registered with `tcp_sent()` on each
acknowledgement; `seq_transmit_thread` copies. They share every variable of
`echo-client.c` and the one TCP connection. At the destination the network
thread runs `echo_recv`, and the virtual processor, in `vt_ept_violation`, sends
a message to `echoctl`, which calls `echo_server_reply_request` in the
processor's own thread, and polls `ept_recved`.

Below them, a fault of the guest takes `mmio_lock()` (the reader-writer lock,
shared), asks the MMIO areas and fills the EPT tables; a driver that registers an
area takes the same lock exclusively and searches the tables of all processors.
All threads, the two of the migration, the timer thread and the thread of the
debug shell, share the scheduler.

**What is hard.** No lock is held around the flags or the send buffer; a send
function that runs out of room returns and is continued later, either by the
callback or by the background thread, through static counters; a request can
come while the background thread is in the middle of a unit; the answer to a
fault is recognised by the kind of the last message only; the end of the
migration is announced by a message that the source repeats until some
acknowledgement arrives. In the core: a thread is queued while it is still on its
stack; areas are unregistered while they are in use; the pool of tables is used up
in the middle of a mapping, and the next walk starts from pointers kept from the
last one; a timer list is ordered by unsigned differences. `PROJECT.json` lists every hazard with its line.

**What makes each part correct.**

* Source: one of the two ways of sending at a time, room for every write, no
  piece lost, none sent twice, an end.
* Destination: a unit counts as received only when it is whole; the guest never
  uses a unit that is not; nothing overwrites memory the guest uses; every fault
  is served.
* Handover: the guest starts once, with the memory that no fault can ask for and
  with the state of the source's processor; neither side waits for ever.
* Threads: each in one place, each stack used by one processor and freed once.
* Locks: exclusion and order, whatever the counters have wrapped to.
* Debug shell: each question gets its own answer, and its thread is woken.
* MMIO: an access to an area always comes to its handler, which exists as long as
  it runs; what is unregistered is freed in the end.
* EPT: the walk of the processor finds what the code thinks it mapped, the page of
  a fault is mapped when the guest goes on, and the pool is large enough for what
  must always be mapped.
* Timers: who has expired is called.

## 2. Modules

| Module | Models |
|---|---|
| `PostcopyLink` | units, addresses, messages, the connection |
| `PostcopySource` | `echo-client.c` from `thread_new(seq_transmit_thread)` to its exit |
| `PostcopyDest` | `echo_recv` and `vt_ept_violation` while units are missing |
| `Postcopy` | the composition, its properties, fairness |
| `DemandPaging` | the abstract promise: memory arrives in any order, a processor goes on only on memory that has arrived, the end means all of it has |
| `Handover` | everything before the copy phase: connection, vmmcalls, margins, start of the guest |
| `ThreadSched` | `core/thread.c`: run queue, creation, exit, stop, wakeup, the switch of stacks |
| `Dbgsh` | the debug shell: the thread that asks, the vmmcall and the guest's program that answer, on top of `ThreadSched` |
| `RwSpinlock` | the word of the reader-writer lock, used by `Locks` and `Mmio` |
| `Locks` | the three locks of `spinlock.h`, instruction by instruction |
| `LockPromise` | the abstract promise of the locks: who may be inside together, and tickets in order |
| `Mmio` | `mmio.c` and the part of `vt_ept_violation` that asks it, on several processors |
| `EptTables` | the tables of one processor, `vt_ept.c` of source and destination; `MCEptTables` gives the run its ranges and lets TLC evaluate the hypotheses of its properties |
| `Timer` | `timer.c` |
| `PostcopyProofs`, `HandoverProofs`, `DbgshProofs`, `LocksProofs`, `MmioProofs`, `EptTablesProofs`, `TimerProofs` | theorems about the module of that name, section 4; those about `ThreadSched` are in `DbgshProofs` |
| `ListLemmas` | lemmas about lists, for `MmioProofs`, `TimerProofs` and `EptTablesProofs` |

### How state and actions correspond to the code

`PostcopySource` keeps the names of the variables of `echo-client.c`.
`fail_to_send` is the set of the three flags that are set, named by the send
function each one restarts; `batch` holds the static counters of the three
functions; `tcp_sent` is the callback registered with lwIP (`"none"` stands for
NULL and for callbacks that do nothing). `pc` and `fn` say where in the code each
thread is. A *step* is the code between two accesses that another thread or the
connection could disturb: the test of the room (`tcp_sendbuf_available`) and the
fill of a buffer (`fill_margin`, `fill_requested`), the call of `tcp_write`
(`write_*`), and what follows it (`mark_requested`) are separate actions.

`ParallelThreads = FALSE` means that one processor runs BitVisor threads, and a
thread keeps it until it calls `schedule()`. So it is in a build with
`CONFIG_THREAD_1CPU=1`, and in the configuration of the repository (both `.config`
files and `Makefile.config` have `CONFIG_THREAD_1CPU=0`) on a machine with one
processor. `TRUE` is that configuration on several processors, each of which calls
`schedule()`: the two threads then interleave at every action. Every invariant
of `CopySafe` but `TypeOK` is false there; `CopyParallelTwice` records one that the
repository itself states. The source sends the state of
one processor, so a guest that survives the migration runs on one, and the other
runs are about that case, and so are all theorems about `Postcopy` but `TypeCorrect`.
The destination is modelled with full interleaving in both cases.

The memory areas of `usable_mem_list_gran` are one range of units: the gaps
between them only matter to the arithmetic of `get_next_addr`. An address is its
unit and whether it is the unit's first byte, which is what masking, the bitarray
and the comparison at line 1020 of `echo-client.c` can tell. The payload of a
message is the place the memory was read from (`data`), so that a piece stored at
a wrong place, or twice, is visible: `mem` holds the pieces of guest memory that
have their own content.

`TCP_MSS` and the size of a message are both 1048 bytes, so segments are
messages and acknowledgements count messages. The send buffer of 65535 bytes
holds 62 of them and leaves 559 bytes, and after the 1024 bytes of "Hi" leaves
583: the test `tcp_sndbuf - 1000 >= 0` (the macro has no parentheses) and the
1048 bytes that are written agree on every value that occurs, which is why
`tcp_sendbuf_available` is "room for a message".

`ThreadSched` knows a thread of control by its stack. The tables of `thread.c`
(`td_runnable`, `state`, `currentcpu->thread.tid`) say who runs; `sp[c]` says which
stack processor `c` is really on, and `pc` is where the code on each stack is.
`schedule()` is five actions: the skip of `CONFIG_THREAD_1CPU`, the choice of a
thread under the lock (which also frees the old stack and queues, stops or retires
the running thread), `thread_switch`, and `switched` on the new stack, which releases
the lock; or nothing to run. `thread_wakeup` is two actions, as it takes the lock
twice. Threads behave as their users make them: the boot thread of a processor
never exits, workers exit and never stop, one thread (`dbgsh_thread`) stops and never
exits. `alloc` and the list of free threads panic when they are exhausted, so
`thread_new` is not called then.

`Dbgsh` adds to `ThreadSched` the variables of `vmmcall_dbgsh.c`. `asker` is where
`dbgsh_thread` is between two accesses to them, `caller` where the vmmcall is, which
runs on the boot stack of the processor the guest's program happens to be on. The
messages of `dbgsh_send_to_guest` are three: a read, a write, and the goodbye after
which the program exits. The program may be killed between two vmmcalls.

`Locks` has one action per locked instruction; a failed test in a wait loop is a
stuttering step. `Mmio` takes from it the word of the reader-writer lock, with the
two separate steps of entering, and of marking an area and setting
`unregister_flag`, which no lock covers. A processor is in the guest, in
`vt_ept_violation`, in a handler (locked or not), or in `mmio_register` /
`mmio_unregister`; handlers call these two as the comment in `mmio.c` allows.
`mapped[c]` is what the tables of processor `c` map, which `EptTables` has in detail
and whose only contract `Mmio` uses: registering unmaps it or fails. A search
(`first_area`) is the first place, list after list, where the loops of `mmio.c` stop;
`remove` looks only into the lists the area is in, as `scan` does.

`EptTables` has a table of two entries where the processor has 512, and keeps
everything else: the kept walk (`level`, `gphys`, `entry`), the pool that is handed
out in order and never given back singly, the tables' old contents (`Garbage`), large
pages, and `cleared`. The functions of `vt_ept.c` are operators from tables to
tables, and each entry point is one action, since it holds `mmio_lock` and works on
its own processor's tables. `large` tells source (large pages first) from
destination (single pages). `cur_fill` is `make_room` (the pool is used up), `fill` (its
loop, all turns at once: the k'th new table under the entry of the one before) and `filled`
(the entry it returns); `map_entry` is `cur_fill` and the assignment after it. A walk
(`Walked`) and the loop over the ranges of `getforcemap` (`force_range`) are recursive
functions over levels and turns. Three levels is the least: the root's entries are
not searched by `vt_ept_extern_mapsearch`, so none of them may be a large page.

`Timer` has an action for each section under `timer_lock`; the callback runs after
one, so timers may be set, freed and reused while it runs. `timer_new` without a
free timer returns with the lock held: `timer_lock` then stays TRUE.

One virtual processor: the source saves and sends the state of the processor
that makes the vmmcall and no other, so the guest that starts at the destination
has one.

## 3. Runs

| Run | Question | Result |
|---|---|---|
| `CopySafe` | safety of the copy phase, and `Postcopy` implements `DemandPaging` | holds |
| `CopyLive` | every fault is served, the migration ends | holds |
| `CopyFailures` | no unit comes again after it was received, though `tcp_write` fails | holds |
| `HandoverSafe` | nothing is missing when the guest starts, and it starts | holds |
| `Sched` | threads and stacks on two processors, with and without `CONFIG_THREAD_1CPU`: no panic, no starvation | holds |
| `Dbgsh` | the handshake of the debug shell, with `CONFIG_THREAD_1CPU` | holds |
| `Locks` | `Locks` implements `LockPromise`; who is served | holds |
| `Mmio` | areas used and changed by two processors | holds |
| `EptTables` | the tables against what a walk of the processor finds; the pool is not used up twice | holds |
| `Timer` | order of expiry, every timer is called | holds |
| `CopyParallelTwice` | a received unit never comes again (the debug assertion) | violated on two processors |
| `HandoverState` | the first two packets are the state of the processor | violated in the order of the README |

The properties, and why they are not evident:

* `GuestMemorySafe`: a unit the guest uses is whole and no message for it is on
  its way. It depends on the order `ept_recved` / `set_bitarray` / reset, on both
  bitarrays and on the order of the pieces.
* `DoneIsComplete`: MIG_DONE stops the asking; nothing in the code compares it
  with the destination's own bitarray.
* `OneSender`, `RoomToWrite`: two threads that only look at each other's flags.
* `MarkedIsSent`, `ReceivedIsComplete`, `NotSentTwice`: the two bitarrays
  against the pieces that were really sent and stored.
* `PagingSpec`: the refinement. A step of the code is a step of `DemandPaging` or
  changes nothing it shows; in particular a fault is only resumed when its unit is
  whole, and a unit never arrives twice.
* `FaultServed`, `MigrationEnds`: liveness, see below.
* `StartsWithMargins`, `MarginsBeforeCopy`, `HandoverEnds`: the margins are
  driven by one callback per acknowledgement, and their units count as received
  ever after.
* `OneProcessor`, `InOnePlace`: a thread is queued, and its table entry freed, while
  its processor is still on its stack; `thread_wakeup` changes the state and the queue
  under two acquisitions of the lock.
* `StackInUse`, `NoStackLost`: the stack of a thread that exits is freed by the next
  `schedule()` of any processor.
* `NoBadState`: the panics of `schedule`, `thread_exit` and `thread_will_stop` are not
  reached, and `schedule()` never returns to a thread that has exited.
* `OneAtATime`: what `CONFIG_THREAD_1CPU` promises, and what `ParallelThreads = FALSE`
  takes from it.
* `AnsweredInTurn`, `QuestionStands`: `s` and `r` are written and tested one after the
  other by two processors, and the program on the other side may poll, die and come
  back; still an answer is to the question that stands.
* `AnswerTaken`: on one processor no wake-up is lost. On two it can be: the thread
  tests `r`, the vmmcall answers and finds `stopped` false, or wakes a thread that
  still runs; then the thread stops. TLC finds this when the premise
  `started = {0}` is dropped. From then on the program is asked nothing and only
  polls, which wakes nobody: the shell hangs.
* `PromiseSpec`, `WordsCount`, `EveryoneServed`: the locks are words that several
  processors change without knowing of each other; the refinement says that the
  words always describe a legal set of holders and that tickets are served in order
  although they wrap. A writer is promised nothing: readers that overlap keep it out.
* `NothingFreedIsUsed`, `RemovedLater`: an area is unregistered by a handler that runs
  for it, or for another one; whoever leaves last finds it by the flag. The mark is set before the
  flag: in the other order it is forgotten.
* `NeverMapped`: a page is looked up under the shared lock, and mapped, perhaps as part
  of a large page, while another processor waits to register an area in it.
* `RangeFinds`: the early end of the search relies on the order of a list, and an area
  may be in two.
* `WalkIsTrue`, `MappedRightly`, `FaultResolved`: pointers kept from an earlier walk
  must survive splits, removal and the reuse of the pool, in the middle of a mapping too.
* `RangesFit`: when the pool is used up, the ranges are mapped again, and if that uses it up
  too, `vt_ept_map_page_clear_cleared` panics. `Room` is the condition under which it does
  not: the tables above those of pages, one table of pages for each large page of the
  ranges, and one for the page of the fault, fit the pool. It depends on what a processor
  may have mapped between a clearing and the first single page: large pages only, which
  take no table of pages. `Room` is tight: with one table less TLC finds the panic. With the
  code's 1024 tables of 512 entries, and a handful of ranges (UEFI MMIO), it is a guest-physical
  space of a little less than 1 TB.
* `ForcedKept`: what must always be mapped is mapped again after everything was
  forgotten. The destination breaks this in one case, excluded in the property: the
  first fault after everything was forgotten maps the forced ranges, with large pages,
  and then the page of the fault by itself; if that is in one of these large pages, an
  empty table takes its place and the rest of it is lost. The source maps the large page.
* `Sorted`, `DueIsCalled`: the list is compared in differences that depend on the time
  of the comparison.

### Bounds

`CopySafe` has three units: one in the background copy, one asked for, one more
that either may take next; two pieces per unit, so that a unit can be
interrupted between its pieces and has a piece that is not the last one; a send
buffer of two messages, smaller than two units and as large as one, so that it
fills inside a unit, at its end and between units. The initial states are all
sets of units sent before and all fillings of the buffer, with and without the
stale flag of the margins phase. `CopyLive` has two units, for the cost of
checking liveness. `MaxWriteFailures` bounds the failures of `tcp_write` for want
of memory: one is enough for what it can break. `Handover` has the six margins of
the code, of seven messages each, and a buffer of four, so that each margin, and the virtio
buffers, needs the callback several times.
`ThreadSched` has two processors and two threads besides the boot threads, so that
one can be created while the other exits, in the same table entry, and stacks for one
more than can live, the one that waits to be freed. `Dbgsh` has no such spare: its
worker, in the same table, is created at most once at a time.
`Locks` has three processors, so that two wait for one, and four tickets, one more
than processors, so that the numbers wrap. `Mmio` has two processors, three handles
(PCI configuration space, and two that come and go), four-page
arithmetic over three pages, large pages of two pages that an area may begin or end in, and
two lists that an area may be in both of. `EptTables` has eight pages in four large ones:
one of the VMM, one that cannot be large, two with forced ranges and areas; five tables
beside the root where all pages singly would need six, so that the pool is used up, and the
fewest that `Room` allows. `Timer`
has three timers, so that one is inserted between two, and a clock that stops at 4, twice
the longest interval.
No run uses symmetry: units are numbers, ordered by the cursor.
Deadlock is not checked because a migration ends; in `ThreadSched`, where nothing
ends, `EveryThreadRuns` says more.

### Fairness

`schedule()` takes the first runnable thread and puts the running one at the end
(`thread.c`, lines 159-180), so each thread gets its turns for ever: strong
fairness for the two threads of the source, since each may only be enabled now
and then while the other one polls. The network delivers (`echo_recv`) and the
virtual processor in the fault handler goes on: weak fairness. Nothing is assumed
of the guest: it need not fault. `MigrationEnds` therefore starts from an answered
request: `no_request` is false at first, and the background copy does not begin
before the guest has faulted once. `EveryThreadRuns` assumes
that every thread calls `schedule()` again (the loops of all threads and `vt_mainloop`
do) and that the lock is granted to who waits: it is a ticket lock unless
`CONFIG_THREAD_1CPU` is set, where it is a spin lock and liveness is claimed for one
processor only (`AnswerTaken`), where nobody competes for it. In `Dbgsh` the vmmcall
also goes on, for the guest's processor is in it; the program and the user have no fairness.
In `Locks` a processor that is inside comes out and one that waits looks again, so that
`EveryoneServed` rests on the order of the lock and not on the fairness. `Timer`: the thread
runs again and again and gets the spin lock some day, since nobody keeps it
but `timer_new`; callbacks return.
In `Handover` the vmmcalls are the operator's
and have no fairness; everything they start has weak fairness.

## 4. Proofs

A theorem holds for every value of the constants that the named assumption of the
module allows; a run shows the same property on one instance. Every proof has the same
course: an inductive invariant, one lemma for each action, the property from the
invariant, and PTL for the step to `[]`.

| Module | Theorems | Assumptions |
|---|---|---|
| `PostcopyProofs` | `TypeCorrect` | `LinkAssumption`, `ThreadAssumption` |
| | `OneSenderAlways`, `RoomToWriteAlways`, `NeverSentTwice` | also `Serial` |
| | `GuestMemoryAlwaysSafe`, `DoneIsAlwaysComplete`, `MarkedIsAlwaysSent`, `ReceivedIsAlwaysComplete`, `PagingKept` | also `Serial`, `NoFailure` |
| `HandoverProofs` | `MarginsAlwaysBeforeCopy`, `StartsWithAllMargins` | `HandoverAssumption`, `Room` |
| `DbgshProofs` | `OneProcessorAlways`, `InOnePlaceAlways`, `StackInUseAlways`, `NoStackLostAlways`, `NoBadStateAlways`, `OneAtATimeAlways` (of `ThreadSched`) | `SchedAssumption` |
| | `DbgshUsesThreads`, `DbgshOneAtATime`, `AnsweredInTurnAlways`, `QuestionStandsAlways` | `SchedAssumption` |
| `LocksProofs` | `WordsCountAlways`, `PromiseKept` | `LockAssumption`, `RwAssumption` |
| `MmioProofs` | `NothingFreedIsUsedAlways`, `NeverMappedAlways`, `RangeFindsAlways`, `RemovedLaterAlways` | `MmioAssumption`, `RwAssumption` |
| `EptTablesProofs` | `WalkAlwaysTrue`, `AlwaysMappedRightly`, `AlwaysFaultResolved`, `RangesAlwaysFit` | `EptAssumption` |
| | `AlwaysForcedKept` | also `LowUneven` |
| `TimerProofs` | `InOneListAlways`, `SortedAlways` | `TimerAssumption` |

The invariants themselves are theorems too (`RunInvariant`, `MemoryInvariant`, `HandoverInvariant`,
`SchedInvariant`, `LocksInvariant`, `MmioInvariant`, `EptInvariant`, `TimerInvariant`).

`Serial` is one processor for the threads. It is needed: with the constants of
`CopyParallelTwice` TLC finds every invariant of `CopySafe` but `TypeOK` violated.
`NoFailure` says that `tcp_write` is never refused memory. What is proved from it is false
otherwise, for a piece that is not written is never repeated (section 5). `NeverSentTwice`
does without it, as the run `CopyFailures` does. `Room` of `HandoverProofs` is a send buffer
of two messages. lwIP refuses to build with less (`TCP_SND_BUF >= 2 * TCP_MSS`, `init.c`), and
with one message TLC finds `StartsWithMargins` violated: the state of the processor is
not written while the greeting is not acknowledged, and the first piece of memory is
taken for it. `LowUneven` says that no large page with a page of the first megabyte has
one cache type: the fixed-range MTRRs give the VGA window another type than the memory
around it, and `cache_gmtrr_type_equal` then keeps `vt_ept_map_2mpage` from mapping it. Without
it `vt_ept_map_1mb`, which maps single pages on the source too, might split a large page
of the ranges as the destination does.

### What the inductive invariants say

* `TypeInv` (`TypeOK` of the copy phase) adds `Conserved`: messages on their way,
  received and free room are together the size of the buffer, without which the room
  might exceed it; and `Asked`: before the first request the source is `Quiet`, without
  which an answer might be made for the address 0xffffffffffffffff of `echo_client_init`.
* `SenderInv` (`OneSender`): the background thread, between its test and its use of the
  flags, still sees what it tested (`Decided`). For `RoomToWrite`, a thread reaches
  `tcp_write` only with room (`Kept`), and the other thread is not at one.
* `RunInv` (the copy phase, whether `tcp_write` fails or not): where the one sending thread
  is and what the flags, the counters and the two message buffers hold there (`SourceRuns`),
  also when the last piece of a background unit was refused and `send_margin` goes on
  beyond the unit (`Stalled`); the question of the waiting processor is in at most one
  place between fault and answer (asking, being checked, served, overtaken by the
  background copy, answered: `TokenInv`); MIG_DONE is the last message (`OverInv`). A unit is
  `Open` as long as the source may send of it, and never opened again; the message that
  makes `echo_recv` mark a unit is the last of its unit on the wire, what is on the wire is
  not marked, and what is marked is not open (`OnceInv`). `NotSentTwice` follows without a
  word about pieces that were lost.
* `MemoryInv` (the memory of the guest) is `RunInv` and, when nothing is refused: of every
  unit the first `count(u)` pieces were handed to TCP, those not in memory are on the wire,
  in order and once (`Steady`, `PiecesInv`); what is marked, mapped, or announced by
  `ept_recved` is complete (`ArrivedInv`). None of the parts is inductive alone: that a piece never comes
  twice needs that no unit is answered that the background copy is at, which needs the
  place of the question. `PagingKept` shows each step of the code to be a step of
  `DemandPaging` or a stutter, from this invariant.
* `HandoverInv`: the source writes one stream (greeting, state of the processor, pieces
  of memory in order); what is on the wire is an end of it, and what came before was
  received. So no count of acknowledgements appears in it: callbacks may come for any
  part of a margin.
* `SchedInv`: the lock covers the moment between the change of the tables and the change
  of the stack; the lists are disjoint and hold nobody twice, who runs is in neither, at
  most one thread is in no list and it is the sleeper; every live thread owns a stack of
  its own, and the one to be freed is nobody's; where a processor really is (`OnStackInv`)
  against what the tables say.
* `AnswersInv` (the shell): nobody asks, or a question stands unanswered, or its own
  answer is in `r` or about to be; each with the places of thread and vmmcall where that
  may be. `DbgshUsesThreads` is the refinement that gives it the theorems of the scheduler.
* `LocksInv`: `TicketInv` counts tickets from the one that is served, modulo their number,
  so that nothing depends on where the counters have wrapped; `RwInv` counts a reader that
  still waits, which is why a writer and a waiting reader may be in the word together.
  `PromiseKept` is the refinement; the queue of `LockPromise` is the holders by their distance
  from `now_serving`.
* `MmioInv`: the list of all holds exactly the allocated handles; `mmio[i]` those whose area
  has a part in it, in the order of the addresses; the word of the lock is the number of
  those that read and the sign of one that writes (`RwInv`); who unregisters has the handle
  alone, and neither a driver nor another processor does (`OwnInv`); a handle in use is one
  of a processor inside the lock (`UseInv`). `NeverMapped` needs that a search finds whatever
  overlaps (`RangeIs`), which needs the order of every list and the modulo arithmetic of
  `rangecheck` (`RangecheckIs`), which needs that addresses stay below 2^PhysBits.
* `TimerInv`: the three lists hold every timer once; that the list stays in order needs that no
  timer was set in the future, for then the differences modulo 2^TimeBits are exact.

* `IInv` of `EptTablesProofs`: there are two numberings of the tables in use, `lev` (the level of
  its entries) and `pre` (the address bits above it), such that the root has the top level, an entry that
  points to a table points to one of the level below with the address of that entry, no
  two tables have the same numbers, and each but the root is under an entry (`Numbered`);
  every entry is right for its level and address (`AllRight`); the kept walk, from the kept
  level up, has the entries that stand above the kept address (`KeptOn`). From the first
  two, a walk from the root for page g ends at the one entry that stands above g and
  does not point on (`FoundIs`), and from all three, the walk that goes on from where two
  addresses part is the walk from the root (`Move`). `FillTree` gives new tables their numbers.
  For `RangesFit` the invariant also says that a cleared processor has no table of pages (`Lean`
  with no large page allowed one): tables have different numbers, so there are at most as
  many as there are places for them (`RoomLeft`), and while the ranges are mapped
  the tables of pages stay in the large pages of the ranges and of the fault
  (`ForceRange`, `ClearCleared`). `ForcedKept` follows from the same lemmas, which say of each
  mapping that it loses nothing but what it splits (`Keeps`): on the source nothing, for a
  large page that is there fits again (`LargeMeansFits`).

`ListLemmas` has what the lists of `mmio.c` and `timer.c` share: what the community operators
`RemoveFirst`, `InsertAt` and `SelectInSeq` do to the elements of a list and to its order.

The walk of `EptTables` and its loop over ranges are recursive functions over an interval of
numbers. The induction theorems of the library cannot be used, so `EptTablesProofs` proves
its own for sets of numbers, from the least element (`Upward`, `Downward`), and from them that
such a function exists and satisfies its definition (`Sequence`).

### Only model-checked

* Liveness, which is out of the prover's reach: `FaultServed`, `MigrationEnds`,
  `HandoverEnds`, `EveryThreadRuns`, `AnswerTaken`, `EveryoneServed`, `DueIsCalled`.

## 5. What comments say and the code does not do

Two disagreements are runs (`CopyParallelTwice`, `HandoverState`). Others met while
modelling:

* `request_recv` drops a request for a marked unit as "already sent by sequential
  thread" (`echo-client.c`, line 1624); the bit is set before the unit is sent (line
  1434). If the request was not for the first byte of the unit, no answer is made, and
  the processor waits for the end of the migration. `FaultServed` holds through MIG_DONE
  alone then.
* `seq_transmit_thread` ends under "migraiton is done and msg also sent" (line 1472); the
  callback that says so may be called for the acknowledgement of earlier data, and when
  `tcp_write` of MIG_DONE failed nothing repeats it.
* `rawapi.txt` of lwIP asks the application to try again when `tcp_write` returns ERR_MEM;
  `send_margin` and `postcopy_requested` go on with the next piece, and the unit stays marked
  as sent. `MarkedIsSent` is therefore not among the properties of `CopyFailures`.
* With threads on two processors the room found by `tcp_sendbuf_available` is gone when
  `tcp_write` is called.
* The destination asks for pages in two ranges, e0000-fffff and 86b35000-86b46fff, that the
  list of the source lacks: `select_mem_area` then computes a negative offset.

## 6. Plan

1. *Done*: the migration (`PostcopyLink` ... `Handover`), the scheduler and what rests
   on it (`ThreadSched`, `Dbgsh`), the locks, the MMIO areas, the EPT tables, the timers,
   and the first theorems.
2. *Done*: inductive invariants and theorems for every safety invariant and action property the
   passing runs check, and the refinements of `DemandPaging`, `LockPromise` and, by the shell,
   of `ThreadSched`.
3. *Modules that could follow*: messages and processes (`msg.c`, `process.c`).

## 7. Not modelled

Instruction emulation, processor set-up, boot and loaders (assembly and hardware);
device drivers and the hand-over of the network card; cryptography, storage, VPN
and id management, which the migration does not use; the contents of registers; the
TLB and memory types; messages between processes, which the modelled paths use as plain
calls; the list of I/O port handlers, which is changed by one atomic exchange; the lists of
memory areas, which are constant; closing of the connection, retransmission and windows inside lwIP; the debug and
test messages of `echoctl`. Calls into lwIP are atomic.
