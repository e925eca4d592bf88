----------------------------- MODULE ThreadSched -----------------------------
(***************************************************************************)
(* The threads of BitVisor, core/thread.c: cooperative threads that any    *)
(* processor may run, one run queue, one lock.                             *)
(*                                                                         *)
(* A thread of control is known by its stack: sp[c] is the stack processor *)
(* c is on, whatever the tables say, and pc says where the code on a stack *)
(* is.  schedule() changes the tables first and the stack last, and the    *)
(* lock it took is released by the thread it switches to.                  *)
(*                                                                         *)
(* Threads are used in three ways.  Each processor has its boot thread,    *)
(* which only that processor runs (its main loop).  Workers run and exit.  *)
(* One thread, dbgsh_thread, stops and is woken by the others.             *)
(***************************************************************************)
EXTENDS Integers, Sequences, FiniteSets

CONSTANTS
  NCpus,              \* processors
  MAXNUM_OF_THREADS,
  NStacks,            \* stacks the heap can hold
  Builds              \* values of CONFIG_THREAD_1CPU: disable parallel thread
                      \* processing

ASSUME SchedAssumption ==
  /\ NCpus \in Nat \ {0}
  /\ MAXNUM_OF_THREADS \in Nat /\ MAXNUM_OF_THREADS >= NCpus
  /\ NStacks \in Nat
  /\ Builds \subseteq BOOLEAN

Cpu   == 0 .. NCpus - 1
NoCpu == -1                       \* CPUNUM_ANY; an unlocked lock; thread_cpu ~0
Tid   == 0 .. MAXNUM_OF_THREADS - 1
NoTid == -1

NULL         == 0
BootStack(c) == c + 1
Heap         == NCpus + 1 .. NCpus + NStacks
Stack        == 1 .. NCpus + NStacks

VARIABLES
  thread_lock,             \* the processor that holds it
  thread_cpu,              \* the processor that runs threads (thread_1cpu)
  td_runnable, td_free,    \* the two lists
  state, cpunum, stack, context,   \* fields of td[tid]
  old_stack,               \* the stack of the last thread that exited
  tid, stackaddr,          \* currentcpu->thread.tid, currentcpu->stackaddr
  oldtid,                  \* of the schedule() a processor is in
  sp,                      \* the stack a processor is on
  pc,                      \* where the code on a stack is
  heap,                    \* the stacks that are allocated
  sleeper,                 \* the thread that stops (dbgsh_thread)
  thread_1cpu              \* the build

lists   == <<td_runnable, td_free>>
fields  == <<state, cpunum, stack, context>>
here    == <<tid, stackaddr, oldtid, sp>>
settled == <<sleeper, thread_1cpu>>
vars    == <<thread_lock, thread_cpu, lists, fields, old_stack, here, pc, heap,
             settled>>

State    == {"EXIT", "RUN", "WILL_STOP", "STOP"}
Location == {"run", "exit", "waking",                    \* outside schedule()
             "enter", "switch", "switched", "release"}   \* inside

Elems(q) == {q[i] : i \in DOMAIN q}

TypeOK ==
  /\ thread_lock \in Cpu \cup {NoCpu}
  /\ thread_cpu \in Cpu \cup {NoCpu}
  /\ td_runnable \in Seq(Tid) /\ td_free \in Seq(Tid)
  /\ state \in [Tid -> State]
  /\ cpunum \in [Tid -> Cpu \cup {NoCpu}]
  /\ stack \in [Tid -> Stack \cup {NULL}]
  /\ context \in [Tid -> Stack \cup {NULL}]
  /\ old_stack \in Heap \cup {NULL}
  /\ tid \in [Cpu -> Tid]
  /\ stackaddr \in [Cpu -> Stack]
  /\ oldtid \in [Cpu -> Tid]
  /\ sp \in [Cpu -> Stack]
  /\ pc \in [Stack -> Location]
  /\ heap \subseteq Heap
  /\ sleeper \in Tid \cup {NoTid}
  /\ thread_1cpu \in Builds

\* thread_init_global and thread_init_pcpu of every processor.
Init ==
  /\ thread_lock = NoCpu /\ thread_cpu = NoCpu
  /\ td_runnable = <<>>
  /\ td_free = [i \in 1 .. MAXNUM_OF_THREADS - NCpus |-> NCpus + i - 1]
  /\ state = [t \in Tid |-> IF t \in Cpu THEN "RUN" ELSE "EXIT"]
  /\ cpunum = [t \in Tid |-> IF t \in Cpu THEN t ELSE NoCpu]
  /\ stack = [t \in Tid |-> NULL]
  /\ context = [t \in Tid |-> NULL]
  /\ old_stack = NULL
  /\ tid = [c \in Cpu |-> c] /\ oldtid = tid
  /\ stackaddr = [c \in Cpu |-> BootStack(c)]
  /\ sp = stackaddr
  /\ pc = [s \in Stack |-> "run"]
  /\ heap = {}
  /\ sleeper = NoTid
  /\ thread_1cpu \in Builds

-----------------------------------------------------------------------------
at(c)      == pc[sp[c]]
goto(c, l) == pc' = [pc EXCEPT ![sp[c]] = l]

\* schedule_skip (true): with CONFIG_THREAD_1CPU one processor at a time
\* runs threads, and the others return from schedule() at once.
skipped(c) == thread_1cpu /\ thread_cpu \notin {NoCpu, c}

\* A mistake the checks find: the processor is given up with every switch.
always_let_go(t) == thread_cpu' = IF thread_1cpu THEN NoCpu ELSE thread_cpu

\* schedule_skip (false), when the thread to run is a boot thread.
let_go_for_boot(t) ==
  thread_cpu' = IF thread_1cpu /\ cpunum[t] # NoCpu THEN NoCpu ELSE thread_cpu

\* schedule() is called, by thread_exit() in the end.
schedule(c) ==
  /\ at(c) \in {"run", "exit"}
  /\ IF skipped(c)
     THEN goto(c, "run") /\ UNCHANGED thread_cpu
     ELSE /\ goto(c, "enter")
          /\ thread_cpu' = IF thread_1cpu THEN c ELSE thread_cpu
  /\ UNCHANGED <<thread_lock, lists, fields, old_stack, here, heap, settled>>

MayRun(c, t) == cpunum[t] \in {NoCpu, c}

\* A mistake the checks find: the old stack is not freed.
keep_old_stack == UNCHANGED heap

free_old_stack == heap' = heap \ {old_stack}

\* Nothing to run: back to the caller.
schedule_none(c) ==
  /\ at(c) = "enter" /\ thread_lock = NoCpu
  /\ \A t \in Elems(td_runnable) : ~MayRun(c, t)
  /\ free_old_stack
  /\ old_stack' = NULL
  /\ goto(c, IF thread_1cpu THEN "release" ELSE "run")
  /\ UNCHANGED <<thread_lock, thread_cpu, lists, fields, here, settled>>

\* schedule_skip (false), after the lock is released.
schedule_release(c) ==
  /\ at(c) = "release"
  /\ thread_cpu' = NoCpu
  /\ goto(c, "run")
  /\ UNCHANGED <<thread_lock, lists, fields, old_stack, here, heap, settled>>

Without(q, i) == SubSeq(q, 1, i - 1) \o SubSeq(q, i + 1, Len(q))

\* The running thread t leaves its processor, q is left of the run queue.
\* THREAD_EXIT: its stack is freed by the next schedule(), for it is in use.
leave_exit(t, q) ==
  /\ state[t] = "EXIT"
  /\ old_stack' = stack'[t]
  /\ td_free' = Append(td_free, t)
  /\ td_runnable' = q
  /\ UNCHANGED state

\* A mistake the checks find: the thread goes to the head of the queue.
leave_run_first(t, q) ==
  /\ state[t] = "RUN"
  /\ td_runnable' = <<t>> \o q
  /\ old_stack' = NULL
  /\ UNCHANGED <<state, td_free>>

\* THREAD_RUN.
leave_run(t, q) ==
  /\ state[t] = "RUN"
  /\ td_runnable' = Append(q, t)
  /\ old_stack' = NULL
  /\ UNCHANGED <<state, td_free>>

\* A mistake the checks find: a break is missing.
leave_stop_queued(t, q) ==
  /\ state[t] = "WILL_STOP"
  /\ state' = [state EXCEPT ![t] = "STOP"]
  /\ td_runnable' = Append(q, t)
  /\ old_stack' = NULL
  /\ UNCHANGED td_free

\* THREAD_WILL_STOP.
leave_stop(t, q) ==
  /\ state[t] = "WILL_STOP"
  /\ state' = [state EXCEPT ![t] = "STOP"]
  /\ td_runnable' = q
  /\ old_stack' = NULL
  /\ UNCHANGED td_free

leave(t, q) == leave_exit(t, q) \/ leave_run(t, q) \/ leave_stop(t, q)

\* A mistake the checks find: the lock is released before the switch.
lock_released_early(c) == UNCHANGED thread_lock

\* The lock is kept until the stacks are switched.
keep_lock(c) == thread_lock' = c

\* The first thread of the queue that this processor may run.
schedule_found(c, i) ==
  LET old == tid[c]
      new == td_runnable[i]
  IN
  /\ at(c) = "enter" /\ thread_lock = NoCpu
  /\ MayRun(c, new) /\ \A j \in 1 .. i - 1 : ~MayRun(c, td_runnable[j])
  /\ free_old_stack
  /\ tid' = [tid EXCEPT ![c] = new]
  /\ stack' = [stack EXCEPT ![old] = stackaddr[c]]
  /\ stackaddr' = [stackaddr EXCEPT ![c] = stack[new]]
  /\ leave(old, Without(td_runnable, i))
  /\ let_go_for_boot(new)
  /\ keep_lock(c)
  /\ oldtid' = [oldtid EXCEPT ![c] = old]
  /\ goto(c, "switch")
  /\ UNCHANGED <<cpunum, context, sp, settled>>

\* thread_switch: the registers of the old thread are saved on its stack.
thread_switch(c) ==
  /\ at(c) = "switch"
  /\ context' = [context EXCEPT ![oldtid[c]] = sp[c]]
  /\ sp' = [sp EXCEPT ![c] = context[tid[c]]]
  /\ goto(c, "switched")
  /\ UNCHANGED <<thread_lock, thread_cpu, lists, state, cpunum, stack, old_stack,
                 tid, stackaddr, oldtid, heap, settled>>

\* switched, called by schedule() of the new thread, or by thread_start1.
switched(c) ==
  /\ at(c) = "switched"
  /\ thread_lock' = NoCpu
  /\ goto(c, "run")
  /\ UNCHANGED <<thread_cpu, lists, fields, old_stack, here, heap, settled>>

-----------------------------------------------------------------------------
\* thread_new and thread_new0.  Neither alloc() nor the list may be exhausted:
\* both panic.
thread_new(c, s) ==
  LET t == Head(td_free) IN
  /\ at(c) = "run" /\ thread_lock = NoCpu
  /\ s \in Heap \ heap /\ td_free # <<>>
  /\ heap' = heap \cup {s}
  /\ td_free' = Tail(td_free)
  /\ td_runnable' = Append(td_runnable, t)
  /\ state' = [state EXCEPT ![t] = "RUN"]
  /\ cpunum' = [cpunum EXCEPT ![t] = NoCpu]
  /\ stack' = [stack EXCEPT ![t] = s]
  /\ context' = [context EXCEPT ![t] = s]
  /\ pc' = [pc EXCEPT ![s] = "switched"]
  /\ sleeper' \in IF sleeper = NoTid THEN {t, NoTid} ELSE {sleeper}
  /\ UNCHANGED <<thread_lock, thread_cpu, old_stack, here, thread_1cpu>>

\* A mistake the checks find: the stack is freed while it is in use.
thread_exit_free(c) ==
  /\ at(c) = "run" /\ thread_lock = NoCpu
  /\ cpunum[tid[c]] = NoCpu /\ tid[c] # sleeper
  /\ state' = [state EXCEPT ![tid[c]] = "EXIT"]
  /\ goto(c, "exit")
  /\ heap' = heap \ {sp[c]}
  /\ UNCHANGED <<thread_lock, thread_cpu, lists, cpunum, stack, context,
                 old_stack, here, settled>>

\* thread_exit, called by a worker: schedule() follows.
thread_exit(c) ==
  /\ at(c) = "run" /\ thread_lock = NoCpu
  /\ cpunum[tid[c]] = NoCpu /\ tid[c] # sleeper
  /\ state' = [state EXCEPT ![tid[c]] = "EXIT"]
  /\ goto(c, "exit")
  /\ UNCHANGED <<thread_lock, thread_cpu, lists, cpunum, stack, context,
                 old_stack, here, heap, settled>>

thread_will_stop(c) ==
  /\ at(c) = "run" /\ thread_lock = NoCpu
  /\ tid[c] = sleeper
  /\ state' = [state EXCEPT ![sleeper] = "WILL_STOP"]
  /\ UNCHANGED <<thread_lock, thread_cpu, lists, cpunum, stack, context,
                 old_stack, here, pc, heap, settled>>

\* A mistake the checks find: a thread that has not stopped yet is queued too.
thread_wakeup_any(c) ==
  /\ at(c) = "run" /\ thread_lock = NoCpu
  /\ sleeper # NoTid /\ tid[c] # sleeper
  /\ state' = [state EXCEPT ![sleeper] = "RUN"]
  /\ goto(c, IF state[sleeper] = "RUN" THEN "run" ELSE "waking")
  /\ UNCHANGED <<thread_lock, thread_cpu, lists, cpunum, stack, context,
                 old_stack, here, heap, settled>>

\* thread_wakeup: the state is changed first ...
thread_wakeup(c) ==
  /\ at(c) = "run" /\ thread_lock = NoCpu
  /\ sleeper # NoTid /\ tid[c] # sleeper
  /\ state' = [state EXCEPT ![sleeper] = "RUN"]
  /\ goto(c, IF state[sleeper] = "STOP" THEN "waking" ELSE "run")
  /\ UNCHANGED <<thread_lock, thread_cpu, lists, cpunum, stack, context,
                 old_stack, here, heap, settled>>

\* ... and a thread that had stopped is queued, under the lock again.
thread_wakeup_add(c) ==
  /\ at(c) = "waking" /\ thread_lock = NoCpu
  /\ td_runnable' = Append(td_runnable, sleeper)
  /\ goto(c, "run")
  /\ UNCHANGED <<thread_lock, thread_cpu, td_free, fields, old_stack, here, heap,
                 settled>>

-----------------------------------------------------------------------------
Schedule(c) ==
  \/ schedule(c)
  \/ schedule_none(c)
  \/ schedule_release(c)
  \/ \E i \in DOMAIN td_runnable : schedule_found(c, i)
  \/ thread_switch(c)
  \/ switched(c)

Next ==
  \E c \in Cpu :
    \/ Schedule(c)
    \/ \E s \in Heap : thread_new(c, s)
    \/ thread_exit(c)
    \/ thread_will_stop(c)
    \/ thread_wakeup(c)
    \/ thread_wakeup_add(c)

Spec == Init /\ [][Next]_vars

-----------------------------------------------------------------------------
\* No two processors are on one stack, although a thread is in the run queue
\* before its processor has left its stack: the lock that schedule() took is
\* released by the thread it switches to.
OneProcessor == \A c, d \in Cpu : c # d => sp[c] # sp[d]

\* Wakers of the stopped thread that are about to queue it.
Waking == {c \in Cpu : at(c) = "waking"}

\* Every thread is in one place: on a processor, once in one of the lists, or
\* stopped and not about to be queued twice.  schedule(), thread_exit(),
\* thread_wakeup() and thread_new() move them; the state changes at other times
\* than the place.
InOnePlace ==
  LET running == Elems(tid)
      q == td_runnable \o td_free
      listed == Elems(q)
  IN
  /\ TypeOK
  /\ Cardinality(running) = NCpus
  /\ Cardinality(listed) = Len(q)
  /\ running \cap listed = {}
  /\ \A t \in Tid \ (running \cup listed) :
       /\ t = sleeper
       /\ IF state[t] = "STOP" THEN Waking = {} ELSE Cardinality(Waking) = 1

\* The stack a processor is on is its boot stack or allocated, until the
\* processor has left it: thread_exit() leaves it to the next schedule() to free.
StackInUse == \A c \in Cpu : sp[c] \in heap \cup {BootStack(d) : d \in Cpu}

\* Every allocated stack belongs to a thread that lives or is about to be freed.
NoStackLost ==
  heap = {stack[t] : t \in {u \in Tid \ Elems(td_free) : cpunum[u] = NoCpu}}
           \cup ({old_stack} \ {NULL})

\* schedule(), thread_wakeup() and thread_will_stop() meet no bad state, and
\* schedule() does not return to a thread that has exited (it has nowhere to
\* return to), even when it skips or finds nothing to run.
NoBadState ==
  \A c \in Cpu :
    /\ at(c) # "switch" => state[tid[c]] # "STOP"
    /\ at(c) = "run" => state[tid[c]] # "EXIT"

\* CONFIG_THREAD_1CPU, "Disable parallel thread processing": the threads that
\* any processor may run never run on two.
OneAtATime ==
  thread_1cpu =>
    \A c, d \in Cpu :
      c # d => {sp[c], sp[d]} \cap {BootStack(e) : e \in Cpu} # {}

-----------------------------------------------------------------------------
\* Every thread calls schedule() again and again, and the ticket lock is granted
\* in the order in which it was asked for.
Fairness == \A c \in Cpu : SF_vars(Schedule(c)) /\ SF_vars(thread_wakeup_add(c))

FairSpec == Spec /\ Fairness

\* The run queue starves no thread: who may run gets a processor.  With
\* CONFIG_THREAD_1CPU a processor may find another one running threads for ever.
EveryThreadRuns ==
  \A t \in Tid : ~thread_1cpu /\ state[t] = "RUN" ~> t \in Elems(tid)
=============================================================================
