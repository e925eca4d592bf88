----------------------------- MODULE DbgshProofs -----------------------------
(***************************************************************************)
(* Proofs about modules ThreadSched and Dbgsh: the threads, and the debug  *)
(* shell that runs on them, for every number of processors, threads and    *)
(* stacks, and both builds.                                                *)
(***************************************************************************)
EXTENDS Dbgsh, SequenceTheorems, FiniteSetTheorems, TLAPS

-----------------------------------------------------------------------------
(***************************************************************************)
(* The inductive invariant.  That no two processors are on one stack needs *)
(* where every thread is, whose every stack is, and what the lock covers:  *)
(* the moment between schedule(), which changes the tables, and            *)
(* thread_switch, which changes the stack.                                 *)
(***************************************************************************)
Once(q) == \A i, j \in DOMAIN q : q[i] = q[j] => i = j

Running == {tid[c] : c \in Cpu}
Listed  == Elems(td_runnable) \cup Elems(td_free)
Alive   == Tid \ Elems(td_free)

\* The stack of a thread: cpunum says whose boot thread it is.
home(t) == IF t \in Cpu THEN BootStack(t) ELSE stack[t]

\* The lock is held from the change of the tables to switched().
LockCovers ==
  \A c \in Cpu : thread_lock = c <=> at(c) \in {"switch", "switched"}

Boots == \A t \in Tid : cpunum[t] = IF t \in Cpu THEN t ELSE NoCpu

\* The lists have no thread twice, nor a thread of the other list.
ListsInv ==
  /\ Once(td_runnable) /\ Once(td_free)
  /\ Elems(td_runnable) \cap Elems(td_free) = {}
  /\ \A t \in Elems(td_runnable) : state[t] = "RUN"
  /\ \A t \in Elems(td_free) : t \notin Cpu /\ state[t] = "EXIT"

\* A running thread is on one processor and not listed.  Who has exited is a
\* worker on its way to schedule().
RunningInv ==
  /\ \A c \in Cpu : tid[c] \notin Listed /\ (tid[c] \in Cpu => tid[c] = c)
  /\ \A c, d \in Cpu : c # d => tid[c] # tid[d]
  /\ \A c \in Cpu :
       /\ state[tid[c]] # "STOP"
       /\ state[tid[c]] = "WILL_STOP" => tid[c] = sleeper
       /\ state[tid[c]] = "EXIT" =>
            tid[c] \notin Cpu \cup {sleeper} /\ at(c) \in {"exit", "enter"}
       /\ at(c) = "exit" => state[tid[c]] = "EXIT"

\* Only the sleeper may be nowhere, stopped or about to be queued by one waker.
SleeperInv ==
  /\ sleeper \notin Cpu \cup Elems(td_free)
  /\ \A t \in Tid \ (Running \cup Listed) :
       /\ t = sleeper
       /\ state[t] \in {"STOP", "RUN"}
       /\ state[t] = "RUN" <=> \E c \in Cpu : at(c) = "waking"
  /\ \A c \in Cpu : at(c) = "waking" =>
       sleeper # NoTid /\ sleeper \notin Running \cup Listed
  /\ \A c, d \in Cpu : at(c) = "waking" /\ at(d) = "waking" => c = d

\* The allocated stacks: one for every worker that lives, and the last one left.
StacksInv ==
  /\ \A t \in Alive \ Cpu : stack[t] \in heap /\ stack[t] # old_stack
  /\ \A t, u \in Alive \ Cpu : t # u => stack[t] # stack[u]
  /\ old_stack \in heap \cup {NULL}
  /\ NoStackLost

\* The stack a processor is on, and what is saved of the others.
OnStackInv ==
  /\ \A c \in Cpu :
       /\ stackaddr[c] = home(tid[c])
       /\ at(c) # "switch" => sp[c] = home(tid[c])
       /\ at(c) = "switch" =>
            /\ sp[c] = home(oldtid[c]) /\ oldtid[c] \notin Running
            /\ oldtid[c] \in Elems(td_free) => sp[c] = old_stack
            /\ oldtid[c] \in Cpu => oldtid[c] = c
            /\ context[tid[c]] = home(tid[c]) /\ pc[home(tid[c])] = "switched"
  /\ \A t \in Alive \ Running :
       /\ stack[t] = home(t)
       /\ \/ \E c \in Cpu : at(c) = "switch" /\ oldtid[c] = t
          \/ context[t] = home(t) /\ pc[home(t)] = "switched"

\* CONFIG_THREAD_1CPU.
OneCpuInv ==
  /\ \A c \in Cpu : at(c) = "release" => thread_1cpu /\ tid[c] \in Cpu
  /\ thread_1cpu => \A c \in Cpu :
       /\ tid[c] \notin Cpu => thread_cpu = c
       /\ at(c) \in {"enter", "release"} => thread_cpu = c
       /\ at(c) = "switch" /\ sp[c] \in Heap =>
            \A d \in Cpu \ {c} : tid[d] \in Cpu

SchedInv ==
  /\ TypeOK /\ LockCovers /\ Boots /\ ListsInv /\ RunningInv /\ SleeperInv
  /\ StacksInv /\ OnStackInv /\ OneCpuInv

-----------------------------------------------------------------------------
\* What the operations of the lists do to their elements.
LEMMA ElemsEmpty == Elems(<<>>) = {} /\ Once(<<>>)
BY DEF Elems, Once

LEMMA ElemsAppend ==
  ASSUME NEW S, NEW q \in Seq(S), NEW e \in S
  PROVE  /\ Append(q, e) \in Seq(S)
         /\ Elems(Append(q, e)) = Elems(q) \cup {e}
         /\ Once(q) /\ e \notin Elems(q) => Once(Append(q, e))
<1>1. Append(q, e) \in Seq(S) /\ Len(Append(q, e)) = Len(q) + 1
  OBVIOUS
<1>2. \A i \in 1 .. Len(q) : Append(q, e)[i] = q[i]
  OBVIOUS
<1>3. Append(q, e)[Len(q) + 1] = e
  OBVIOUS
<1>4. DOMAIN q = 1 .. Len(q) /\ DOMAIN Append(q, e) = 1 .. Len(q) + 1
  BY <1>1
<1>5. Elems(Append(q, e)) = Elems(q) \cup {e}
  BY <1>1, <1>2, <1>3, <1>4 DEF Elems
<1>6. ASSUME Once(q), e \notin Elems(q)
      PROVE  Once(Append(q, e))
  BY <1>1, <1>2, <1>3, <1>4, <1>6 DEF Elems, Once
<1> QED BY <1>1, <1>5, <1>6

LEMMA ElemsTail ==
  ASSUME NEW S, NEW q \in Seq(S), q # <<>>
  PROVE  /\ Tail(q) \in Seq(S)
         /\ Head(q) \in Elems(q) /\ Head(q) \in S
         /\ Elems(q) = Elems(Tail(q)) \cup {Head(q)}
         /\ Once(q) => Once(Tail(q)) /\ Head(q) \notin Elems(Tail(q))
<1>1. Tail(q) \in Seq(S) /\ Len(Tail(q)) = Len(q) - 1 /\ Len(q) \in Nat \ {0}
  OBVIOUS
<1>2. \A i \in 1 .. Len(q) - 1 : Tail(q)[i] = q[i + 1]
  OBVIOUS
<1>3. Head(q) = q[1] /\ Head(q) \in S
  OBVIOUS
<1>4. DOMAIN q = 1 .. Len(q) /\ DOMAIN Tail(q) = 1 .. Len(q) - 1
  BY <1>1
<1>6. Elems(q) = Elems(Tail(q)) \cup {Head(q)}
  <2>1. Elems(q) = {q[i] : i \in 1 .. Len(q)} BY <1>4 DEF Elems
  <2>2. Elems(Tail(q)) = {q[i + 1] : i \in 1 .. Len(q) - 1}
    BY <1>2, <1>4 DEF Elems
  <2>3. 1 \in 1 .. Len(q) /\ \A i \in 1 .. Len(q) - 1 : i + 1 \in 1 .. Len(q)
    BY <1>1
  <2>4. \A i \in 1 .. Len(q) : i = 1 \/ \E j \in 1 .. Len(q) - 1 : i = j + 1
    <3> TAKE i \in 1 .. Len(q)
    <3>1. i = 1 \/ (i - 1 \in 1 .. Len(q) - 1 /\ i = (i - 1) + 1) BY <1>1
    <3> QED BY <3>1
  <2> QED BY <2>1, <2>2, <2>3, <2>4, <1>3
<1>7. ASSUME Once(q)
      PROVE  Once(Tail(q)) /\ Head(q) \notin Elems(Tail(q))
  <2>1. Once(Tail(q))
    BY <1>1, <1>2, <1>4, <1>7 DEF Once
  <2>2. \A i \in 1 .. Len(q) - 1 : Tail(q)[i] # q[1]
    BY <1>1, <1>2, <1>4, <1>7 DEF Once
  <2> QED BY <2>1, <2>2, <1>3, <1>4 DEF Elems
<1> QED BY <1>1, <1>3, <1>6, <1>7 DEF Elems

LEMMA ElemsWithout ==
  ASSUME NEW S, NEW q \in Seq(S), NEW i \in DOMAIN q, Once(q)
  PROVE  /\ Without(q, i) \in Seq(S)
         /\ Elems(Without(q, i)) = Elems(q) \ {q[i]}
         /\ Once(Without(q, i))
<1> DEFINE w == Without(q, i)
<1>1. i \in 1 .. Len(q) /\ Len(q) \in Nat /\ DOMAIN q = 1 .. Len(q)
  OBVIOUS
<1>2. /\ SubSeq(q, 1, i - 1) \in Seq(S) /\ Len(SubSeq(q, 1, i - 1)) = i - 1
      /\ \A k \in 1 .. i - 1 : SubSeq(q, 1, i - 1)[k] = q[k]
  BY <1>1
<1>3. /\ SubSeq(q, i + 1, Len(q)) \in Seq(S)
      /\ Len(SubSeq(q, i + 1, Len(q))) = Len(q) - i
      /\ \A k \in 1 .. Len(q) - i : SubSeq(q, i + 1, Len(q))[k] = q[i + k]
  BY <1>1
<1>4. /\ w \in Seq(S) /\ Len(w) = Len(q) - 1 /\ DOMAIN w = 1 .. Len(q) - 1
      /\ \A k \in 1 .. Len(q) - 1 : w[k] = IF k < i THEN q[k] ELSE q[k + 1]
  <2> DEFINE u == SubSeq(q, 1, i - 1)
             v == SubSeq(q, i + 1, Len(q))
  <2>1. w = u \o v BY DEF Without
  <2> HIDE DEF u, v, w
  <2>2. w \in Seq(S) /\ Len(w) = Len(u) + Len(v)
    BY <2>1, <1>2, <1>3 DEF u, v
  <2>3. \A k \in 1 .. Len(u) + Len(v) :
          w[k] = IF k <= Len(u) THEN u[k] ELSE v[k - Len(u)]
    BY <2>1, <1>2, <1>3 DEF u, v
  <2>4. Len(u) = i - 1 /\ Len(v) = Len(q) - i BY <1>2, <1>3 DEF u, v
  <2>5. ASSUME NEW k \in 1 .. Len(q) - 1
        PROVE  w[k] = IF k < i THEN q[k] ELSE q[k + 1]
    <3>1. CASE k < i
      <4>1. k \in 1 .. i - 1 /\ w[k] = u[k] BY <3>1, <2>3, <2>4, <1>1
      <4> QED BY <4>1, <1>2, <3>1 DEF u
    <3>2. CASE ~(k < i)
      <4>0. k - (i - 1) \in 1 .. Len(q) - i /\ k \in 1 .. Len(u) + Len(v)
            /\ ~(k <= Len(u))
        BY <3>2, <2>4, <1>1
      <4>1. k - (i - 1) \in 1 .. Len(q) - i /\ w[k] = v[k - (i - 1)]
        BY <4>0, <2>3, <2>4
      <4>2. i + (k - (i - 1)) = k + 1 BY <1>1
      <4> QED BY <4>1, <4>2, <1>3, <3>2 DEF v
    <3> QED BY <3>1, <3>2
  <2> QED BY <2>2, <2>4, <2>5, <1>1
<1>5. \A k \in 1 .. Len(q) : k # i =>
        \E m \in 1 .. Len(q) - 1 : w[m] = q[k]
  <2> TAKE k \in 1 .. Len(q)
  <2> HAVE k # i
  <2>1. CASE k < i BY <2>1, <1>1, <1>4
  <2>2. CASE k > i
    <3>1. k - 1 \in 1 .. Len(q) - 1 /\ w[k - 1] = q[k] BY <2>2, <1>1, <1>4
    <3> QED BY <3>1
  <2> QED BY <2>1, <2>2, <1>1
<1>6. \A k \in 1 .. Len(q) - 1 :
        \E m \in 1 .. Len(q) : m # i /\ w[k] = q[m] /\ m = IF k < i THEN k ELSE k + 1
  BY <1>1, <1>4
<1>7. Elems(w) = Elems(q) \ {q[i]}
  <2>1. Elems(w) = {w[k] : k \in 1 .. Len(q) - 1} BY <1>4 DEF Elems
  <2>2. Elems(q) = {q[k] : k \in 1 .. Len(q)} BY <1>1 DEF Elems
  <2>3. \A k \in 1 .. Len(q) : q[k] = q[i] <=> k = i BY <1>1 DEF Once
  <2> HIDE DEF w
  <2>4. ASSUME NEW x \in Elems(w) PROVE x \in Elems(q) \ {q[i]}
    <3>1. PICK k \in 1 .. Len(q) - 1 : x = w[k] BY <2>1
    <3>2. PICK m \in 1 .. Len(q) : m # i /\ w[k] = q[m] BY <1>6
    <3> QED BY <3>1, <3>2, <2>2, <2>3
  <2>5. ASSUME NEW x \in Elems(q) \ {q[i]} PROVE x \in Elems(w)
    <3>1. PICK k \in 1 .. Len(q) : x = q[k] /\ k # i BY <2>2
    <3> QED BY <3>1, <2>1, <1>5
  <2> QED BY <2>4, <2>5
<1>8. Once(w)
  BY <1>1, <1>4, <1>6 DEF Once
<1> QED BY <1>4, <1>7, <1>8

-----------------------------------------------------------------------------
LEMMA Constants ==
  /\ Cpu \subseteq Tid /\ NoCpu \notin Cpu /\ NoTid \notin Tid
  /\ Heap \subseteq Stack /\ NULL \notin Stack
  /\ \A c \in Cpu : BootStack(c) \in Stack \ Heap
  /\ \A c, d \in Cpu : BootStack(c) = BootStack(d) => c = d
BY SchedAssumption DEF Cpu, Tid, NoCpu, NoTid, Heap, Stack, NULL, BootStack

\* No stack has two owners.
LEMMA Homes ==
  ASSUME SchedInv
  PROVE  /\ \A c \in Cpu : tid[c] \in Alive /\ tid[c] \in Running
         /\ \A t \in Alive : home(t) \in Stack /\ home(t) # old_stack
         /\ \A t, u \in Alive : t # u => home(t) # home(u)
         /\ \A t \in Alive \ Cpu : home(t) \in heap
         /\ old_stack \in Heap \cup {NULL}
<1> USE Constants DEF SchedInv, TypeOK
<1>1. \A c \in Cpu : tid[c] \in Alive /\ tid[c] \in Running
  BY DEF RunningInv, Running, Alive, Listed
<1>2. \A t \in Alive \ Cpu : home(t) \in heap /\ home(t) \in Heap
  BY DEF StacksInv, home
<1>3. \A t \in Alive : home(t) \in Stack /\ home(t) # old_stack
  BY <1>2 DEF StacksInv, home, Alive
<1>4. \A t, u \in Alive : t # u => home(t) # home(u)
  BY <1>2 DEF StacksInv, home, Alive
<1> QED BY <1>1, <1>2, <1>3, <1>4

\* Where a processor is that is not in the middle of a switch.
LEMMA NoOneOnStack ==
  ASSUME SchedInv
  PROVE  /\ \A c \in Cpu, t \in Alive :
              sp[c] = home(t) <=>
                IF at(c) = "switch" THEN t = oldtid[c] ELSE t = tid[c]
         /\ \A c \in Cpu : sp[c] = old_stack =>
              at(c) = "switch" /\ oldtid[c] \in Elems(td_free)
         /\ \A c \in Cpu : at(c) = "switch" => thread_lock = c
<1> USE Constants, Homes DEF SchedInv
<1>1. \A c \in Cpu : at(c) = "switch" => thread_lock = c
  BY DEF LockCovers
<1>2. ASSUME NEW c \in Cpu, at(c) # "switch"
      PROVE  sp[c] = home(tid[c]) /\ tid[c] \in Alive
  BY <1>2 DEF OnStackInv
<1>3. ASSUME NEW c \in Cpu, at(c) = "switch", oldtid[c] \in Alive
      PROVE  sp[c] = home(oldtid[c])
  BY <1>3 DEF OnStackInv
<1>4. ASSUME NEW c \in Cpu, at(c) = "switch", oldtid[c] \notin Alive
      PROVE  sp[c] = old_stack /\ oldtid[c] \in Elems(td_free)
  BY <1>4 DEF OnStackInv, Alive, TypeOK
<1> QED BY <1>1, <1>2, <1>3, <1>4

\* The first of the properties, on which the steps of pc depend.
LEMMA OneStack ==
  ASSUME SchedInv
  PROVE  OneProcessor
<1> SUFFICES ASSUME NEW c \in Cpu, NEW d \in Cpu, c # d PROVE sp[c] # sp[d]
  BY DEF OneProcessor
<1> USE Homes, NoOneOnStack DEF SchedInv
<1>1. at(c) # "switch" \/ at(d) # "switch" BY DEF LockCovers
<1>2. tid[c] # tid[d] /\ tid[c] \in Alive /\ tid[d] \in Alive
  BY DEF RunningInv
<1>3. CASE at(c) # "switch" /\ at(d) # "switch"
  BY <1>2, <1>3 DEF OnStackInv
<1>4. ASSUME NEW e \in Cpu, NEW f \in Cpu, at(e) # "switch", at(f) = "switch"
      PROVE  sp[e] # sp[f]
  <2>1. sp[e] = home(tid[e]) /\ tid[e] \in Alive /\ tid[e] \in Running
    BY <1>4 DEF OnStackInv
  <2>2. oldtid[f] \notin Running BY <1>4 DEF OnStackInv
  <2> QED BY <2>1, <2>2, <1>4
<1> QED BY <1>1, <1>3, <1>4

\* A processor that stays on its stack goes to another place of the code: no
\* other processor does, and no thread that waits for a processor.
LEMMA PcStep ==
  ASSUME SchedInv, NEW c \in Cpu, NEW l, goto(c, l), sp' = sp
  PROVE  /\ \A d \in Cpu : at(d)' = IF d = c THEN l ELSE at(d)
         /\ \A t \in Alive :
              t # tid[c] /\ at(c) # "switch" => pc'[home(t)] = pc[home(t)]
<1> USE Homes, NoOneOnStack, OneStack
<1>1. pc \in [Stack -> Location] /\ sp \in [Cpu -> Stack]
  BY DEF SchedInv, TypeOK
<1>2. \A st \in Stack : pc'[st] = IF st = sp[c] THEN l ELSE pc[st]
  BY <1>1 DEF goto
<1>3. \A d \in Cpu : at(d)' = IF d = c THEN l ELSE at(d)
  BY <1>1, <1>2 DEF at, OneProcessor
<1> QED BY <1>1, <1>2, <1>3

-----------------------------------------------------------------------------
\* One lemma per action: it keeps every part of the invariant.
LEMMA ScheduleKeeps ==
  ASSUME SchedInv, NEW c \in Cpu, schedule(c)
  PROVE  SchedInv'
<1> DEFINE l == IF skipped(c) THEN "run" ELSE "enter"
<1> USE Constants DEF SchedInv, schedule, lists, fields, here, settled
<1>1. /\ goto(c, l) /\ sp' = sp /\ at(c) \in {"run", "exit"}
      /\ thread_1cpu /\ thread_cpu \notin {NoCpu, c} => l = "run"
  BY DEF skipped
<1>2. /\ \A d \in Cpu : at(d)' = IF d = c THEN l ELSE at(d)
      /\ \A t \in Alive : t # tid[c] => pc'[home(t)] = pc[home(t)]
  BY <1>1, PcStep
<1>3. TypeOK'
  BY <1>1 DEF TypeOK, goto, Location
<1>4. LockCovers'
  BY <1>1, <1>2 DEF LockCovers
<1>5. Boots' /\ ListsInv' /\ StacksInv'
  BY DEF Boots, ListsInv, StacksInv, NoStackLost, Alive
\* Who has exited is the one who runs threads: it does not skip.
<1>6. l = "run" => state[tid[c]] # "EXIT"
  BY <1>1 DEF RunningInv, OneCpuInv, skipped, NoCpu
<1>7. RunningInv'
  BY <1>1, <1>2, <1>6 DEF RunningInv, Listed
<1>8. SleeperInv'
  BY <1>1, <1>2 DEF SleeperInv, Listed, Running
<1>9. OnStackInv'
  BY <1>1, <1>2, Homes DEF OnStackInv, Listed, Running, Alive, home, RunningInv
<1>10. OneCpuInv'
  BY <1>1, <1>2 DEF OneCpuInv, skipped
<1> QED BY <1>3, <1>4, <1>5, <1>7, <1>8, <1>9, <1>10

\* A worker's boot thread waits in the run queue, so that something is found.
LEMMA BootQueued ==
  ASSUME SchedInv, NEW c \in Cpu, tid[c] \notin Cpu
  PROVE  c \in Elems(td_runnable) /\ MayRun(c, c)
<1> USE Constants DEF SchedInv
<1>1. c \in Alive BY DEF ListsInv, Alive
<1>2. c \notin Running BY DEF RunningInv, Running
<1>3. c \in Listed BY <1>2 DEF SleeperInv
<1> QED BY <1>1, <1>3 DEF Listed, Alive, MayRun, Boots

LEMMA ScheduleNoneKeeps ==
  ASSUME SchedInv, NEW c \in Cpu, schedule_none(c)
  PROVE  SchedInv'
<1> DEFINE l == IF thread_1cpu THEN "release" ELSE "run"
<1> USE Constants DEF SchedInv, schedule_none, lists, fields, here, settled
<1>1. /\ goto(c, l) /\ sp' = sp /\ at(c) = "enter" /\ thread_lock = NoCpu
      /\ heap' = heap \ {old_stack} /\ old_stack' = NULL
  BY DEF free_old_stack
<1>2. /\ \A d \in Cpu : at(d)' = IF d = c THEN l ELSE at(d)
      /\ \A t \in Alive : t # tid[c] => pc'[home(t)] = pc[home(t)]
  BY <1>1, PcStep
<1>3. tid[c] \in Cpu
  BY BootQueued
<1>4. \A d \in Cpu : at(d) \notin {"switch", "switched"}
  BY <1>1 DEF LockCovers
<1>5. TypeOK'
  BY <1>1 DEF TypeOK, goto, Location
<1>6. LockCovers' /\ Boots' /\ ListsInv'
  BY <1>1, <1>2 DEF LockCovers, Boots, ListsInv
<1>7. RunningInv'
  BY <1>1, <1>2, <1>3 DEF RunningInv, Listed
<1>8. SleeperInv'
  BY <1>1, <1>2 DEF SleeperInv, Listed, Running
<1>9. StacksInv'
  <2>1. NULL \notin Heap BY DEF Heap, NULL
  <2>2. heap' = {stack[t] : t \in {u \in Tid \ Elems(td_free) : cpunum[u] = NoCpu}}
    <3>1. \A t \in Tid \ Elems(td_free) : cpunum[t] = NoCpu => stack[t] # old_stack
      BY DEF StacksInv, Alive, Boots
    <3>2. NULL \notin heap BY <2>1 DEF TypeOK
    <3> QED BY <1>1, <3>1, <3>2 DEF StacksInv, NoStackLost
  <2>3. \A t \in Alive \ Cpu : stack[t] \in heap' /\ stack[t] # NULL
    BY <1>1, <2>1 DEF StacksInv, TypeOK
  <2> QED BY <1>1, <2>2, <2>3 DEF StacksInv, NoStackLost, Alive
<1>10. OnStackInv'
  BY <1>1, <1>2, <1>4 DEF OnStackInv, Listed, Running, Alive, home, RunningInv
<1>11. OneCpuInv'
  BY <1>1, <1>2, <1>3 DEF OneCpuInv
<1> QED BY <1>5, <1>6, <1>7, <1>8, <1>9, <1>10, <1>11

LEMMA ScheduleReleaseKeeps ==
  ASSUME SchedInv, NEW c \in Cpu, schedule_release(c)
  PROVE  SchedInv'
<1> USE Constants DEF SchedInv, schedule_release, lists, fields, here, settled
<1>1. goto(c, "run") /\ sp' = sp /\ at(c) = "release" /\ thread_cpu' = NoCpu
  OBVIOUS
<1>2. /\ \A d \in Cpu : at(d)' = IF d = c THEN "run" ELSE at(d)
      /\ \A t \in Alive : t # tid[c] => pc'[home(t)] = pc[home(t)]
  BY <1>1, PcStep
\* Nobody else runs threads: the processor that gives them up did.
<1>3. /\ thread_1cpu /\ thread_cpu = c /\ tid[c] \in Cpu
      /\ \A d \in Cpu \ {c} : tid[d] \in Cpu /\ at(d) \notin {"enter", "release"}
  BY <1>1 DEF OneCpuInv
<1>4. TypeOK'
  BY <1>1 DEF TypeOK, goto, Location
<1>5. LockCovers' /\ Boots' /\ ListsInv' /\ StacksInv'
  BY <1>1, <1>2 DEF LockCovers, Boots, ListsInv, StacksInv, NoStackLost, Alive
<1>6. RunningInv'
  BY <1>1, <1>2, <1>3 DEF RunningInv, Listed
<1>7. SleeperInv'
  BY <1>1, <1>2 DEF SleeperInv, Listed, Running
<1>8. OnStackInv'
  BY <1>1, <1>2, Homes DEF OnStackInv, Listed, Running, Alive, home, RunningInv
<1>9. OneCpuInv'
  BY <1>1, <1>2, <1>3 DEF OneCpuInv
<1> QED BY <1>4, <1>5, <1>6, <1>7, <1>8, <1>9

LEMMA SwitchedKeeps ==
  ASSUME SchedInv, NEW c \in Cpu, switched(c)
  PROVE  SchedInv'
<1> USE Constants DEF SchedInv, switched, lists, fields, here, settled
<1>1. goto(c, "run") /\ sp' = sp /\ at(c) = "switched" /\ thread_lock' = NoCpu
  OBVIOUS
<1>2. /\ \A d \in Cpu : at(d)' = IF d = c THEN "run" ELSE at(d)
      /\ \A t \in Alive : t # tid[c] => pc'[home(t)] = pc[home(t)]
  BY <1>1, PcStep
<1>3. \A d \in Cpu \ {c} : at(d) \notin {"switch", "switched"}
  BY <1>1 DEF LockCovers
<1>4. TypeOK'
  BY <1>1 DEF TypeOK, goto, Location
<1>5. LockCovers'
  BY <1>1, <1>2, <1>3 DEF LockCovers
<1>6. Boots' /\ ListsInv' /\ StacksInv'
  BY DEF Boots, ListsInv, StacksInv, NoStackLost, Alive
<1>7. RunningInv'
  BY <1>1, <1>2 DEF RunningInv, Listed
<1>8. SleeperInv'
  BY <1>1, <1>2 DEF SleeperInv, Listed, Running
<1>9. OnStackInv'
  BY <1>1, <1>2, <1>3, Homes DEF OnStackInv, Listed, Running, Alive, home, RunningInv
<1>10. OneCpuInv'
  BY <1>1, <1>2 DEF OneCpuInv
<1> QED BY <1>4, <1>5, <1>6, <1>7, <1>8, <1>9, <1>10

LEMMA ThreadSwitchKeeps ==
  ASSUME SchedInv, NEW c \in Cpu, thread_switch(c)
  PROVE  SchedInv'
<1> USE Constants DEF SchedInv, thread_switch, lists, settled
<1> DEFINE old == oldtid[c]
           new == tid[c]
<1>1. /\ at(c) = "switch" /\ goto(c, "switched")
      /\ context' = [context EXCEPT ![old] = sp[c]]
      /\ sp' = [sp EXCEPT ![c] = home(new)]
      /\ sp[c] = home(old) /\ pc[home(new)] = "switched"
      /\ old \notin Running /\ new \in Alive /\ new \in Running /\ old # new
  BY Homes DEF OnStackInv
<1>2. \A d \in Cpu \ {c} : at(d) \notin {"switch", "switched"} /\ sp[d] = home(tid[d])
  BY <1>1 DEF LockCovers, OnStackInv
<1>3. /\ pc \in [Stack -> Location] /\ sp \in [Cpu -> Stack]
      /\ sp[c] # home(new)
      /\ \A d \in Cpu \ {c} : sp[d] # sp[c]
      /\ pc' = [pc EXCEPT ![sp[c]] = "switched"]
  BY <1>1, NoOneOnStack, OneStack DEF TypeOK, OneProcessor, goto
<1>4. \A d \in Cpu : at(d)' = IF d = c THEN "switched" ELSE at(d)
  BY <1>1, <1>3, Homes DEF at
<1>5. \A t \in Alive : t # old => pc'[home(t)] = pc[home(t)]
  BY <1>1, <1>3, Homes, NoOneOnStack
<1>6. TypeOK'
  BY <1>1, Homes DEF TypeOK, goto, Location
<1>7. LockCovers'
  BY <1>1, <1>2, <1>4 DEF LockCovers
<1>8. Boots' /\ ListsInv' /\ StacksInv'
  BY DEF Boots, ListsInv, StacksInv, NoStackLost, Alive
<1>9. RunningInv'
  BY <1>1, <1>4 DEF RunningInv, Listed
<1>10. SleeperInv'
  BY <1>1, <1>4 DEF SleeperInv, Listed, Running
<1>11. OnStackInv'
  <2>1. \A d \in Cpu : stackaddr'[d] = home(tid[d]) /\ sp'[d] = home(tid[d])
    BY <1>1, <1>2, <1>3 DEF OnStackInv
  <2>2. ASSUME NEW t \in Alive \ Running
        PROVE  stack[t] = home(t) /\ context'[t] = home(t) /\ pc'[home(t)] = "switched"
    <3>1. CASE t = old
      BY <3>1, <1>1, <1>3, Homes DEF OnStackInv, TypeOK
    <3>2. CASE t # old
      <4>1. ~\E d \in Cpu : at(d) = "switch" /\ oldtid[d] = t
        BY <3>2, <1>1, <1>2
      <4> QED BY <3>2, <4>1, <1>5, <1>1 DEF OnStackInv, TypeOK, Alive
    <3> QED BY <3>1, <3>2
  <2>3. /\ UNCHANGED <<home(new), Alive, Running>> /\ \A t \in Tid : home(t)' = home(t)
    BY DEF home, Alive, Running
  <2> QED BY <2>1, <2>2, <2>3, <1>1, <1>2, <1>4 DEF OnStackInv, Alive, home, Running
<1>12. OneCpuInv'
  BY <1>1, <1>2, <1>4 DEF OneCpuInv
<1> QED BY <1>6, <1>7, <1>8, <1>9, <1>10, <1>11, <1>12

LEMMA ThreadExitKeeps ==
  ASSUME SchedInv, NEW c \in Cpu, thread_exit(c)
  PROVE  SchedInv'
<1> USE Constants DEF SchedInv, thread_exit, lists, here, settled
<1>1. /\ goto(c, "exit") /\ sp' = sp /\ at(c) = "run"
      /\ state' = [state EXCEPT ![tid[c]] = "EXIT"]
      /\ tid[c] \notin Cpu \cup {sleeper} /\ tid[c] \in Tid
  BY DEF TypeOK, Boots, Cpu, NoCpu
<1>2. /\ \A d \in Cpu : at(d)' = IF d = c THEN "exit" ELSE at(d)
      /\ \A t \in Alive : t # tid[c] => pc'[home(t)] = pc[home(t)]
  BY <1>1, PcStep
<1>3. \A t \in Tid : state'[t] = IF t = tid[c] THEN "EXIT" ELSE state[t]
  BY <1>1 DEF TypeOK
<1>4. TypeOK'
  BY <1>1 DEF TypeOK, goto, Location, State
<1>5. LockCovers' /\ Boots' /\ StacksInv'
  BY <1>1, <1>2 DEF LockCovers, Boots, StacksInv, NoStackLost, Alive
<1>6. ListsInv'
  <2>1. Elems(td_runnable) \subseteq Tid /\ Elems(td_free) \subseteq Tid
    BY DEF TypeOK, Elems
  <2> QED BY <1>3, <2>1 DEF ListsInv, RunningInv, Listed
<1>7. RunningInv'
  <2>1. \A d \in Cpu \ {c} : tid[d] \in Tid /\ tid[d] # tid[c]
    BY DEF RunningInv, TypeOK
  <2> QED BY <1>1, <1>2, <1>3, <2>1 DEF RunningInv, Listed
<1>8. SleeperInv'
  BY <1>1, <1>2, <1>3 DEF SleeperInv, Listed, Running
<1>9. OnStackInv'
  BY <1>1, <1>2, Homes DEF OnStackInv, Listed, Running, Alive, home, RunningInv
<1>10. OneCpuInv'
  BY <1>1, <1>2 DEF OneCpuInv
<1> QED BY <1>4, <1>5, <1>6, <1>7, <1>8, <1>9, <1>10

LEMMA ThreadWillStopKeeps ==
  ASSUME SchedInv, NEW c \in Cpu, thread_will_stop(c)
  PROVE  SchedInv'
<1> USE Constants DEF SchedInv, thread_will_stop, lists, here, settled
<1>1. /\ pc' = pc /\ sp' = sp /\ at(c) = "run"
      /\ state' = [state EXCEPT ![sleeper] = "WILL_STOP"]
      /\ tid[c] = sleeper /\ tid[c] \in Tid
  BY DEF TypeOK
<1>2. \A d \in Cpu : at(d)' = at(d)
  BY DEF at
<1>3. \A t \in Tid : state'[t] = IF t = tid[c] THEN "WILL_STOP" ELSE state[t]
  BY <1>1 DEF TypeOK
<1>4. TypeOK'
  BY <1>1 DEF TypeOK, State
<1>5. LockCovers' /\ Boots' /\ StacksInv' /\ OneCpuInv'
  BY <1>1, <1>2 DEF LockCovers, Boots, StacksInv, NoStackLost, Alive, OneCpuInv
<1>6. ListsInv'
  <2>1. Elems(td_runnable) \subseteq Tid /\ Elems(td_free) \subseteq Tid
    BY DEF TypeOK, Elems
  <2> QED BY <1>3, <2>1 DEF ListsInv, RunningInv, Listed
<1>7. RunningInv'
  <2>1. \A d \in Cpu \ {c} : tid[d] \in Tid /\ tid[d] # tid[c]
    BY DEF RunningInv, TypeOK
  <2> QED BY <1>1, <1>2, <1>3, <2>1 DEF RunningInv, Listed
<1>8. SleeperInv'
  BY <1>1, <1>2, <1>3 DEF SleeperInv, Listed, Running
<1>9. OnStackInv'
  BY <1>1, <1>2 DEF OnStackInv, Listed, Running, Alive, home
<1> QED BY <1>4, <1>5, <1>6, <1>7, <1>8, <1>9

LEMMA ThreadWakeupKeeps ==
  ASSUME SchedInv, NEW c \in Cpu, thread_wakeup(c)
  PROVE  SchedInv'
<1> DEFINE l == IF state[sleeper] = "STOP" THEN "waking" ELSE "run"
<1> USE Constants DEF SchedInv, thread_wakeup, lists, here, settled
<1>1. /\ goto(c, l) /\ sp' = sp /\ at(c) = "run"
      /\ state' = [state EXCEPT ![sleeper] = "RUN"]
      /\ sleeper \in Tid /\ tid[c] # sleeper
  BY DEF TypeOK
<1>2. /\ \A d \in Cpu : at(d)' = IF d = c THEN l ELSE at(d)
      /\ \A t \in Alive : t # tid[c] => pc'[home(t)] = pc[home(t)]
  BY <1>1, PcStep
<1>3. \A t \in Tid : state'[t] = IF t = sleeper THEN "RUN" ELSE state[t]
  BY <1>1 DEF TypeOK
\* Only a thread that is nowhere has stopped.
<1>4. state[sleeper] = "STOP" =>
        /\ sleeper \notin Running \cup Listed
        /\ \A d \in Cpu : at(d) # "waking"
  <2>1. state[sleeper] = "STOP" => sleeper \notin Running \cup Listed
    BY DEF RunningInv, ListsInv, Running, Listed
  <2> QED BY <1>1, <2>1 DEF SleeperInv
<1>5. TypeOK'
  BY <1>1 DEF TypeOK, goto, Location, State
<1>6. LockCovers' /\ Boots' /\ StacksInv'
  BY <1>1, <1>2 DEF LockCovers, Boots, StacksInv, NoStackLost, Alive
<1>7. ListsInv'
  <2>1. Elems(td_runnable) \subseteq Tid /\ Elems(td_free) \subseteq Tid
    BY DEF TypeOK, Elems
  <2> QED BY <1>3, <2>1 DEF ListsInv, SleeperInv
<1>8. RunningInv'
  <2>1. \A d \in Cpu : tid[d] \in Tid BY DEF TypeOK
  <2>2. \A d \in Cpu : at(d)' = "exit" => at(d) = "exit" /\ tid[d] # sleeper
    BY <1>2 DEF RunningInv
  <2> QED BY <1>1, <1>2, <1>3, <2>1, <2>2 DEF RunningInv, Listed
<1>9. SleeperInv'
  <2>1. \A t \in Tid \ (Running \cup Listed) : t = sleeper /\ state'[t] = "RUN"
    BY <1>3 DEF SleeperInv
  <2>2. ASSUME sleeper \notin Running \cup Listed
        PROVE  \E d \in Cpu : at(d)' = "waking"
    <3>1. CASE state[sleeper] = "STOP" BY <3>1, <1>2
    <3>2. CASE state[sleeper] # "STOP"
      <4>1. PICK d \in Cpu : at(d) = "waking"
        BY <2>2, <3>2, <1>1 DEF SleeperInv
      <4> QED BY <4>1, <1>1, <1>2
    <3> QED BY <3>1, <3>2
  <2>3. \A d \in Cpu : at(d)' = "waking" => sleeper \notin Running \cup Listed
    BY <1>2, <1>4 DEF SleeperInv
  <2>4. \A d, e \in Cpu : at(d)' = "waking" /\ at(e)' = "waking" => d = e
    BY <1>2, <1>4 DEF SleeperInv
  <2> QED BY <2>1, <2>2, <2>3, <2>4, <1>1 DEF SleeperInv, Listed, Running
<1>10. OnStackInv'
  BY <1>1, <1>2, Homes DEF OnStackInv, Listed, Running, Alive, home, RunningInv
<1>11. OneCpuInv'
  BY <1>1, <1>2 DEF OneCpuInv
<1> QED BY <1>5, <1>6, <1>7, <1>8, <1>9, <1>10, <1>11

LEMMA ThreadWakeupAddKeeps ==
  ASSUME SchedInv, NEW c \in Cpu, thread_wakeup_add(c)
  PROVE  SchedInv'
<1> USE Constants DEF SchedInv, thread_wakeup_add, fields, here, settled
<1>1. /\ goto(c, "run") /\ sp' = sp /\ at(c) = "waking"
      /\ sleeper \in Tid /\ sleeper \notin Running \cup Listed
      /\ state[sleeper] = "RUN"
  <2>1. sleeper \in Tid /\ sleeper \notin Running \cup Listed
    BY DEF SleeperInv, TypeOK
  <2> QED BY <2>1 DEF SleeperInv
<1>2. /\ \A d \in Cpu : at(d)' = IF d = c THEN "run" ELSE at(d)
      /\ \A t \in Alive : t # tid[c] => pc'[home(t)] = pc[home(t)]
  BY <1>1, PcStep
<1>3. /\ td_runnable' \in Seq(Tid)
      /\ Elems(td_runnable') = Elems(td_runnable) \cup {sleeper}
      /\ Once(td_runnable')
  BY <1>1, ElemsAppend DEF TypeOK, ListsInv, Listed
<1>4. Listed' = Listed \cup {sleeper} /\ Running' = Running /\ Alive' = Alive
  BY <1>3 DEF Listed, Running, Alive
<1>5. \A d \in Cpu : at(d)' # "waking"
  BY <1>1, <1>2 DEF SleeperInv
<1>6. TypeOK'
  BY <1>1, <1>3 DEF TypeOK, goto, Location
<1>7. LockCovers' /\ Boots' /\ StacksInv'
  BY <1>1, <1>2 DEF LockCovers, Boots, StacksInv, NoStackLost, Alive
<1>8. ListsInv'
  BY <1>1, <1>3 DEF ListsInv, Listed
<1>9. RunningInv'
  <2>1. state[tid[c]] # "EXIT" BY <1>1 DEF RunningInv
  <2> QED BY <1>1, <1>2, <1>4, <2>1, Homes DEF RunningInv
<1>10. SleeperInv'
  BY <1>1, <1>4, <1>5 DEF SleeperInv
<1>11. OnStackInv'
  BY <1>1, <1>2, <1>4, Homes DEF OnStackInv, home, RunningInv, Alive
<1>12. OneCpuInv'
  BY <1>1, <1>2 DEF OneCpuInv
<1> QED BY <1>6, <1>7, <1>8, <1>9, <1>10, <1>11, <1>12

LEMMA ThreadNewKeeps ==
  ASSUME SchedInv, NEW c \in Cpu, NEW st \in Heap, thread_new(c, st)
  PROVE  SchedInv'
<1> USE Constants DEF SchedInv
<1>0. PICK t : t = Head(td_free)
  OBVIOUS
<1>1. /\ t \in Tid /\ t \in Elems(td_free) /\ t \notin Cpu /\ state[t] = "EXIT"
      /\ td_free' \in Seq(Tid) /\ Once(td_free')
      /\ Elems(td_free') = Elems(td_free) \ {t}
  <2>1. td_free \in Seq(Tid) /\ td_free # <<>> /\ td_free' = Tail(td_free)
    BY DEF thread_new, TypeOK
  <2>2. /\ Tail(td_free) \in Seq(Tid) /\ t \in Elems(td_free) /\ t \in Tid
        /\ Elems(td_free) = Elems(Tail(td_free)) \cup {t}
        /\ Once(Tail(td_free)) /\ t \notin Elems(Tail(td_free))
    BY <1>0, <2>1, ElemsTail DEF ListsInv
  <2> QED BY <2>1, <2>2 DEF ListsInv
<1>2. /\ td_runnable' \in Seq(Tid)
      /\ Elems(td_runnable') = Elems(td_runnable) \cup {t}
      /\ Once(td_runnable')
  <2>1. td_runnable' = Append(td_runnable, t) BY <1>0 DEF thread_new
  <2>2. td_runnable \in Seq(Tid) /\ t \notin Elems(td_runnable) /\ Once(td_runnable)
    BY <1>1 DEF TypeOK, ListsInv
  <2> QED BY <1>1, <2>1, <2>2, ElemsAppend
<1>3. /\ at(c) = "run" /\ thread_lock = NoCpu /\ st \in Heap \ heap
      /\ heap' = heap \cup {st} /\ state' = [state EXCEPT ![t] = "RUN"]
      /\ cpunum' = [cpunum EXCEPT ![t] = NoCpu] /\ stack' = [stack EXCEPT ![t] = st]
      /\ context' = [context EXCEPT ![t] = st] /\ pc' = [pc EXCEPT ![st] = "switched"]
      /\ sleeper' \in (IF sleeper = NoTid THEN {t, NoTid} ELSE {sleeper})
      /\ UNCHANGED <<thread_lock, thread_cpu, old_stack, here, thread_1cpu>>
  BY <1>0 DEF thread_new
<1> USE DEF here
<1>4. \A u \in Tid :
        /\ state'[u] = IF u = t THEN "RUN" ELSE state[u]
        /\ cpunum'[u] = IF u = t THEN NoCpu ELSE cpunum[u]
        /\ stack'[u] = IF u = t THEN st ELSE stack[u]
        /\ context'[u] = IF u = t THEN st ELSE context[u]
  BY <1>3 DEF TypeOK
<1>5. \A d \in Cpu :
        at(d) \notin {"switch", "switched"} /\ sp[d] = home(tid[d]) /\ sp[d] # st
  <2>1. \A d \in Cpu : at(d) \notin {"switch", "switched"}
    BY <1>3 DEF LockCovers
  <2>2. \A d \in Cpu : sp[d] = home(tid[d]) /\ tid[d] \in Alive
    BY <2>1, Homes DEF OnStackInv
  <2> QED BY <1>3, <2>1, <2>2, Homes DEF home
<1>6. \A d \in Cpu : at(d)' = at(d)
  BY <1>3, <1>5 DEF at, TypeOK
<1>7. /\ Alive' = Alive \cup {t} /\ t \notin Alive /\ t \notin Running
      /\ Listed' = Listed /\ Running' = Running /\ t \in Listed
  BY <1>1, <1>2, <1>3 DEF Alive, Listed, Running, RunningInv
<1>8. \A u \in Alive : home(u)' = home(u) /\ home(u) # st /\ pc'[home(u)] = pc[home(u)]
  <2>1. \A u \in Alive : home(u)' = home(u)
    BY <1>4, <1>7 DEF home, Alive
  <2>2. \A u \in Alive : home(u) # st
    BY <1>3, Homes DEF home
  <2> QED BY <1>3, <2>1, <2>2, Homes DEF TypeOK
<1>9. home(t)' = st /\ pc'[st] = "switched"
  BY <1>1, <1>3, <1>4 DEF home, TypeOK
<1>10. TypeOK'
  <2>1. st \in Stack BY <1>3
  <2>2. sleeper' \in Tid \cup {NoTid} BY <1>1, <1>3 DEF TypeOK
  <2>3. heap' \subseteq Heap BY <1>3 DEF TypeOK
  <2> QED BY <1>1, <1>2, <1>3, <2>1, <2>2, <2>3 DEF TypeOK, Location, State
<1>11. LockCovers' /\ OneCpuInv'
  BY <1>3, <1>6 DEF LockCovers, OneCpuInv
<1>12. Boots'
  BY <1>1, <1>4 DEF Boots
<1>13. ListsInv'
  <2>1. Elems(td_runnable) \subseteq Tid /\ Elems(td_free) \subseteq Tid
    BY DEF TypeOK, Elems
  <2> QED BY <1>1, <1>2, <1>4, <2>1 DEF ListsInv
<1>14. RunningInv'
  <2>1. \A d \in Cpu : tid[d] \in Tid /\ tid[d] # t
    BY <1>7 DEF Running, TypeOK
  <2>3. \A d \in Cpu : tid[d] = sleeper => sleeper' = sleeper
    BY <1>3, <2>1
  <2>4. \A d \in Cpu : tid[d] # sleeper => tid[d] # sleeper'
    BY <1>3, <2>1
  <2> QED BY <1>3, <1>4, <1>6, <1>7, <2>1, <2>3, <2>4 DEF RunningInv
<1>15. SleeperInv'
  <2>1. sleeper' \notin Cpu \cup Elems(td_free')
    BY <1>1, <1>3 DEF SleeperInv, TypeOK, Elems
  <2>2. \A u \in Tid \ (Running \cup Listed) : sleeper' = sleeper /\ u # t
    BY <1>3, <1>7 DEF SleeperInv
  <2>3. \A d \in Cpu : at(d) = "waking" => sleeper' = sleeper
    BY <1>3 DEF SleeperInv
  <2> QED BY <1>4, <1>6, <1>7, <2>1, <2>2, <2>3 DEF SleeperInv
<1>16. StacksInv'
  <2>1. old_stack # st
    BY <1>3, Homes DEF StacksInv, Heap, NULL
  <2>2. \A u \in Alive \ Cpu : stack[u] \in heap /\ stack[u] # st
    BY <1>3 DEF StacksInv
  <2>3. \A u \in Alive' \ Cpu : stack'[u] \in heap' /\ stack'[u] # old_stack
    BY <1>1, <1>3, <1>4, <1>7, <2>1, <2>2 DEF StacksInv, Alive
  <2>4. \A u, v \in Alive' \ Cpu : u # v => stack'[u] # stack'[v]
    BY <1>1, <1>4, <1>7, <2>2 DEF StacksInv, Alive
  <2>5. NoStackLost'
    <3>1. \A u \in Alive : cpunum'[u] = cpunum[u] /\ stack'[u] = stack[u]
      BY <1>4, <1>7 DEF Alive
    <3>2. cpunum'[t] = NoCpu /\ stack'[t] = st BY <1>1, <1>4
    <3>3. heap = {stack[u] : u \in {v \in Alive : cpunum[v] = NoCpu}}
                   \cup ({old_stack} \ {NULL})
      BY DEF StacksInv, NoStackLost, Alive
    <3>4. {stack'[u] : u \in {v \in Alive' : cpunum'[v] = NoCpu}} =
            {stack[u] : u \in {v \in Alive : cpunum[v] = NoCpu}} \cup {st}
      BY <1>7, <3>1, <3>2
    <3> QED BY <1>3, <3>3, <3>4 DEF NoStackLost, Alive
  <2> QED BY <1>3, <2>3, <2>4, <2>5 DEF StacksInv
<1>17. OnStackInv'
  <2>1. \A d \in Cpu : stackaddr'[d] = home(tid[d])' /\ sp'[d] = home(tid[d])'
    <3>1. \A d \in Cpu : stackaddr[d] = home(tid[d]) /\ sp[d] = home(tid[d])
      BY <1>5 DEF OnStackInv
    <3>2. \A d \in Cpu : tid[d] \in Tid /\ tid[d] # t
      BY <1>7 DEF Running, TypeOK
    <3> QED BY <3>1, <3>2, <1>3, <1>4 DEF home
  <2>2. ASSUME NEW u \in Alive' \ Running'
        PROVE  stack'[u] = home(u)' /\ context'[u] = home(u)' /\ pc'[home(u)'] = "switched"
    <3>1. CASE u = t BY <3>1, <1>1, <1>4, <1>9
    <3>2. CASE u # t
      <4>1. u \in Alive \ Running /\ u \in Tid BY <3>2, <1>7 DEF Alive
      <4>2. stack[u] = home(u) /\ context[u] = home(u) /\ pc[home(u)] = "switched"
        BY <4>1, <1>5 DEF OnStackInv
      <4> QED BY <3>2, <4>1, <4>2, <1>4, <1>8
    <3> QED BY <3>1, <3>2
  <2>3. \A d \in Cpu : at(d)' # "switch" BY <1>5, <1>6
  <2> QED BY <2>1, <2>2, <2>3 DEF OnStackInv, Alive, Running, home
<1> QED BY <1>10, <1>11, <1>12, <1>13, <1>14, <1>15, <1>16, <1>17

LEMMA ScheduleFoundKeeps ==
  ASSUME SchedInv, NEW c \in Cpu, NEW i \in DOMAIN td_runnable, schedule_found(c, i)
  PROVE  SchedInv'
<1> USE Constants DEF SchedInv
<1>0. PICK old, new : old = tid[c] /\ new = td_runnable[i]
  OBVIOUS
<1>1. /\ at(c) = "enter" /\ thread_lock = NoCpu /\ MayRun(c, new)
      /\ heap' = heap \ {old_stack}
      /\ tid' = [tid EXCEPT ![c] = new]
      /\ stack' = [stack EXCEPT ![old] = stackaddr[c]]
      /\ stackaddr' = [stackaddr EXCEPT ![c] = stack[new]]
      /\ leave(old, Without(td_runnable, i))
      /\ thread_cpu' = IF thread_1cpu /\ cpunum[new] # NoCpu THEN NoCpu ELSE thread_cpu
      /\ thread_lock' = c
      /\ oldtid' = [oldtid EXCEPT ![c] = old]
      /\ goto(c, "switch")
      /\ UNCHANGED <<cpunum, context, sp, sleeper, thread_1cpu>>
  BY <1>0 DEF schedule_found, free_old_stack, let_go_for_boot, keep_lock, settled
<1>2. /\ old \in Tid /\ old \in Running /\ old \in Alive /\ old \notin Listed
      /\ new \in Tid /\ new \in Elems(td_runnable) /\ new \notin Running
      /\ new \in Alive /\ new # old /\ state[new] = "RUN"
      /\ new \in Cpu => new = c
      /\ old \in Cpu => old = c
  <2>1. new \in Elems(td_runnable) /\ new \in Tid
    BY <1>0 DEF Elems, TypeOK
  <2>2. old \in Running /\ old \in Alive /\ old \notin Listed /\ old \in Tid
        /\ (old \in Cpu => old = c)
    BY <1>0, Homes DEF RunningInv, TypeOK
  <2>3. new \notin Running BY <2>1 DEF RunningInv, Running, Listed
  <2>4. new \in Alive /\ state[new] = "RUN" BY <2>1 DEF ListsInv, Alive
  <2>5. new \in Cpu => new = c BY <1>1, <2>1 DEF MayRun, Boots
  <2> QED BY <2>1, <2>2, <2>3, <2>4, <2>5
<1>3. /\ \A d \in Cpu : at(d)' = IF d = c THEN "switch" ELSE at(d)
      /\ \A t \in Alive : t # old => pc'[home(t)] = pc[home(t)]
  BY <1>0, <1>1, PcStep
<1>4. \A d \in Cpu :
        at(d) \notin {"switch", "switched"} /\ sp[d] = home(tid[d])
  BY <1>1 DEF LockCovers, OnStackInv
\* The stack of the old thread is kept, and nothing else is.
<1>5. /\ \A t \in Tid : t \notin Cpu => stack'[t] = stack[t]
      /\ \A t \in Tid : home(t)' = home(t)
      /\ \A t \in Alive \ Running : stack'[t] = home(t)
      /\ stack'[old] = home(old)
      /\ stackaddr[c] = home(old)
  <2>1. stackaddr[c] = home(old) BY <1>0 DEF OnStackInv
  <2>2. \A t \in Tid : stack'[t] = IF t = old THEN home(old) ELSE stack[t]
    BY <1>1, <1>2, <2>1 DEF TypeOK
  <2>3. \A t \in Tid : t \notin Cpu => stack'[t] = stack[t]
    BY <2>2 DEF home
  <2>4. \A t \in Alive \ Running : stack'[t] = home(t)
    BY <2>2, <1>2 DEF OnStackInv, Alive
  <2> QED BY <2>1, <2>2, <2>3, <2>4, <1>2 DEF home
<1>6. /\ \A d \in Cpu : tid'[d] = IF d = c THEN new ELSE tid[d]
      /\ \A d \in Cpu : oldtid'[d] = IF d = c THEN old ELSE oldtid[d]
      /\ \A d \in Cpu : stackaddr'[d] = IF d = c THEN home(new) ELSE stackaddr[d]
  BY <1>1, <1>2 DEF TypeOK, OnStackInv
<1>7. Running' = (Running \ {old}) \cup {new}
  BY <1>0, <1>2, <1>6 DEF Running, RunningInv
\* Where the old thread goes.
<1>8. /\ td_runnable' \in Seq(Tid) /\ td_free' \in Seq(Tid)
      /\ Once(td_runnable') /\ Once(td_free')
      /\ Elems(td_runnable') = (Elems(td_runnable) \ {new})
                                 \cup (IF state[old] = "RUN" THEN {old} ELSE {})
      /\ Elems(td_free') = Elems(td_free)
                             \cup (IF state[old] = "EXIT" THEN {old} ELSE {})
      /\ old_stack' = IF state[old] = "EXIT" THEN home(old) ELSE NULL
      /\ \A t \in Tid :
           state'[t] = IF t = old /\ state[t] = "WILL_STOP" THEN "STOP" ELSE state[t]
      /\ state[old] \in {"RUN", "EXIT", "WILL_STOP"}
      /\ state' \in [Tid -> State]
  <2>0. PICK q : q = Without(td_runnable, i)
    OBVIOUS
  <2>1. q \in Seq(Tid) /\ Once(q) /\ Elems(q) = Elems(td_runnable) \ {new}
    BY <1>0, <2>0, ElemsWithout DEF TypeOK, ListsInv
  <2>2. /\ old \notin Elems(q) /\ old \notin Elems(td_free)
        /\ td_free \in Seq(Tid) /\ Once(td_free) /\ td_runnable \in Seq(Tid)
        /\ state \in [Tid -> State]
    BY <1>2, <2>1 DEF Listed, TypeOK, ListsInv
  <2>3. leave_exit(old, q) \/ leave_run(old, q) \/ leave_stop(old, q)
    BY <1>1, <2>0 DEF leave
  <2>4. CASE leave_exit(old, q)
    <3>1. /\ Append(td_free, old) \in Seq(Tid) /\ Once(Append(td_free, old))
          /\ Elems(Append(td_free, old)) = Elems(td_free) \cup {old}
      BY <1>2, <2>2, ElemsAppend
    <3> QED BY <2>1, <2>2, <2>4, <3>1, <1>5 DEF leave_exit
  <2>5. CASE leave_run(old, q)
    <3>1. /\ Append(q, old) \in Seq(Tid) /\ Once(Append(q, old))
          /\ Elems(Append(q, old)) = Elems(q) \cup {old}
      BY <1>2, <2>1, <2>2, ElemsAppend
    <3> QED BY <2>1, <2>2, <2>5, <3>1 DEF leave_run
  <2>6. CASE leave_stop(old, q)
    BY <1>2, <2>1, <2>2, <2>6 DEF leave_stop, State
  <2> QED BY <2>3, <2>4, <2>5, <2>6
<1>9. /\ state[old] = "EXIT" => old \notin Cpu \cup {sleeper}
      /\ state[old] = "WILL_STOP" => old = sleeper
      /\ \A d \in Cpu : at(d) = "waking" => old # sleeper
      /\ \A d \in Cpu : d # c => tid[d] # old /\ tid[d] # new
  BY <1>0, <1>2 DEF RunningInv, SleeperInv, Running
<1>10. /\ Alive' = IF state[old] = "EXIT" THEN Alive \ {old} ELSE Alive
       /\ Listed' = (Listed \ {new}) \cup
                      (IF state[old] = "WILL_STOP" THEN {} ELSE {old})
  BY <1>2, <1>8 DEF Alive, Listed, ListsInv
<1>11. TypeOK'
  <2>1. home(new) \in Stack /\ home(old) \in Stack BY <1>2, Homes
  <2>2. stackaddr' \in [Cpu -> Stack] /\ stack' \in [Tid -> Stack \cup {NULL}]
    BY <1>1, <1>2, <1>5, <2>1 DEF TypeOK, OnStackInv
  <2>3. old_stack' \in Heap \cup {NULL}
    BY <1>2, <1>8, <1>9, Homes DEF TypeOK
  <2>4. pc' \in [Stack -> Location] BY <1>1 DEF TypeOK, goto, Location
  <2>5. /\ tid' \in [Cpu -> Tid] /\ oldtid' \in [Cpu -> Tid]
        /\ thread_cpu' \in Cpu \cup {NoCpu} /\ heap' \subseteq Heap
    BY <1>1, <1>2 DEF TypeOK
  <2> QED BY <1>1, <1>8, <2>2, <2>3, <2>4, <2>5 DEF TypeOK
<1>12. LockCovers' /\ Boots'
  BY <1>1, <1>3, <1>4 DEF LockCovers, Boots
<1>13. ListsInv'
  <2>1. Elems(td_runnable) \subseteq Tid /\ Elems(td_free) \subseteq Tid
    BY DEF TypeOK, Elems
  <2> QED BY <1>2, <1>8, <1>9, <2>1 DEF ListsInv, Listed
<1>14. RunningInv'
  <2>1. \A d \in Cpu : tid'[d] \notin Listed' /\ (tid'[d] \in Cpu => tid'[d] = d)
    BY <1>2, <1>6, <1>9, <1>10 DEF RunningInv
  <2>2. \A d, e \in Cpu : d # e => tid'[d] # tid'[e]
    BY <1>6, <1>9 DEF RunningInv
  <2>3. \A d \in Cpu \ {c} : tid[d] \in Tid /\ state'[tid'[d]] = state[tid[d]]
    BY <1>6, <1>8, <1>9 DEF TypeOK
  <2>4. state'[tid'[c]] = "RUN" BY <1>2, <1>6, <1>8
  <2> QED BY <1>1, <1>3, <1>6, <2>1, <2>2, <2>3, <2>4 DEF RunningInv
<1>15. SleeperInv'
  <2>1. sleeper \notin Cpu \cup Elems(td_free')
    BY <1>8, <1>9 DEF SleeperInv
  <2>2. \A t \in Tid \ (Running' \cup Listed') :
          \/ t = old /\ state[old] = "WILL_STOP"
          \/ t \in Tid \ (Running \cup Listed) /\ t # old
    BY <1>2, <1>7, <1>10
  <2>3. \A d \in Cpu : at(d)' = "waking" <=> at(d) = "waking"
    BY <1>1, <1>3
  <2>4. \A d \in Cpu : at(d) = "waking" => sleeper \notin Running' \cup Listed'
    BY <1>2, <1>7, <1>9, <1>10 DEF SleeperInv, Listed
  <2> QED BY <1>1, <1>8, <1>9, <2>1, <2>2, <2>3, <2>4 DEF SleeperInv
<1>16. StacksInv'
  <2>1. NULL \notin Heap BY DEF Heap, NULL
  <2>2. \A t \in Alive' \ Cpu : t \in Alive \ Cpu /\ stack'[t] = stack[t]
    BY <1>5, <1>10 DEF Alive
  <2>3. \A t \in Alive' \ Cpu : stack'[t] \in heap' /\ stack'[t] # old_stack'
    <3> TAKE t \in Alive' \ Cpu
    <3>1. stack[t] \in heap' /\ stack[t] # NULL
      BY <1>1, <2>1, <2>2 DEF StacksInv, TypeOK
    <3>2. state[old] = "EXIT" => home(t) # home(old)
      BY <1>2, <1>10, <2>2, Homes
    <3> QED BY <1>8, <2>2, <3>1, <3>2 DEF home
  <2>4. \A t, u \in Alive' \ Cpu : t # u => stack'[t] # stack'[u]
    BY <2>2 DEF StacksInv
  <2>5. state[old] = "EXIT" => home(old) \in heap'
    BY <1>1, <1>2, <1>9, Homes DEF home
  <2>6. NoStackLost'
    <3>1. \A t \in Tid : cpunum[t] = NoCpu <=> t \notin Cpu BY DEF Boots
    <3>2. heap' = {stack[t] : t \in Alive \ Cpu}
      <4>1. heap = {stack[t] : t \in Alive \ Cpu} \cup ({old_stack} \ {NULL})
        BY <3>1 DEF StacksInv, NoStackLost, Alive
      <4>2. NULL \notin heap /\ \A t \in Alive \ Cpu : stack[t] # old_stack
        BY <2>1 DEF TypeOK, StacksInv
      <4> QED BY <1>1, <4>1, <4>2
    <3>3. {stack'[t] : t \in {u \in Tid \ Elems(td_free') : cpunum'[u] = NoCpu}}
            = {stack[t] : t \in Alive' \ Cpu}
      BY <1>1, <2>2, <3>1 DEF Alive
    <3>4. CASE state[old] = "EXIT"
      <4>1. old_stack' = stack[old] /\ stack[old] # NULL /\ old \in Alive \ Cpu
        BY <3>4, <1>1, <1>2, <1>8, <1>9, <2>1, <2>5 DEF home, TypeOK
      <4>2. Alive' = Alive \ {old} BY <3>4, <1>10
      <4>3. {stack[t] : t \in Alive \ Cpu} = {stack[t] : t \in Alive' \ Cpu} \cup {stack[old]}
        BY <4>1, <4>2
      <4> QED BY <3>2, <3>3, <4>1, <4>3 DEF NoStackLost
    <3>5. CASE state[old] # "EXIT"
      BY <1>8, <1>10, <3>2, <3>3, <3>5 DEF NoStackLost
    <3> QED BY <3>4, <3>5
  <2> QED BY <1>8, <2>3, <2>4, <2>5, <2>6 DEF StacksInv
<1>17. OnStackInv'
  <2>1. \A d \in Cpu : tid'[d] \in Tid /\ stackaddr'[d] = home(tid'[d])
    BY <1>2, <1>6 DEF OnStackInv, TypeOK
  <2>2. \A d \in Cpu \ {c} : at(d)' # "switch" /\ sp[d] = home(tid'[d])
    BY <1>3, <1>4, <1>6
  <2>3. /\ at(c)' = "switch" /\ sp[c] = home(old) /\ oldtid'[c] = old /\ tid'[c] = new
        /\ old \notin Running'
        /\ old \in Elems(td_free') => sp[c] = old_stack'
    BY <1>0, <1>2, <1>3, <1>4, <1>6, <1>7, <1>8 DEF Listed
  <2>4. ASSUME NEW t \in Alive, t \notin Running
        PROVE  context[t] = home(t) /\ pc'[home(t)] = "switched"
    <3>1. context[t] = home(t) /\ pc[home(t)] = "switched"
      BY <1>4, <2>4 DEF OnStackInv
    <3> QED BY <3>1, <2>4, <1>2, <1>3
  <2>5. ASSUME NEW t \in Alive' \ Running'
        PROVE  stack'[t] = home(t) /\ (t = old \/ (t \in Alive /\ t \notin Running))
    BY <1>2, <1>5, <1>7, <1>10
  <2>6. \A t \in Tid : home(t)' = home(t) BY <1>5
  <2> HIDE DEF SchedInv
  <2>7. \A d \in Cpu : stackaddr'[d] = home(tid[d])'
    BY <2>1, <1>5 DEF home
  <2>8. \A d \in Cpu \ {c} : sp'[d] = home(tid[d])'
    BY <2>1, <2>2, <1>1, <1>5 DEF home
  <2>9. /\ sp'[c] = home(oldtid[c])'
        /\ context'[tid'[c]] = home(tid[c])'
        /\ pc'[home(tid[c])'] = "switched"
    <3>1. context[new] = home(new) /\ pc'[home(new)] = "switched" BY <1>2, <2>4
    <3> QED BY <3>1, <2>3, <1>1, <1>2, <1>5 DEF home
  <2>10. \A t \in Alive' \ Running' :
           /\ stack'[t] = home(t)'
           /\ t = old \/ (context'[t] = home(t)' /\ pc'[home(t)'] = "switched")
    <3> TAKE t \in Alive' \ Running'
    <3>1. t \in Tid BY DEF Alive
    <3>2. home(t)' = home(t) BY <3>1, <2>6
    <3> QED BY <3>2, <2>4, <2>5, <1>1
  <2> QED BY <2>2, <2>3, <2>7, <2>8, <2>9, <2>10, <1>2, <1>1 DEF OnStackInv
<1>18. OneCpuInv'
  <2>1. \A d \in Cpu : at(d)' = "release" => thread_1cpu' /\ tid'[d] \in Cpu
    BY <1>1, <1>3, <1>6 DEF OneCpuInv
  <2>2. ASSUME thread_1cpu
        PROVE  \A d \in Cpu \ {c} : tid[d] \in Cpu /\ at(d) \notin {"enter", "release"}
    BY <2>2, <1>1 DEF OneCpuInv
  <2>3. thread_1cpu => thread_cpu = c BY <1>1 DEF OneCpuInv
  <2>4. cpunum[new] = NoCpu <=> new \notin Cpu BY <1>2 DEF Boots
  <2>5. ASSUME thread_1cpu, NEW d \in Cpu
        PROVE  /\ tid'[d] \notin Cpu => thread_cpu' = d
               /\ at(d)' \notin {"enter", "release"}
    BY <2>2, <2>3, <2>4, <2>5, <1>1, <1>3, <1>6
  <2>6. \A d \in Cpu : at(d)' = "switch" => d = c
    BY <1>3, <1>4
  <2>7. thread_1cpu => \A d \in Cpu \ {c} : tid'[d] \in Cpu
    BY <2>2, <1>6
  <2>8. thread_1cpu' = thread_1cpu BY <1>1
  <2> QED BY <2>1, <2>5, <2>6, <2>7, <2>8 DEF OneCpuInv
<1> QED BY <1>11, <1>12, <1>13, <1>14, <1>15, <1>16, <1>17, <1>18

LEMMA SchedInitially == Init => SchedInv
<1> SUFFICES ASSUME Init PROVE SchedInv
  OBVIOUS
<1> USE Constants DEF Init
<1> DEFINE n == MAXNUM_OF_THREADS - NCpus
<1>1. n \in Nat /\ NCpus \in Nat \ {0} /\ MAXNUM_OF_THREADS \in Nat
  BY SchedAssumption
<1>2. td_free \in Seq(Tid) /\ Once(td_free) /\ Elems(td_free) = Tid \ Cpu
  <2>1. \A i \in 1 .. n : NCpus + i - 1 \in Tid \ Cpu
    BY <1>1 DEF Tid, Cpu
  <2>2. td_free \in [1 .. n -> Tid] /\ DOMAIN td_free = 1 .. n
    BY <2>1
  <2>3. td_free \in Seq(Tid)
    <3>1. td_free \in UNION {[1 .. k -> Tid] : k \in Nat} BY <1>1, <2>2, Zenon
    <3> QED BY <3>1, SeqDef, Zenon
  <2>4. Once(td_free) BY <1>1, <2>2 DEF Once
  <2>5. ASSUME NEW t \in Tid \ Cpu PROVE t \in Elems(td_free)
    <3>1. t - NCpus + 1 \in 1 .. n /\ NCpus + (t - NCpus + 1) - 1 = t
      BY <1>1 DEF Tid, Cpu
    <3> QED BY <3>1 DEF Elems
  <2>6. ASSUME NEW t \in Elems(td_free) PROVE t \in Tid \ Cpu
    <3>1. PICK i \in 1 .. n : t = td_free[i] BY <2>2, <2>6 DEF Elems
    <3> QED BY <3>1, <2>1
  <2> QED BY <2>3, <2>4, <2>5, <2>6
<1>3. td_runnable \in Seq(Tid) /\ Elems(td_runnable) = {} /\ Once(td_runnable)
  BY ElemsEmpty
<1>4. Running = Cpu /\ Listed = Tid \ Cpu /\ Alive = Cpu
  BY <1>2, <1>3 DEF Running, Listed, Alive
<1>5. \A c \in Cpu : at(c) = "run" /\ sp[c] = BootStack(c) /\ tid[c] = c
  BY DEF at
<1>6. TypeOK
  BY <1>2, <1>3 DEF TypeOK, State, Location
<1>7. LockCovers /\ Boots /\ ListsInv
  BY <1>2, <1>3, <1>5 DEF LockCovers, Boots, ListsInv
<1>8. RunningInv
  BY <1>4, <1>5 DEF RunningInv
<1>9. SleeperInv
  BY <1>2, <1>4, <1>5 DEF SleeperInv
<1>10. StacksInv
  BY <1>2, <1>4 DEF StacksInv, NoStackLost, Alive, NoCpu, Cpu
<1>11. OnStackInv
  BY <1>4, <1>5 DEF OnStackInv, home
<1>12. OneCpuInv
  BY <1>5 DEF OneCpuInv
<1> QED BY <1>6, <1>7, <1>8, <1>9, <1>10, <1>11, <1>12 DEF SchedInv

LEMMA SchedStep == SchedInv /\ [Next]_vars => SchedInv'
<1> SUFFICES ASSUME SchedInv, [Next]_vars PROVE SchedInv'
  OBVIOUS
<1>1. CASE UNCHANGED vars
  <2> USE <1>1 DEF vars, lists, fields, here, settled
  <2>1. UNCHANGED <<Listed, Running, Alive>> BY DEF Listed, Running, Alive
  <2>2. \A c \in Cpu : at(c)' = at(c) BY DEF at
  <2>3. TypeOK' BY DEF SchedInv, TypeOK
  <2>4. LockCovers' /\ Boots' /\ ListsInv' /\ OneCpuInv' /\ StacksInv'
    BY <2>1, <2>2 DEF SchedInv, LockCovers, Boots, ListsInv, OneCpuInv, StacksInv,
       NoStackLost
  <2>5. RunningInv' BY <2>1, <2>2 DEF SchedInv, RunningInv
  <2>6. SleeperInv' BY <2>1, <2>2 DEF SchedInv, SleeperInv
  <2>7. OnStackInv' BY <2>1, <2>2 DEF SchedInv, OnStackInv, home
  <2> QED BY <2>3, <2>4, <2>5, <2>6, <2>7 DEF SchedInv
<1>2. ASSUME NEW c \in Cpu, Schedule(c) PROVE SchedInv'
  BY <1>2, ScheduleKeeps, ScheduleNoneKeeps, ScheduleReleaseKeeps,
     ScheduleFoundKeeps, ThreadSwitchKeeps, SwitchedKeeps DEF Schedule
<1>3. ASSUME NEW c \in Cpu, NEW st \in Heap, thread_new(c, st) PROVE SchedInv'
  BY <1>3, ThreadNewKeeps
<1>4. ASSUME NEW c \in Cpu,
             \/ thread_exit(c) \/ thread_will_stop(c)
             \/ thread_wakeup(c) \/ thread_wakeup_add(c)
      PROVE  SchedInv'
  BY <1>4, ThreadExitKeeps, ThreadWillStopKeeps, ThreadWakeupKeeps,
     ThreadWakeupAddKeeps
<1> QED BY <1>1, <1>2, <1>3, <1>4 DEF Next

\* The inductive invariant holds.
THEOREM SchedInvariant == Spec => []SchedInv
BY SchedInitially, SchedStep, PTL DEF Spec

-----------------------------------------------------------------------------
\* As many elements as entries.
LEMMA CountOnce ==
  ASSUME NEW S, NEW q \in Seq(S), Once(q)
  PROVE  Cardinality(Elems(q)) = Len(q)
<1>1. Len(q) \in Nat /\ DOMAIN q = 1 .. Len(q)
  OBVIOUS
<1>2. q \in [1 .. Len(q) -> Elems(q)]
  BY <1>1 DEF Elems
<1>3. q \in Bijection(1 .. Len(q), Elems(q))
  BY <1>1, <1>2 DEF Bijection, Injection, Surjection, Once, Elems, IsInjective
<1> QED BY <1>1, <1>3, FS_CountingElements DEF ExistsBijection

LEMMA ElemsConcat ==
  ASSUME NEW S, NEW q \in Seq(S), NEW p \in Seq(S)
  PROVE  /\ q \o p \in Seq(S)
         /\ Elems(q \o p) = Elems(q) \cup Elems(p)
         /\ Once(q) /\ Once(p) /\ Elems(q) \cap Elems(p) = {} => Once(q \o p)
<1> DEFINE w == q \o p
           m == Len(q)
           n == Len(p)
<1>1. /\ m \in Nat /\ n \in Nat /\ DOMAIN q = 1 .. m /\ DOMAIN p = 1 .. n
      /\ w \in Seq(S) /\ Len(w) = m + n /\ DOMAIN w = 1 .. m + n
  OBVIOUS
<1>2. \A i \in 1 .. m + n : w[i] = IF i <= m THEN q[i] ELSE p[i - m]
  OBVIOUS
<1> HIDE DEF w, m, n
<1>3. \A i \in 1 .. m : i \in 1 .. m + n /\ w[i] = q[i]
  BY <1>1, <1>2
<1>4. \A i \in 1 .. n : i + m \in 1 .. m + n /\ w[i + m] = p[i]
  BY <1>1, <1>2
<1>5. \A i \in 1 .. m + n :
        i \in 1 .. m \/ (i - m \in 1 .. n /\ w[i] = p[i - m] /\ i = (i - m) + m)
  BY <1>1, <1>2
<1>6. Elems(w) = Elems(q) \cup Elems(p)
  <2>1. Elems(w) \subseteq Elems(q) \cup Elems(p)
    BY <1>1, <1>3, <1>5 DEF Elems
  <2>2. Elems(q) \subseteq Elems(w) BY <1>1, <1>3 DEF Elems
  <2>3. Elems(p) \subseteq Elems(w) BY <1>1, <1>4 DEF Elems
  <2> QED BY <2>1, <2>2, <2>3
<1>7. ASSUME Once(q), Once(p), Elems(q) \cap Elems(p) = {}
      PROVE  Once(w)
  <2> SUFFICES ASSUME NEW i \in 1 .. m + n, NEW j \in 1 .. m + n, w[i] = w[j]
               PROVE  i = j
    BY <1>1 DEF Once
  <2>1. \A k \in 1 .. m, h \in 1 .. n : q[k] # p[h]
    BY <1>1, <1>7 DEF Elems
  <2>2. CASE i \in 1 .. m /\ j \in 1 .. m
    BY <2>2, <1>1, <1>3, <1>7 DEF Once
  <2>3. CASE i \notin 1 .. m /\ j \notin 1 .. m
    <3>1. i - m \in 1 .. n /\ j - m \in 1 .. n /\ p[i - m] = p[j - m]
      BY <2>3, <1>5
    <3>2. i - m = j - m BY <3>1, <1>1, <1>7 DEF Once
    <3> QED BY <3>2, <1>1
  <2>4. CASE i \in 1 .. m /\ j \notin 1 .. m
    BY <2>4, <2>1, <1>3, <1>5
  <2>5. CASE i \notin 1 .. m /\ j \in 1 .. m
    BY <2>5, <2>1, <1>3, <1>5
  <2> QED BY <2>2, <2>3, <2>4, <2>5
<1> QED BY <1>1, <1>6, <1>7 DEF w

\* As many running threads as processors.
LEMMA CountRunning ==
  ASSUME SchedInv
  PROVE  Elems(tid) = Running /\ Cardinality(Running) = NCpus
<1>1. tid \in [Cpu -> Tid] /\ DOMAIN tid = Cpu
  BY DEF SchedInv, TypeOK
<1>2. Elems(tid) = Running
  BY <1>1 DEF Elems, Running
<1>3. tid \in Bijection(Cpu, Running)
  BY <1>1 DEF Bijection, Injection, Surjection, IsInjective, Running, SchedInv,
     RunningInv
<1>4. IsFiniteSet(Cpu) /\ Cardinality(Cpu) = NCpus
  <2>1. NCpus \in Nat \ {0} BY SchedAssumption
  <2>2. 0 \in Int /\ NCpus - 1 \in Int BY <2>1
  <2>3. IsFiniteSet(Cpu) /\ Cardinality(Cpu) = IF 0 > NCpus - 1 THEN 0 ELSE NCpus - 1 - 0 + 1
    BY <2>2, FS_Interval DEF Cpu
  <2> QED BY <2>1, <2>3
<1>5. Cardinality(Running) = Cardinality(Cpu)
  BY <1>3, <1>4, FS_Bijection DEF ExistsBijection
<1> QED BY <1>2, <1>4, <1>5

LEMMA CountWaking ==
  ASSUME SchedInv
  PROVE  /\ (~\E c \in Cpu : at(c) = "waking") => Waking = {}
         /\ (\E c \in Cpu : at(c) = "waking") => Cardinality(Waking) = 1
<1>1. ASSUME NEW c \in Cpu, at(c) = "waking" PROVE Waking = {c}
  BY <1>1 DEF SchedInv, SleeperInv, Waking
<1>2. \A c \in Cpu : at(c) = "waking" => Cardinality(Waking) = 1
  BY <1>1, FS_Singleton
<1> QED BY <1>2 DEF Waking

-----------------------------------------------------------------------------
\* schedule(), thread_switch and switched: no two processors are on one stack.
THEOREM OneProcessorAlways == Spec => []OneProcessor
BY SchedInvariant, OneStack, PTL

\* schedule(), thread_exit(), thread_wakeup() and thread_new(): every thread is
\* in one place, the sleeper is queued once.
THEOREM InOnePlaceAlways == Spec => []InOnePlace
<1>1. SchedInv => InOnePlace
  <2> SUFFICES ASSUME SchedInv PROVE InOnePlace
    OBVIOUS
  <2>1. /\ TypeOK
        /\ td_runnable \in Seq(Tid) /\ td_free \in Seq(Tid)
        /\ Once(td_runnable) /\ Once(td_free)
        /\ Elems(td_runnable) \cap Elems(td_free) = {}
    BY DEF SchedInv, TypeOK, ListsInv
  <2>2. /\ Elems(td_runnable \o td_free) = Listed
        /\ Cardinality(Listed) = Len(td_runnable \o td_free)
    <3>1. /\ Elems(td_runnable \o td_free) = Listed
          /\ td_runnable \o td_free \in Seq(Tid) /\ Once(td_runnable \o td_free)
      BY <2>1, ElemsConcat, Zenon DEF Listed
    <3> QED BY <3>1, CountOnce, Zenon
  <2>3. Elems(tid) = Running /\ Cardinality(Running) = NCpus
    BY CountRunning
  <2>4. Running \cap Listed = {}
    BY DEF SchedInv, RunningInv, Running
  <2>5. ASSUME NEW t \in Tid \ (Running \cup Listed)
        PROVE  /\ t = sleeper
               /\ IF state[t] = "STOP" THEN Waking = {} ELSE Cardinality(Waking) = 1
    BY CountWaking DEF SchedInv, SleeperInv
  <2> QED BY <2>1, <2>2, <2>3, <2>4, <2>5 DEF InOnePlace
<1> QED BY <1>1, SchedInvariant, PTL

\* thread_exit() and schedule(): a stack that is in use is not freed.
THEOREM StackInUseAlways == Spec => []StackInUse
<1>1. SchedInv => StackInUse
  <2> SUFFICES ASSUME SchedInv, NEW c \in Cpu
               PROVE  sp[c] \in heap \cup {BootStack(d) : d \in Cpu}
    BY DEF StackInUse
  <2>1. \A t \in Alive : home(t) \in heap \cup {BootStack(d) : d \in Cpu}
    BY Homes DEF home
  <2>2. CASE at(c) # "switch"
    BY <2>1, <2>2, Homes DEF SchedInv, OnStackInv
  <2>3. CASE at(c) = "switch" /\ oldtid[c] \in Alive
    BY <2>1, <2>3 DEF SchedInv, OnStackInv
  <2>4. CASE at(c) = "switch" /\ oldtid[c] \in Elems(td_free)
    <3>1. sp[c] = old_stack /\ sp[c] # NULL
      BY <2>4, Constants DEF SchedInv, OnStackInv, TypeOK
    <3> QED BY <3>1 DEF SchedInv, StacksInv
  <2> QED BY <2>2, <2>3, <2>4 DEF SchedInv, TypeOK, Alive
<1> QED BY <1>1, SchedInvariant, PTL

\* schedule() and thread_new(): an allocated stack has an owner or is freed next.
THEOREM NoStackLostAlways == Spec => []NoStackLost
<1>1. SchedInv => NoStackLost BY DEF SchedInv, StacksInv
<1> QED BY <1>1, SchedInvariant, PTL

\* The panics of thread.c are not reached, and nobody returns to an exited thread.
THEOREM NoBadStateAlways == Spec => []NoBadState
<1>1. SchedInv => NoBadState BY DEF SchedInv, RunningInv, NoBadState
<1> QED BY <1>1, SchedInvariant, PTL

\* schedule_skip(): with CONFIG_THREAD_1CPU workers do not run in parallel.
THEOREM OneAtATimeAlways == Spec => []OneAtATime
<1>1. SchedInv => OneAtATime
  <2> SUFFICES ASSUME SchedInv, thread_1cpu, NEW c \in Cpu, NEW d \in Cpu, c # d
               PROVE  \/ sp[c] \in {BootStack(e) : e \in Cpu}
                      \/ sp[d] \in {BootStack(e) : e \in Cpu}
    BY DEF OneAtATime
  <2> DEFINE B == {BootStack(e) : e \in Cpu}
  <2>1. \A e \in Cpu : at(e) # "switch" /\ tid[e] \in Cpu => sp[e] \in B
    BY DEF SchedInv, OnStackInv, home
  <2>2. \A e \in Cpu : sp[e] \in Heap \cup B
    <3>1. \A st \in Stack : st \in Heap \/ (st - 1 \in Cpu /\ st = BootStack(st - 1))
      BY SchedAssumption DEF Stack, Heap, BootStack, Cpu
    <3> QED BY <3>1 DEF SchedInv, TypeOK
  <2>3. at(c) # "switch" \/ at(d) # "switch" BY DEF SchedInv, LockCovers
  <2>4. CASE at(c) # "switch" /\ at(d) # "switch"
    BY <2>1, <2>4 DEF SchedInv, OneCpuInv
  <2>5. CASE at(c) = "switch" BY <2>1, <2>2, <2>3, <2>5 DEF SchedInv, OneCpuInv
  <2>6. CASE at(d) = "switch" BY <2>1, <2>2, <2>3, <2>6 DEF SchedInv, OneCpuInv
  <2> QED BY <2>4, <2>5, <2>6
<1> QED BY <1>1, SchedInvariant, PTL

-----------------------------------------------------------------------------
(***************************************************************************)
(* The shell only uses threads the way module ThreadSched says: what is    *)
(* proved there holds here.                                                *)
(***************************************************************************)
CpuInv == started \subseteq Cpu /\ cpu \in Cpu

LEMMA DStepOfThreads == CpuInv /\ [DNext]_dvars => CpuInv' /\ [Next]_vars
<1> SUFFICES ASSUME CpuInv, [DNext]_dvars PROVE CpuInv' /\ [Next]_vars
  OBVIOUS
<1> USE DEF CpuInv
<1>1. 0 \in Cpu BY SchedAssumption DEF Cpu
<1>2. ASSUME NEW c \in Cpu,
             \/ Schedule(c)
             \/ \E st \in Heap : thread_new(c, st)
             \/ thread_exit(c) \/ thread_will_stop(c)
             \/ thread_wakeup(c) \/ thread_wakeup_add(c)
      PROVE  Next
  BY <1>2 DEF Next
<1>3. CASE UNCHANGED dvars
  BY <1>3 DEF dvars, program
<1>4. CASE (main \/ killed) /\ UNCHANGED <<started, thread>>
  BY <1>4 DEF main, killed
<1>5. CASE dbgsh_enabled
  <2>1. started' = started BY <1>5 DEF dbgsh_enabled
  <2>2. CASE create BY <2>1, <2>2, <1>2 DEF create
  <2>3. CASE put_r \/ put_s \/ lock_wake \/ unlock
    BY <2>1, <2>3 DEF put_r, put_s, lock_wake, unlock
  <2>4. CASE wake BY <2>1, <2>4, <1>2 DEF wake
  <2>5. CASE wake_add BY <2>1, <2>5, <1>2 DEF wake_add, program
  <2>6. CASE return BY <2>1, <2>6, <1>1 DEF return
  <2> QED BY <1>5, <2>2, <2>3, <2>4, <2>5, <2>6 DEF dbgsh_enabled
<1>6. ASSUME NEW c \in started, dbgsh(c) PROVE CpuInv' /\ [Next]_vars
  BY <1>6 DEF dbgsh, vmcall_dbgsh
<1>7. ASSUME NEW c \in started, dbgsh_thread(c) PROVE CpuInv' /\ [Next]_vars
  <2>1. started' = started /\ cpu' = cpu BY <1>7 DEF dbgsh_thread, program
  <2>2. CASE (\E q \in {In, Out, Bye} : ask(c, q)) \/ test_r(c) \/ test_s(c) \/ take(c)
    BY <2>1, <2>2 DEF ask, test_r, test_s, take
  <2>3. CASE stop(c) BY <2>1, <2>3, <1>2 DEF stop
  <2>4. CASE yield(c) BY <2>1, <2>4, <1>2 DEF yield, Schedule
  <2> QED BY <1>7, <2>2, <2>3, <2>4 DEF dbgsh_thread
<1>8. ASSUME NEW c \in started, main_loop(c) PROVE CpuInv' /\ [Next]_vars
  BY <1>8, <1>2 DEF main_loop, program
<1>9. ASSUME NEW c \in started, worker(c) PROVE CpuInv' /\ [Next]_vars
  BY <1>9, <1>2 DEF worker, program
<1> QED BY <1>3, <1>4, <1>5, <1>6, <1>7, <1>8, <1>9 DEF DNext

LEMMA DInitOfThreads == DInit => CpuInv /\ Init
<1>1. 0 \in Cpu BY SchedAssumption DEF Cpu
<1> QED BY <1>1 DEF DInit, CpuInv

\* core/vmmcall_dbgsh.c calls thread_new, thread_will_stop, thread_wakeup and
\* schedule as threads may: every behaviour of the shell is one of the threads.
THEOREM DbgshUsesThreads == DSpec => Spec
<1>1. DInit /\ [][DNext]_dvars => []CpuInv
  BY DInitOfThreads, DStepOfThreads, PTL
<1>2. DInit /\ [][DNext]_dvars => Init /\ [][Next]_vars
  BY DInitOfThreads, DStepOfThreads, PTL
<1> QED BY <1>2 DEF DSpec, Spec

\* CONFIG_THREAD_1CPU keeps the shell and the other threads apart, and no stack
\* has two processors on it, although a vmmcall wakes the shell while it may be
\* on its way to stop on another processor.
THEOREM DbgshOneAtATime == DSpec => [](OneAtATime /\ OneProcessor)
BY DbgshUsesThreads, OneAtATimeAlways, OneProcessorAlways, PTL

-----------------------------------------------------------------------------
(***************************************************************************)
(* Question and answer.                                                    *)
(***************************************************************************)
Answer(q) == IF q = In THEN Key ELSE Ack

\* A question was asked and no answer is there.
Unanswered ==
  s = question /\ r = None /\ asker \in {"test_r", "stop", "schedule"}

\* The answer is in r.
Answered == r = Answer(question) /\ asker \in {"test_r", "test_s", "stop", "schedule"}

\* Nobody asks.
Silent ==
  /\ s = None /\ r = None /\ asker \in {"ask", "exited"}
  /\ tmp = Answer(question)

AnswersInv ==
  /\ question \in {In, Out, Bye}
  /\ caller = "put_s" => s = question /\ Answered
  /\ caller # "put_s" =>
       \/ Silent
       \/ Unanswered
       \/ s = None /\ Answered
       \/ s = None /\ r = Answer(question) /\ asker = "take"
  /\ caller \in {"off", "guest", "create", "put_r"} /\ a # None =>
       a = question /\ Unanswered
  /\ caller = "create" => b = None \/ (b = Answer(a) /\ a # None)
  /\ caller = "put_r" => b = Answer(a) /\ a # None
  /\ caller \in {"off", "guest", "create", "put_r", "put_s", "lock", "wake",
                 "unlock", "return"}

LEMMA AnswersInitially == DInit => AnswersInv
BY DEF DInit, AnswersInv, Silent, Answer, In, Out, Bye, None

\* The program and its vmmcall.
LEMMA ProgramKeepsAnswers ==
  ASSUME AnswersInv,
         \/ (main \/ killed) /\ UNCHANGED <<started, thread>>
         \/ dbgsh_enabled
         \/ \E c \in Cpu : dbgsh(c)
  PROVE  AnswersInv'
<1> USE DEF AnswersInv, Silent, Unanswered, Answered, Answer, In, Out, Bye, None, Key,
            Ack, shell, thread, program
<1>1. CASE (main \/ killed) /\ UNCHANGED <<started, thread>>
  BY <1>1 DEF main, killed
<1>2. CASE dbgsh_enabled
  <2> USE <1>2 DEF dbgsh_enabled, Calling
  <2>1. CASE create BY <2>1 DEF create
  <2>2. CASE put_r BY <2>2 DEF put_r
  <2>3. CASE put_s BY <2>3 DEF put_s
  <2>4. CASE lock_wake BY <2>4 DEF lock_wake
  <2>5. CASE wake BY <2>5 DEF wake
  <2>6. CASE wake_add BY <2>6 DEF wake_add
  <2>7. CASE unlock BY <2>7 DEF unlock
  <2>8. CASE return BY <2>8 DEF return
  <2> QED BY <2>1, <2>2, <2>3, <2>4, <2>5, <2>6, <2>7, <2>8
<1>3. ASSUME NEW c \in Cpu, dbgsh(c) PROVE AnswersInv'
  BY <1>3 DEF dbgsh, vmcall_dbgsh, Next_b
<1> QED BY <1>1, <1>2, <1>3

\* The thread that asks.
LEMMA AskerKeepsAnswers ==
  ASSUME AnswersInv, NEW c, dbgsh_thread(c)
  PROVE  AnswersInv'
<1> USE DEF AnswersInv, Silent, Unanswered, Answered, Answer, In, Out, Bye, None, Key,
            Ack, shell, thread, program, dbgsh_thread, Asking
<1>1. ASSUME NEW q \in {In, Out, Bye}, ask(c, q) PROVE AnswersInv'
  BY <1>1 DEF ask
<1>2. CASE test_r(c) BY <1>2 DEF test_r
<1>3. CASE test_s(c) BY <1>3 DEF test_s
<1>4. CASE stop(c) BY <1>4 DEF stop
<1>5. CASE yield(c) BY <1>5 DEF yield
<1>6. CASE take(c) BY <1>6 DEF take
<1> QED BY <1>1, <1>2, <1>3, <1>4, <1>5, <1>6

LEMMA AnswersStep == CpuInv /\ AnswersInv /\ [DNext]_dvars => AnswersInv'
<1> SUFFICES ASSUME CpuInv, AnswersInv, [DNext]_dvars PROVE AnswersInv'
  OBVIOUS
<1>1. ASSUME UNCHANGED <<shell, thread, program>> PROVE AnswersInv'
  BY <1>1 DEF AnswersInv, Silent, Unanswered, Answered, shell, thread, program
<1>2. ASSUME NEW c \in started, main_loop(c) \/ worker(c) PROVE AnswersInv'
  BY <1>1, <1>2 DEF main_loop, worker
<1> QED BY <1>1, <1>2, ProgramKeepsAnswers, AskerKeepsAnswers DEF DNext, dvars, CpuInv

LEMMA AnswersInvariant == DSpec => []AnswersInv
<1>1. DInit /\ [][DNext]_dvars => [](CpuInv /\ AnswersInv)
  BY DInitOfThreads, DStepOfThreads, AnswersInitially, AnswersStep, PTL
<1> QED BY <1>1, PTL DEF DSpec

\* dbgsh_send_to_guest returns the answer to its own question, whenever the
\* program polls, is killed and is started again.
THEOREM AnsweredInTurnAlways == DSpec => []AnsweredInTurn
<1>1. AnswersInv => AnsweredInTurn
  BY DEF AnswersInv, Silent, Unanswered, Answered, Answer, AnsweredInTurn, None, In,
     Out, Bye
<1> QED BY <1>1, AnswersInvariant, PTL

\* While the thread waits its question stands until an answer is in r.
THEOREM QuestionStandsAlways == DSpec => []QuestionStands
<1>1. AnswersInv => QuestionStands
  BY DEF AnswersInv, Silent, Unanswered, Answered, Answer, QuestionStands, None, Key,
     Ack
<1> QED BY <1>1, AnswersInvariant, PTL
=============================================================================
