-------------------------------- MODULE Timer --------------------------------
(***************************************************************************)
(* Timers, core/timer.c: threads set and free them, one thread calls them. *)
(*                                                                         *)
(* A timer is in one of three lists.  list1_timer_on is kept in the order  *)
(* in which timers expire, and the thread looks at its head alone.  Every  *)
(* function is one section under timer_lock, but the callback is called    *)
(* after it, so that a timer may be set again, freed or reused meanwhile.  *)
(***************************************************************************)
EXTENDS Integers, Sequences, SequencesExt

CONSTANTS
  MAX_TIMER,       \* timers there are (128)
  TimeBits,        \* a time is computed with modulo 2^TimeBits (64)
  MaxInterval,     \* intervals that are asked for: 1 to MaxInterval
  MaxTime          \* the clock stops: bound of the model

ASSUME TimerAssumption ==
  /\ MAX_TIMER \in Nat /\ MaxInterval \in Nat /\ MaxTime \in Nat
  /\ TimeBits \in Nat /\ 2 ^ TimeBits > MaxTime + MaxInterval

Timer  == 1 .. MAX_TIMER
Nobody == 0

VARIABLES
  timer_lock,                        \* held for good
  on, off, free,                     \* list1_timer_on, _off and _free
  enable, settime, interval,         \* fields, 0 in a timer that is not enabled
  calling,                           \* the timer whose callback the thread is in
  now                                \* get_time()

lists  == <<on, off, free>>
fields == <<enable, settime, interval>>
vars   == <<timer_lock, lists, fields, calling, now>>

TypeOK ==
  /\ timer_lock \in BOOLEAN
  /\ on \in Seq(Timer) /\ off \in Seq(Timer) /\ free \in Seq(Timer)
  /\ enable \in [Timer -> BOOLEAN]
  /\ settime \in [Timer -> 0 .. MaxTime]
  /\ interval \in [Timer -> 0 .. MaxInterval]
  /\ calling \in Timer \cup {Nobody}
  /\ now \in 0 .. MaxTime

\* timer_init_global.
Init ==
  /\ timer_lock = FALSE
  /\ on = <<>> /\ off = <<>> /\ free = [i \in Timer |-> MAX_TIMER + 1 - i]
  /\ enable = [t \in Timer |-> FALSE]
  /\ settime = [t \in Timer |-> 0] /\ interval = settime
  /\ calling = Nobody
  /\ now = 0

minus(x, y) == (x - y) % 2 ^ TimeBits
elapsed(t)  == minus(now, settime[t])

-----------------------------------------------------------------------------
timer_new ==
  /\ ~timer_lock /\ free # <<>>
  /\ free' = Tail(free)
  /\ off' = Append(off, Head(free))
  /\ UNCHANGED <<timer_lock, on, fields, calling, now>>

\* NULL is returned, and the lock is not released.
timer_new_none ==
  /\ ~timer_lock /\ free = <<>>
  /\ timer_lock' = TRUE
  /\ UNCHANGED <<lists, fields, calling, now>>

\* A mistake the checks find: a timer that has expired has a huge time left.
later_unsigned(d, i) == minus(interval[d], elapsed(d)) > i

\* d expires later than a timer that is set to i now.
later(d, i) == interval[d] > elapsed(d) /\ minus(interval[d], elapsed(d)) > i

\* A mistake the checks find: a timer that is on already is not taken out.
without_off(t) == on' = on /\ off' = RemoveFirst(off, t)

\* LIST1_DEL from the list of its field enable.
without(t) == IF enable[t] THEN on' = RemoveFirst(on, t) /\ off' = off
                           ELSE on' = on /\ off' = RemoveFirst(off, t)

\* A mistake the checks find: a timer that is set goes to the head.
place_first(q, t, i) == <<t>> \o q

\* LIST1_FOREACH and LIST1_INSERT: before the first that expires later.
place(q, t, i) ==
  LET k == SelectInSeq(q, LAMBDA d : later(d, i))
  IN IF k = 0 THEN Append(q, t) ELSE InsertAt(q, k, t)

timer_set(t, i) ==
  /\ ~timer_lock
  /\ IF enable[t] THEN on' = place(RemoveFirst(on, t), t, i) /\ UNCHANGED off
                  ELSE on' = place(on, t, i) /\ off' = RemoveFirst(off, t)
  /\ enable' = [enable EXCEPT ![t] = TRUE]
  /\ settime' = [settime EXCEPT ![t] = now]
  /\ interval' = [interval EXCEPT ![t] = i]
  /\ UNCHANGED <<timer_lock, free, calling, now>>

disabled(t) ==
  /\ enable' = [enable EXCEPT ![t] = FALSE]
  /\ settime' = [settime EXCEPT ![t] = 0]
  /\ interval' = [interval EXCEPT ![t] = 0]

timer_free(t) ==
  /\ ~timer_lock
  /\ without(t)
  /\ free' = Append(free, t)
  /\ disabled(t)
  /\ UNCHANGED <<timer_lock, calling, now>>

\* timer_thread: the head is popped and, if it is not due, pushed again.
timer_thread ==
  /\ ~timer_lock /\ calling = Nobody /\ on # <<>>
  /\ elapsed(Head(on)) >= interval[Head(on)]
  /\ calling' = Head(on)
  /\ on' = Tail(on) /\ off' = Append(off, Head(on))
  /\ disabled(Head(on))
  /\ UNCHANGED <<timer_lock, free, now>>

\* The callback returns.  What it did with timers are steps of their own.
called ==
  /\ calling # Nobody
  /\ calling' = Nobody
  /\ UNCHANGED <<timer_lock, lists, fields, now>>

tick ==
  /\ now < MaxTime
  /\ now' = now + 1
  /\ UNCHANGED <<timer_lock, lists, fields, calling>>

\* A handle is used until it is freed.
Next ==
  \/ timer_new
  \/ timer_new_none
  \/ \E t \in ToSet(on) \cup ToSet(off) :
       timer_free(t) \/ \E i \in 1 .. MaxInterval : timer_set(t, i)
  \/ timer_thread
  \/ called
  \/ tick

\* The thread is scheduled again and again, and gets the spin lock some day, for
\* those who hold it give it back; a callback returns.
Spec == Init /\ [][Next]_vars /\ WF_vars(timer_thread) /\ WF_vars(called)

-----------------------------------------------------------------------------
\* A timer is in one list, in which it is once, and on the list of its field
\* enable, which timer_set and timer_free go by to take it out.
InOneList ==
  LET all == on \o off \o free IN
  /\ TypeOK
  /\ Len(all) = MAX_TIMER /\ ToSet(all) = Timer
  /\ \A t \in Timer : enable[t] <=> t \in ToSet(on)

\* The list is in the order in which timers expire, whenever they were set, and
\* if some have expired and the thread has not come to them yet.
Sorted ==
  \A i, j \in DOMAIN on :
    i < j => settime[on[i]] + interval[on[i]] <= settime[on[j]] + interval[on[j]]

Due(t) == enable[t] /\ now - settime[t] >= interval[t]

\* A timer that has expired is called, though the thread only looks at the head,
\* unless it is set again or freed, or no timer is left some day: then timer_new
\* keeps the lock.
DueIsCalled == \A t \in Timer : Due(t) ~> ~Due(t) \/ timer_lock
=============================================================================
