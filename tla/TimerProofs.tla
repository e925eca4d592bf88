---------------------------- MODULE TimerProofs ----------------------------
(***************************************************************************)
(* Proofs about module Timer: a timer is in one list, and the list of the  *)
(* timers that are set is in the order in which they expire.  For every    *)
(* number of timers, width of a time that holds the clock and an interval, *)
(* and every interval.                                                     *)
(***************************************************************************)
EXTENDS Timer, ListLemmas

-----------------------------------------------------------------------------
(***************************************************************************)
(* The inductive invariant.  That the lists together hold every timer once *)
(* is said list by list; that they are ordered needs that no timer was set *)
(* in the future, for then the times that timer_set computes are exact.    *)
(***************************************************************************)
ListsInv ==
  /\ Once(on) /\ Once(off) /\ Once(free)
  /\ ToSet(on) \cap ToSet(off) = {}
  /\ (ToSet(on) \cup ToSet(off)) \cap ToSet(free) = {}
  /\ ToSet(on) \cup ToSet(off) \cup ToSet(free) = Timer
  /\ Len(on) + Len(off) + Len(free) = MAX_TIMER
  /\ \A t \in Timer : enable[t] <=> t \in ToSet(on)

NotInFuture == \A t \in Timer : settime[t] <= now

TimerInv == TypeOK /\ ListsInv /\ NotInFuture /\ Sorted

expires(t) == settime[t] + interval[t]

\* What SMT knows of % is enough when the divisor has a name.
LEMMA LaterIs ==
  ASSUME TypeOK, NotInFuture, NEW d \in Timer, NEW i \in Nat
  PROVE  later(d, i) <=> expires(d) > now + i
<1>1. PICK M : M = 2 ^ TimeBits OBVIOUS
<1>2. M \in Nat \ {0} /\ M > MaxTime + MaxInterval /\ MaxTime \in Nat /\ MaxInterval \in Nat
  BY <1>1, TimerAssumption
<1>3. PICK s, v, n : s = settime[d] /\ v = interval[d] /\ n = now OBVIOUS
<1>4. s \in 0 .. n /\ v \in 0 .. MaxInterval /\ n \in 0 .. MaxTime
  BY <1>2, <1>3 DEF TypeOK, NotInFuture
<1>5. (n - s) % M = n - s BY <1>2, <1>4
<1>6. elapsed(d) = n - s BY <1>1, <1>3, <1>5 DEF elapsed, minus
<1>7. v > n - s => (v - (n - s)) % M = v - (n - s) BY <1>2, <1>4
<1>8. later(d, i) <=> v > n - s /\ (v - (n - s)) % M > i
  BY <1>1, <1>3, <1>6 DEF later, minus
<1>9. expires(d) = s + v BY <1>3 DEF expires
<1>10. later(d, i) <=> v > n - s /\ v - (n - s) > i
  BY <1>7, <1>8
<1> QED BY <1>3, <1>4, <1>9, <1>10

\* Where a timer is put.
LEMMA PlaceIs ==
  ASSUME NEW q \in Seq(Timer), NEW t \in Timer, NEW i
  PROVE  \E k \in 1 .. Len(q) + 1 :
           /\ place(q, t, i) \in Seq(Timer) /\ Inserted(place(q, t, i), q, k, t)
           /\ \A j \in 1 .. k - 1 : ~later(q[j], i)
           /\ k <= Len(q) => later(q[k], i)
<1> DEFINE I == {j \in 1 .. Len(q) : later(q[j], i)}
<1> PICK w : w = place(q, t, i) OBVIOUS
<1>1. PICK k : k = SelectInSeq(q, LAMBDA d : later(d, i)) OBVIOUS
<1>2. k = IF I # {} THEN Min(I) ELSE 0 BY <1>1, Zenon DEF SelectInSeq
<1>3. w = IF k = 0 THEN Append(q, t) ELSE InsertAt(q, k, t)
  BY <1>1, Zenon DEF place
<1>4. I \subseteq 1 .. Len(q) /\ I \subseteq Nat OBVIOUS
<1>5. I # {} => k # 0
  <2>1. I # {} => Min(I) \in I BY <1>4, MinIs, Zenon
  <2> QED BY <1>2, <1>4, <2>1
<1>6. w = Before(q, I, t)
  BY <1>2, <1>3, <1>5 DEF Before
<1>7. PICK l \in 1 .. Len(q) + 1 :
        /\ w \in Seq(Timer) /\ Inserted(w, q, l, t)
        /\ \A j \in 1 .. l - 1 : j \notin I
        /\ l <= Len(q) => l \in I
  <2> HIDE DEF I
  <2>1. \E l \in 1 .. Len(q) + 1 :
          /\ Before(q, I, t) \in Seq(Timer) /\ Inserted(Before(q, I, t), q, l, t)
          /\ \A j \in 1 .. l - 1 : j \notin I
          /\ l <= Len(q) => l \in I
    BY <1>4, PutBefore, Zenon
  <2> QED BY <1>6, <2>1
<1>8. \A j \in 1 .. l - 1 : j \in 1 .. Len(q) OBVIOUS
<1> QED BY <1>7, <1>8

-----------------------------------------------------------------------------
times == [t \in Timer |-> expires(t)]

LEMMA SortedIs ==
  ASSUME TypeOK
  PROVE  Sorted <=> InOrder(on, times)
<1>1. \A i \in 1 .. Len(on) : on[i] \in Timer /\ times[on[i]] = settime[on[i]] + interval[on[i]]
  <2>1. \A i \in 1 .. Len(on) : on[i] \in Timer BY DEF TypeOK
  <2> QED BY <2>1 DEF times, expires
<1>2. DOMAIN on = 1 .. Len(on) BY DEF TypeOK
<1> QED BY <1>1, <1>2, Zenon DEF Sorted, InOrder

LEMMA TimesType ==
  ASSUME TypeOK
  PROVE  times \in [Timer -> Nat] /\ \A d \in Timer : times[d] = settime[d] + interval[d]
BY TimerAssumption DEF TypeOK, times, expires

LEMMA SortedPrimed == (TypeOK => (Sorted <=> InOrder(on, times)))'
<1>1. TypeOK => (Sorted <=> InOrder(on, times)) BY SortedIs
<1> QED BY <1>1, PTL

LEMMA TimesPrimed ==
  (TypeOK => times \in [Timer -> Nat]
             /\ \A d \in Timer : times[d] = settime[d] + interval[d])'
<1>1. TypeOK => times \in [Timer -> Nat]
                /\ \A d \in Timer : times[d] = settime[d] + interval[d]
  BY TimesType
<1> QED BY <1>1, PTL

-----------------------------------------------------------------------------
(***************************************************************************)
(* The steps.                                                              *)
(***************************************************************************)
LEMMA TimerInit == Init => TimerInv
<1> SUFFICES ASSUME Init PROVE TimerInv OBVIOUS
<1>1. /\ on = <<>> /\ off = <<>> /\ DOMAIN on = {} /\ DOMAIN off = {}
      /\ Len(on) = 0 /\ Len(off) = 0 /\ on \in Seq(Timer) /\ off \in Seq(Timer)
  BY DEF Init
<1>2. /\ free \in Seq(Timer) /\ Len(free) = MAX_TIMER /\ DOMAIN free = Timer
      /\ \A i \in Timer : free[i] = MAX_TIMER + 1 - i
  BY TimerAssumption DEF Init, Timer
<1>3. TypeOK
  <2>1. 0 \in 0 .. MaxTime /\ 0 \in 0 .. MaxInterval BY TimerAssumption
  <2>2. /\ enable \in [Timer -> BOOLEAN] /\ settime \in [Timer -> 0 .. MaxTime]
        /\ interval \in [Timer -> 0 .. MaxInterval]
    BY <2>1 DEF Init
  <2>3. timer_lock \in BOOLEAN /\ calling \in Timer \cup {Nobody} /\ now \in 0 .. MaxTime
    BY <2>1 DEF Init
  <2> QED BY <1>1, <1>2, <2>2, <2>3 DEF TypeOK
<1>4. Once(free) BY <1>2, TimerAssumption DEF Once, Timer
<1>5. ToSet(free) = Timer
  <2>1. \A i \in Timer : free[i] \in Timer BY <1>2, TimerAssumption DEF Timer
  <2>2. \A t \in Timer : MAX_TIMER + 1 - t \in Timer /\ free[MAX_TIMER + 1 - t] = t
    BY <1>2, TimerAssumption DEF Timer
  <2> QED BY <1>2, <2>1, <2>2 DEF ToSet
<1>6. ToSet(on) = {} /\ ToSet(off) = {} /\ Once(on) /\ Once(off)
  BY <1>1 DEF ToSet, Once
<1>7. ListsInv
  <2>1. Len(on) + Len(off) + Len(free) = MAX_TIMER
    <3>1. MAX_TIMER \in Nat BY TimerAssumption
    <3> QED BY <1>1, <1>2, <3>1
  <2>2. \A t \in Timer : ~enable[t] BY DEF Init
  <2> QED BY <1>4, <1>5, <1>6, <2>1, <2>2 DEF ListsInv
<1>8. NotInFuture BY DEF Init, NotInFuture
<1>9. Sorted BY <1>1 DEF Sorted
<1> QED BY <1>3, <1>7, <1>8, <1>9 DEF TimerInv

\* The lists are lists of timers.
LEMMA TimerTaken ==
  ASSUME NEW q \in Seq(Timer), Once(q), NEW t \in ToSet(q)
  PROVE  /\ RemoveFirst(q, t) \in Seq(Timer)
         /\ ToSet(RemoveFirst(q, t)) = ToSet(q) \ {t} /\ Once(RemoveFirst(q, t))
         /\ Len(RemoveFirst(q, t)) = Len(q) - 1
         /\ \A x : InOrder(q, x) => InOrder(RemoveFirst(q, t), x)
BY TakenOut, Zenon

LEMMA TimerPut ==
  ASSUME NEW x \in [Timer -> Nat], NEW y \in [Timer -> Nat],
         NEW q \in Seq(Timer), NEW t \in Timer,
         NEW k \in 1 .. Len(q) + 1, NEW w \in Seq(Timer), Inserted(w, q, k, t),
         InOrder(q, x), t \notin ToSet(q),
         \A d \in Timer \ {t} : y[d] = x[d],
         \A j \in 1 .. k - 1 : x[q[j]] <= y[t],
         k <= Len(q) => x[q[k]] > y[t]
  PROVE  InOrder(w, y)
BY InsertedInOrder, Zenon

LEMMA Listed ==
  ASSUME TimerInv
  PROVE  /\ on \in Seq(Timer) /\ off \in Seq(Timer) /\ free \in Seq(Timer)
         /\ Len(on) \in Nat /\ Len(off) \in Nat /\ Len(free) \in Nat
         /\ ToSet(on) \subseteq Timer /\ ToSet(off) \subseteq Timer
         /\ ToSet(free) \subseteq Timer
         /\ MAX_TIMER \in Nat
         /\ InOrder(on, times) /\ times \in [Timer -> Nat]
BY Elements, SortedIs, TimesType, TimerAssumption DEF TimerInv, TypeOK

\* The steps that leave on as it is.
LEMMA OnStands ==
  ASSUME TimerInv, TypeOK', on' = on, \A d \in ToSet(on) : times'[d] = times[d]
  PROVE  Sorted'
<1>1. InOrder(on, times') BY Listed, SameOrder
<1> QED BY <1>1, SortedPrimed

LEMMA NewStep ==
  ASSUME TimerInv, timer_new
  PROVE  TimerInv'
<1> USE Listed
<1> PICK h, f1, o1 : h = Head(free) /\ f1 = free' /\ o1 = off' OBVIOUS
<1>1. /\ free # <<>> /\ f1 = Tail(free) /\ o1 = Append(off, h)
      /\ UNCHANGED <<timer_lock, on, enable, settime, interval, calling, now>>
  BY DEF timer_new, fields
<1>2. Once(off) /\ Once(free) BY DEF TimerInv, ListsInv
<1>3. /\ f1 \in Seq(Timer) /\ h \in Timer /\ h \in ToSet(free)
      /\ ToSet(f1) = ToSet(free) \ {h} /\ Once(f1) /\ Len(f1) = Len(free) - 1
  BY <1>1, <1>2, HeadTaken
<1>4. h \notin ToSet(off) BY <1>3 DEF TimerInv, ListsInv
<1>5. /\ o1 \in Seq(Timer)
      /\ ToSet(o1) = ToSet(off) \cup {h} /\ Once(o1) /\ Len(o1) = Len(off) + 1
  BY <1>1, <1>2, <1>3, <1>4, PutLast
<1>7. TypeOK' BY <1>1, <1>3, <1>5 DEF TimerInv, TypeOK
<1>8. ListsInv'
  <2>1. Len(on) + Len(o1) + Len(f1) = MAX_TIMER
    BY <1>3, <1>5 DEF TimerInv, ListsInv
  <2> QED BY <1>1, <1>3, <1>5, <2>1 DEF TimerInv, ListsInv
<1>9. NotInFuture' BY <1>1 DEF TimerInv, NotInFuture
<1>10. Sorted' BY <1>1 DEF TimerInv, Sorted
<1> QED BY <1>7, <1>8, <1>9, <1>10 DEF TimerInv

LEMMA TotalStands ==
  ASSUME NEW x \in Nat, NEW y \in Nat, NEW z \in Nat
  PROVE  (x + y - 1) + (z + 1) = x + y + z
OBVIOUS

LEMMA FreeStep ==
  ASSUME TimerInv, NEW t \in ToSet(on) \cup ToSet(off), timer_free(t)
  PROVE  TimerInv'
<1> USE Listed
<1> PICK n1, o1, f1 : n1 = on' /\ o1 = off' /\ f1 = free' OBVIOUS
<1>1. /\ without(t) /\ f1 = Append(free, t)
      /\ enable' = [enable EXCEPT ![t] = FALSE]
      /\ settime' = [settime EXCEPT ![t] = 0]
      /\ interval' = [interval EXCEPT ![t] = 0]
      /\ UNCHANGED <<timer_lock, calling, now>>
  BY DEF timer_free, disabled
<1>2. /\ t \in Timer /\ Once(on) /\ Once(off) /\ Once(free)
      /\ enable[t] <=> t \in ToSet(on)
      /\ t \notin ToSet(free)
  BY DEF TimerInv, ListsInv
<1>4. /\ f1 \in Seq(Timer)
      /\ ToSet(f1) = ToSet(free) \cup {t} /\ Once(f1) /\ Len(f1) = Len(free) + 1
  BY <1>1, <1>2, PutLast
<1>5. /\ n1 \in Seq(Timer) /\ o1 \in Seq(Timer)
      /\ ToSet(n1) = ToSet(on) \ {t} /\ ToSet(o1) = ToSet(off) \ {t}
      /\ Once(n1) /\ Once(o1)
      /\ Len(n1) \in Nat /\ Len(o1) \in Nat
      /\ Len(n1) + Len(o1) = Len(on) + Len(off) - 1
      /\ InOrder(n1, times)
  <2>1. CASE enable[t]
    <3>1. n1 = RemoveFirst(on, t) /\ o1 = off BY <1>1, <2>1 DEF without
    <3>2. t \in ToSet(on) /\ t \notin ToSet(off)
      BY <1>2, <2>1 DEF TimerInv, ListsInv
    <3>3. /\ n1 \in Seq(Timer) /\ ToSet(n1) = ToSet(on) \ {t} /\ Once(n1)
          /\ Len(n1) = Len(on) - 1 /\ InOrder(n1, times)
      BY <1>2, <3>1, <3>2, TimerTaken, Zenon
    <3>4. Len(n1) \in Nat BY <3>3
    <3>5. Len(n1) + Len(off) = Len(on) + Len(off) - 1 BY <3>3
    <3> QED BY <1>2, <3>1, <3>2, <3>3, <3>4, <3>5
  <2>2. CASE ~enable[t]
    <3>1. o1 = RemoveFirst(off, t) /\ n1 = on BY <1>1, <2>2 DEF without
    <3>2. t \in ToSet(off) /\ t \notin ToSet(on) BY <1>2, <2>2
    <3>3. /\ o1 \in Seq(Timer) /\ ToSet(o1) = ToSet(off) \ {t} /\ Once(o1)
          /\ Len(o1) = Len(off) - 1
      BY <1>2, <3>1, <3>2, TimerTaken, Zenon
    <3>4. Len(o1) \in Nat BY <3>3
    <3>5. Len(on) + Len(o1) = Len(on) + Len(off) - 1 BY <3>3
    <3> QED BY <1>2, <3>1, <3>2, <3>3, <3>4, <3>5
  <2> QED BY <2>1, <2>2
<1>6. TypeOK'
  <2>1. 0 \in 0 .. MaxTime /\ 0 \in 0 .. MaxInterval BY TimerAssumption
  <2> QED BY <1>1, <1>2, <1>4, <1>5, <2>1 DEF TimerInv, TypeOK
<1>7. ListsInv'
  <2>1. \A u \in Timer : enable'[u] <=> u \in ToSet(n1)
    BY <1>1, <1>5 DEF TimerInv, ListsInv, TypeOK
  <2>2. Len(n1) + Len(o1) + Len(f1) = MAX_TIMER
    <3>1. Len(on) + Len(off) + Len(free) = MAX_TIMER BY DEF TimerInv, ListsInv
    <3>2. PICK a, b, c : a = Len(n1) /\ b = Len(o1) /\ c = Len(f1) OBVIOUS
    <3>3. PICK x, y, z : x = Len(on) /\ y = Len(off) /\ z = Len(free) OBVIOUS
    <3>4. x \in Nat /\ y \in Nat /\ z \in Nat /\ x + y + z = MAX_TIMER
      BY <3>1, <3>3
    <3>5. a \in Nat /\ b \in Nat /\ a + b = x + y - 1 /\ c = z + 1
      BY <1>4, <1>5, <3>2, <3>3
    <3> HIDE Listed
    <3>6. (x + y - 1) + (z + 1) = x + y + z BY <3>4, TotalStands
    <3> QED BY <3>2, <3>4, <3>5, <3>6, Zenon
  <2> QED BY <1>2, <1>4, <1>5, <2>1, <2>2 DEF TimerInv, ListsInv
<1>8. NotInFuture'
  <2>1. now \in Nat BY TimerAssumption DEF TimerInv, TypeOK
  <2> QED BY <1>1, <2>1 DEF TimerInv, TypeOK, NotInFuture
<1>9. Sorted'
  <2>1. \A d \in ToSet(n1) : times'[d] = times[d]
    BY <1>1, <1>5 DEF TimerInv, TypeOK, times, expires
  <2>2. InOrder(n1, times') BY <1>5, <2>1, SameOrder
  <2> QED BY <1>6, <2>2, SortedPrimed
<1> QED BY <1>6, <1>7, <1>8, <1>9 DEF TimerInv

LEMMA ThreadStep ==
  ASSUME TimerInv, timer_thread
  PROVE  TimerInv'
<1> USE Listed
<1> PICK h, n1, o1 : h = Head(on) /\ n1 = on' /\ o1 = off' OBVIOUS
<1>1. /\ on # <<>> /\ n1 = Tail(on) /\ o1 = Append(off, h) /\ calling' = h
      /\ enable' = [enable EXCEPT ![h] = FALSE]
      /\ settime' = [settime EXCEPT ![h] = 0]
      /\ interval' = [interval EXCEPT ![h] = 0]
      /\ UNCHANGED <<timer_lock, free, now>>
  BY DEF timer_thread, disabled
<1>2. Once(off) /\ Once(on) BY DEF TimerInv, ListsInv
<1>3. /\ n1 \in Seq(Timer) /\ h \in Timer /\ h \in ToSet(on)
      /\ ToSet(n1) = ToSet(on) \ {h} /\ Once(n1) /\ Len(n1) = Len(on) - 1
      /\ InOrder(n1, times)
  BY <1>1, <1>2, HeadTaken
<1>4. h \notin ToSet(off) BY <1>3 DEF TimerInv, ListsInv
<1>5. /\ o1 \in Seq(Timer)
      /\ ToSet(o1) = ToSet(off) \cup {h} /\ Once(o1) /\ Len(o1) = Len(off) + 1
  BY <1>1, <1>2, <1>3, <1>4, PutLast
<1>7. TypeOK'
  <2>1. 0 \in 0 .. MaxTime /\ 0 \in 0 .. MaxInterval BY TimerAssumption
  <2> QED BY <1>1, <1>3, <1>5, <2>1 DEF TimerInv, TypeOK
<1>8. ListsInv'
  <2>1. \A u \in Timer : enable'[u] <=> u \in ToSet(n1)
    BY <1>1, <1>3 DEF TimerInv, ListsInv, TypeOK
  <2>2. Len(n1) + Len(o1) + Len(free) = MAX_TIMER
    BY <1>3, <1>5 DEF TimerInv, ListsInv
  <2> QED BY <1>1, <1>3, <1>5, <2>1, <2>2 DEF TimerInv, ListsInv
<1>9. NotInFuture'
  <2>1. now \in Nat BY TimerAssumption DEF TimerInv, TypeOK
  <2> QED BY <1>1, <2>1 DEF TimerInv, TypeOK, NotInFuture
<1>10. Sorted'
  <2>1. \A d \in ToSet(n1) : times'[d] = times[d]
    BY <1>1, <1>3 DEF TimerInv, TypeOK, times, expires
  <2>2. InOrder(n1, times') BY <1>3, <2>1, SameOrder
  <2> QED BY <1>7, <2>2, SortedPrimed
<1> QED BY <1>7, <1>8, <1>9, <1>10 DEF TimerInv

\* A timer that is set leaves the list it is in, and is put in its place in on.
LEMMA SetStep ==
  ASSUME TimerInv, NEW t \in ToSet(on) \cup ToSet(off), NEW i \in 1 .. MaxInterval,
         timer_set(t, i)
  PROVE  TimerInv'
<1> USE Listed
<1>0. PICK q : q = IF enable[t] THEN RemoveFirst(on, t) ELSE on OBVIOUS
<1> PICK n1, o1 : n1 = on' /\ o1 = off' OBVIOUS
<1>1. /\ n1 = place(q, t, i)
      /\ o1 = IF enable[t] THEN off ELSE RemoveFirst(off, t)
      /\ enable' = [enable EXCEPT ![t] = TRUE]
      /\ settime' = [settime EXCEPT ![t] = now]
      /\ interval' = [interval EXCEPT ![t] = i]
      /\ UNCHANGED <<timer_lock, free, calling, now>>
  BY <1>0 DEF timer_set
<1>2. /\ t \in Timer /\ Once(on) /\ Once(off) /\ Once(free)
      /\ enable[t] <=> t \in ToSet(on)
      /\ t \notin ToSet(free)
  BY DEF TimerInv, ListsInv
<1>3. /\ q \in Seq(Timer) /\ o1 \in Seq(Timer)
      /\ ToSet(q) = ToSet(on) \ {t} /\ ToSet(o1) = ToSet(off) \ {t}
      /\ Once(q) /\ Once(o1)
      /\ Len(q) \in Nat /\ Len(o1) \in Nat
      /\ Len(q) + Len(o1) = Len(on) + Len(off) - 1
      /\ InOrder(q, times)
  <2>1. CASE enable[t]
    <3>1. q = RemoveFirst(on, t) /\ o1 = off BY <1>0, <1>1, <2>1
    <3>2. t \in ToSet(on) /\ t \notin ToSet(off)
      BY <1>2, <2>1 DEF TimerInv, ListsInv
    <3>3. /\ q \in Seq(Timer) /\ ToSet(q) = ToSet(on) \ {t} /\ Once(q)
          /\ Len(q) = Len(on) - 1 /\ InOrder(q, times)
      BY <1>2, <3>1, <3>2, TimerTaken, Zenon
    <3>4. Len(q) \in Nat BY <3>3
    <3>5. Len(q) + Len(off) = Len(on) + Len(off) - 1 BY <3>3
    <3> QED BY <1>2, <3>1, <3>2, <3>3, <3>4, <3>5
  <2>2. CASE ~enable[t]
    <3>1. o1 = RemoveFirst(off, t) /\ q = on BY <1>0, <1>1, <2>2
    <3>2. t \in ToSet(off) /\ t \notin ToSet(on) BY <1>2, <2>2
    <3>3. /\ o1 \in Seq(Timer) /\ ToSet(o1) = ToSet(off) \ {t} /\ Once(o1)
          /\ Len(o1) = Len(off) - 1
      BY <1>2, <3>1, <3>2, TimerTaken, Zenon
    <3>4. Len(o1) \in Nat BY <3>3
    <3>5. Len(on) + Len(o1) = Len(on) + Len(off) - 1 BY <3>3
    <3> QED BY <1>2, <3>1, <3>2, <3>3, <3>4, <3>5
  <2> QED BY <2>1, <2>2
<1>4. PICK k \in 1 .. Len(q) + 1 :
        /\ n1 \in Seq(Timer) /\ Inserted(n1, q, k, t)
        /\ \A j \in 1 .. k - 1 : ~later(q[j], i)
        /\ k <= Len(q) => later(q[k], i)
  <2>1. i \in Nat BY TimerAssumption
  <2> QED BY <1>1, <1>2, <1>3, <2>1, PlaceIs
<1>5. /\ ToSet(n1) = ToSet(on) \cup {t} /\ Once(n1) /\ Len(n1) = Len(q) + 1
      /\ Len(n1) \in Nat
  <2>1. t \notin ToSet(q) BY <1>3
  <2>2. ToSet(n1) = ToSet(q) \cup {t} /\ Once(n1)
    BY <1>2, <1>3, <1>4, <2>1, InsertedElements
  <2>3. Len(n1) = Len(q) + 1 BY <1>4 DEF Inserted
  <2> QED BY <1>3, <2>2, <2>3
<1>6. TypeOK'
  <2>1. i \in 0 .. MaxInterval BY TimerAssumption
  <2> QED BY <1>1, <1>2, <1>3, <1>4, <2>1 DEF TimerInv, TypeOK
<1>7. ListsInv'
  <2>1. \A u \in Timer : enable'[u] <=> u \in ToSet(n1)
    BY <1>1, <1>2, <1>5 DEF TimerInv, ListsInv, TypeOK
  <2>2. Len(n1) + Len(o1) + Len(free) = MAX_TIMER
    <3>1. Len(on) + Len(off) + Len(free) = MAX_TIMER BY DEF TimerInv, ListsInv
    <3>2. PICK a, b, c : a = Len(n1) /\ b = Len(o1) /\ c = Len(q) OBVIOUS
    <3>3. PICK x, y, z : x = Len(on) /\ y = Len(off) /\ z = Len(free) OBVIOUS
    <3>4. x \in Nat /\ y \in Nat /\ z \in Nat /\ x + y + z = MAX_TIMER
      BY <3>1, <3>3
    <3>5. c \in Nat /\ b \in Nat /\ c + b = x + y - 1 /\ a = c + 1
      BY <1>3, <1>5, <3>2, <3>3
    <3> HIDE Listed
    <3>6. (x + y - 1) + (z + 1) = x + y + z BY <3>4, TotalStands
    <3>7. (c + b) + (z + 1) = MAX_TIMER BY <3>4, <3>5, <3>6, Zenon
    <3>8. a + b + z = (c + b) + (z + 1) BY <3>4, <3>5
    <3> QED BY <3>2, <3>3, <3>7, <3>8, Zenon
  <2>3. /\ ToSet(n1) \cap ToSet(o1) = {}
        /\ (ToSet(n1) \cup ToSet(o1)) \cap ToSet(free) = {}
        /\ ToSet(n1) \cup ToSet(o1) \cup ToSet(free) = Timer
    BY <1>2, <1>3, <1>5 DEF TimerInv, ListsInv
  <2> QED BY <1>1, <1>2, <1>3, <1>5, <2>1, <2>2, <2>3 DEF ListsInv
<1>8. NotInFuture'
  <2>1. now \in Nat BY TimerAssumption DEF TimerInv, TypeOK
  <2> QED BY <1>1, <1>2, <2>1 DEF TimerInv, TypeOK, NotInFuture
<1>9. Sorted'
  <2> PICK x, y : x = times /\ y = times' OBVIOUS
  <2>1. /\ x \in [Timer -> Nat]
        /\ \A d \in Timer : x[d] = settime[d] + interval[d] /\ x[d] = expires(d)
    BY TimesType DEF TimerInv, expires
  <2>2. /\ y \in [Timer -> Nat]
        /\ \A d \in Timer : y[d] = settime'[d] + interval'[d]
    BY <1>6, TimesPrimed
  <2>3. \A d \in Timer \ {t} : y[d] = x[d]
    BY <1>1, <2>1, <2>2 DEF TimerInv, TypeOK
  <2>4. y[t] = now + i BY <1>1, <1>2, <2>2 DEF TimerInv, TypeOK
  <2>5. \A d \in Timer : later(d, i) <=> x[d] > y[t]
    BY <2>1, <2>4, LaterIs DEF TimerInv
  <2>6. \A j \in 1 .. Len(q) : q[j] \in Timer BY <1>3, Elements
  <2>7. \A j \in 1 .. k - 1 : x[q[j]] <= y[t]
    <3> TAKE j \in 1 .. k - 1
    <3>1. j \in 1 .. Len(q) BY <1>3
    <3>2. q[j] \in Timer /\ ~later(q[j], i) BY <1>4, <2>6, <3>1
    <3>3. ~(x[q[j]] > y[t]) BY <2>5, <3>2
    <3>4. x[q[j]] \in Nat /\ y[t] \in Nat BY <1>2, <2>1, <2>2, <3>2
    <3>5. PICK u, v : u = x[q[j]] /\ v = y[t] OBVIOUS
    <3>6. u <= v BY <3>3, <3>4, <3>5
    <3> QED BY <3>5, <3>6
  <2>8. k <= Len(q) => x[q[k]] > y[t]
    <3>1. k <= Len(q) => k \in 1 .. Len(q) BY <1>3
    <3> QED BY <1>4, <2>5, <2>6, <3>1
  <2>9. t \notin ToSet(q) /\ InOrder(q, x) BY <1>3
  <2>10. InOrder(n1, y)
    BY <1>2, <1>3, <1>4, <2>1, <2>2, <2>3, <2>7, <2>8, <2>9, TimerPut
  <2> QED BY <1>6, <2>10, SortedPrimed
<1> QED BY <1>6, <1>7, <1>8, <1>9 DEF TimerInv

LEMMA TickStep ==
  ASSUME TimerInv, tick
  PROVE  TimerInv'
<1> USE Listed
<1>1. /\ now' = now + 1 /\ now < MaxTime
      /\ UNCHANGED <<timer_lock, on, off, free, enable, settime, interval, calling>>
  BY DEF tick, lists, fields
<1>2. now' \in 0 .. MaxTime BY <1>1, TimerAssumption DEF TimerInv, TypeOK
<1>3. TypeOK' BY <1>1, <1>2 DEF TimerInv, TypeOK
<1>4. ListsInv' BY <1>1 DEF TimerInv, ListsInv
<1>5. NotInFuture'
  BY <1>1, TimerAssumption DEF TimerInv, TypeOK, NotInFuture
<1>6. Sorted' BY <1>1 DEF TimerInv, Sorted
<1> QED BY <1>3, <1>4, <1>5, <1>6 DEF TimerInv

LEMMA TimerNext == TimerInv /\ [Next]_vars => TimerInv'
<1> SUFFICES ASSUME TimerInv, [Next]_vars PROVE TimerInv' OBVIOUS
<1>1. CASE timer_new BY <1>1, NewStep
<1>2. CASE timer_new_none
  <2>1. /\ timer_lock' = TRUE
        /\ UNCHANGED <<on, off, free, enable, settime, interval, calling, now>>
    BY <1>2 DEF timer_new_none, lists, fields
  <2>2. timer_lock' \in BOOLEAN BY <2>1, Zenon
  <2>3. TypeOK' BY <2>1, <2>2 DEF TimerInv, TypeOK
  <2> QED BY <2>1, <2>3 DEF TimerInv, ListsInv, NotInFuture, Sorted
<1>3. ASSUME NEW t \in ToSet(on) \cup ToSet(off), timer_free(t) PROVE TimerInv'
  BY <1>3, FreeStep
<1>4. ASSUME NEW t \in ToSet(on) \cup ToSet(off), NEW i \in 1 .. MaxInterval,
             timer_set(t, i)
      PROVE  TimerInv'
  BY <1>4, SetStep
<1>5. CASE timer_thread BY <1>5, ThreadStep
<1>6. CASE called
  <2>1. /\ calling' = Nobody
        /\ UNCHANGED <<timer_lock, on, off, free, enable, settime, interval, now>>
    BY <1>6 DEF called, lists, fields
  <2>2. TypeOK' BY <2>1 DEF TimerInv, TypeOK
  <2> QED BY <2>1, <2>2 DEF TimerInv, ListsInv, NotInFuture, Sorted
<1>7. CASE tick BY <1>7, TickStep
<1>8. CASE UNCHANGED vars
  <2>1. UNCHANGED <<timer_lock, on, off, free, enable, settime, interval, calling, now>>
    BY <1>8 DEF vars, lists, fields
  <2>2. TypeOK' BY <2>1 DEF TimerInv, TypeOK
  <2> QED BY <2>1, <2>2 DEF TimerInv, ListsInv, NotInFuture, Sorted
<1> QED BY <1>1, <1>2, <1>3, <1>4, <1>5, <1>6, <1>7, <1>8 DEF Next

-----------------------------------------------------------------------------
\* The invariant: whatever threads set, free and call, each of the lists of
\* core/timer.c holds a timer once, no two hold the same, together they hold all,
\* and no timer was set later than now.
THEOREM TimerInvariant == Spec => []TimerInv
<1>1. Spec => Init /\ [][Next]_vars BY PTL DEF Spec
<1> QED BY <1>1, TimerInit, TimerNext, PTL

\* A timer is in one list, in which it is once, and on the list of its field
\* enable, by which timer_set and timer_free take it out.
THEOREM InOneListAlways == Spec => []InOneList
<1>1. TimerInv => InOneList
  <2> SUFFICES ASSUME TimerInv PROVE InOneList OBVIOUS
  <2> USE Listed
  <2> PICK b, c : b = on \o off /\ c = b \o free OBVIOUS
  <2> PICK x, y, z : x = Len(on) /\ y = Len(off) /\ z = Len(free) OBVIOUS
  <2>1. /\ b \in Seq(Timer) /\ Len(b) = x + y
        /\ \A j \in 1 .. x + y : b[j] = IF j <= x THEN on[j] ELSE off[j - x]
    BY Concat
  <2>2. /\ c \in Seq(Timer) /\ Len(c) = Len(b) + z
        /\ \A j \in 1 .. Len(b) + z :
             c[j] = IF j <= Len(b) THEN b[j] ELSE free[j - Len(b)]
    BY <2>1, Concat
  <2>3. x \in Nat /\ y \in Nat /\ z \in Nat /\ x + y + z = MAX_TIMER
    BY DEF TimerInv, ListsInv
  <2>4. Len(c) = MAX_TIMER BY <2>1, <2>2, <2>3
  <2>5. \A j \in 1 .. x + y + z :
          /\ j <= x => c[j] = on[j]
          /\ j > x /\ j <= x + y => c[j] = off[j - x]
          /\ j > x + y => c[j] = free[j - (x + y)]
    BY <2>1, <2>2, <2>3
  <2>6. ASSUME NEW t \in Timer PROVE \E j \in 1 .. x + y + z : c[j] = t
    <3>1. CASE t \in ToSet(on)
      <4>1. PICK j \in 1 .. x : on[j] = t BY <3>1, Elements
      <4> QED BY <2>3, <2>5, <4>1
    <3>2. CASE t \in ToSet(off)
      <4>1. PICK j \in 1 .. y : off[j] = t BY <3>2, Elements
      <4>2. x + j \in 1 .. x + y + z /\ x + j > x /\ x + j <= x + y /\ (x + j) - x = j
        BY <2>3
      <4>3. c[x + j] = off[j] BY <2>5, <4>2
      <4> QED BY <4>1, <4>2, <4>3
    <3>3. CASE t \in ToSet(free)
      <4>1. PICK j \in 1 .. z : free[j] = t BY <3>3, Elements
      <4>2. x + y + j \in 1 .. x + y + z /\ x + y + j > x + y
            /\ (x + y + j) - (x + y) = j
        BY <2>3
      <4>3. c[x + y + j] = free[j] BY <2>5, <4>2
      <4> QED BY <4>1, <4>2, <4>3
    <3> QED BY <3>1, <3>2, <3>3 DEF TimerInv, ListsInv
  <2>7. ToSet(c) = Timer
    <3>1. ToSet(c) \subseteq Timer BY <2>2, Elements
    <3>2. Len(c) = x + y + z BY <2>3, <2>4
    <3>3. \A j \in 1 .. x + y + z : c[j] \in ToSet(c) BY <2>2, <3>2, Elements
    <3>4. \A t \in Timer : t \in ToSet(c) BY <2>6, <3>3, Zenon
    <3> QED BY <3>1, <3>4, Zenon
  <2>8. (on \o off) \o free = c OBVIOUS
  <2> QED BY <2>4, <2>7, <2>8 DEF InOneList, TimerInv, ListsInv
<1> QED BY <1>1, TimerInvariant, PTL

\* The list is in the order in which timers expire: timer_thread, which looks at
\* its head alone, never passes over one that has expired.
THEOREM SortedAlways == Spec => []Sorted
<1>1. TimerInv => Sorted BY DEF TimerInv
<1> QED BY <1>1, TimerInvariant, PTL
=============================================================================
