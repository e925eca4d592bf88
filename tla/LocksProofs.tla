----------------------------- MODULE LocksProofs -----------------------------
(***************************************************************************)
(* Proofs about module Locks, for every number of processors and every     *)
(* width of the counters and of the reader-writer word that has room for   *)
(* them.                                                                   *)
(***************************************************************************)
EXTENDS Locks, FiniteSetTheorems, SequenceTheorems, TLAPS

-----------------------------------------------------------------------------
(***************************************************************************)
(* The inductive invariant.  The tickets of the holders are counted from   *)
(* the one that is served: Distance says how many come before, so that     *)
(* nothing depends on where the counters have wrapped.                     *)
(***************************************************************************)
Tickets == 2 ^ TicketBits

Holders == Number({"ticket_wait", "ticket"})
Readers == Number({"shared_wait", "shared"})
Writers == Number({"exclusive"})

TicketInv ==
  /\ (next_ticket - now_serving) % Tickets = Holders % Tickets
  /\ \A c \in TicketHolders : Distance(c) < Holders
  /\ \A c, d \in TicketHolders : c # d => ticket[c] # ticket[d]
  /\ \A c \in Cpu : pc[c] = "ticket" => ticket[c] = now_serving
  /\ \A i \in 0 .. Holders - 1 : \E c \in TicketHolders : Distance(c) = i

SpinInv == spinlock = Number({"spin"})

\* A reader that waits is counted, so that it may find itself inside with the
\* writer only by a step of its own, which it takes when the sign is clear.
RwInv ==
  /\ rwlock = Readers + Sign * Writers
  /\ Writers \in {0, 1}
  /\ Writers = 1 => Number({"shared"}) = 0

LocksInv == TypeOK /\ SpinInv /\ TicketInv /\ RwInv

-----------------------------------------------------------------------------
\* What SMT knows of % and ^ is enough when the divisor has a name.
LEMMA Moduli ==
  /\ Tickets \in Nat /\ Tickets >= NCpus /\ NCpus \in Nat \ {0}
  /\ Ticket = 0 .. Tickets - 1
  /\ Sign \in Nat /\ Sign > NCpus /\ Word = 0 .. 2 * Sign - 1
BY LockAssumption, RwAssumption DEF Tickets, Ticket, Sign, Word

LEMMA Minus ==
  ASSUME NEW x \in Ticket, NEW y \in Ticket
  PROVE  (x - y) % Tickets = IF x >= y THEN x - y ELSE x - y + Tickets
<1> DEFINE M == Tickets
<1>1. M \in Nat \ {0} /\ x \in 0 .. M - 1 /\ y \in 0 .. M - 1
  BY Moduli
<1> HIDE DEF M
<1>2. (x - y) % M = IF x >= y THEN x - y ELSE x - y + M
  BY <1>1
<1> QED BY <1>2 DEF M

LEMMA Plus ==
  ASSUME NEW x \in Ticket
  PROVE  after(x) = IF x = Tickets - 1 THEN 0 ELSE x + 1
<1> DEFINE M == Tickets
<1>1. M \in Nat \ {0} /\ x \in 0 .. M - 1
  BY Moduli
<1> HIDE DEF M
<1>2. (x + 1) % M = IF x = M - 1 THEN 0 ELSE x + 1
  BY <1>1
<1> QED BY <1>2 DEF M, after, Tickets

LEMMA Small ==
  ASSUME NEW n \in Nat, n <= NCpus
  PROVE  n % Tickets = IF n = Tickets THEN 0 ELSE n
<1> DEFINE M == Tickets
<1>1. M \in Nat \ {0} /\ n \in 0 .. M
  BY Moduli
<1> HIDE DEF M
<1>2. n % M = IF n = M THEN 0 ELSE n
  <2>1. n # M => n % M = n BY <1>1
  <2>2. M % M = 0 BY <1>1
  <2> QED BY <2>1, <2>2
<1> QED BY <1>2 DEF M

LEMMA Half ==
  ASSUME NEW l \in Word
  PROVE  /\ l + 1 < 2 * Sign => add_reader(l) = l + 1
         /\ l >= 1 => sub_reader(l) = l - 1
         /\ l >= Sign => clear_writer(l) = l - Sign
<1> DEFINE S == Sign
<1>1. S \in Nat \ {0} /\ l \in 0 .. 2 * S - 1
  BY Moduli
<1> HIDE DEF S
<1>2. l + 1 < 2 * S => (l + 1) % (2 * S) = l + 1
  BY <1>1
<1>3. l >= 1 => (l - 1) % (2 * S) = l - 1
  BY <1>1
<1>4. l >= S => l % S = l - S
  BY <1>1
<1> QED BY <1>2, <1>3, <1>4 DEF S, add_reader, sub_reader, clear_writer

\* Counting the processors at some places of the code.
LEMMA Counts ==
  ASSUME NEW ls
  PROVE  /\ Number(ls) \in Nat /\ Number(ls) <= NCpus
         /\ Number(ls) = 0 <=> \A c \in Cpu : pc[c] \notin ls
         /\ \A c \in Cpu : pc[c] \notin ls => Number(ls) < NCpus
<1> DEFINE S == {c \in Cpu : pc[c] \in ls}
<1>1. IsFiniteSet(Cpu) /\ Cardinality(Cpu) = NCpus
  <2>1. NCpus \in Nat \ {0} /\ 0 \in Int /\ NCpus - 1 \in Int BY Moduli
  <2>2. IsFiniteSet(Cpu)
        /\ Cardinality(Cpu) = IF 0 > NCpus - 1 THEN 0 ELSE NCpus - 1 - 0 + 1
    BY <2>1, FS_Interval DEF Cpu
  <2> QED BY <2>1, <2>2
<1>2. IsFiniteSet(S) /\ Cardinality(S) \in Nat /\ Cardinality(S) <= NCpus
      /\ (Cardinality(Cpu) = Cardinality(S) => Cpu = S)
  <2>1. S \in SUBSET Cpu OBVIOUS
  <2>2. IsFiniteSet(S) /\ Cardinality(S) <= NCpus
        /\ (Cardinality(Cpu) = Cardinality(S) => Cpu = S)
    BY <1>1, <2>1, FS_Subset
  <2> QED BY <2>2, FS_CardinalityType
<1>3. Cardinality(S) = 0 <=> S = {}
  BY <1>2, FS_EmptySet
<1>4. \A c \in Cpu : pc[c] \notin ls => Cpu # S
  OBVIOUS
<1> HIDE DEF S
<1>5. Number(ls) = Cardinality(S) BY DEF Number, S
<1>6. S = {} <=> \A c \in Cpu : pc[c] \notin ls BY DEF S
<1>7. NCpus \in Nat BY Moduli
<1> QED BY <1>1, <1>2, <1>3, <1>4, <1>5, <1>6, <1>7

\* One processor goes to another place.
LEMMA CountStep ==
  ASSUME NEW c \in Cpu, NEW l, NEW ls, pc \in [Cpu -> Location], goto(c, l)
  PROVE  Number(ls)' = IF pc[c] \in ls
                       THEN IF l \in ls THEN Number(ls) ELSE Number(ls) - 1
                       ELSE IF l \in ls THEN Number(ls) + 1 ELSE Number(ls)
<1> DEFINE S == {d \in Cpu : pc[d] \in ls}
           T == {d \in Cpu : pc'[d] \in ls}
<1>1. \A d \in Cpu : pc'[d] = IF d = c THEN l ELSE pc[d]
  BY DEF goto
<1>2. IsFiniteSet(S)
  <2>1. 0 \in Int /\ NCpus - 1 \in Int BY Moduli
  <2>2. IsFiniteSet(Cpu) BY <2>1, FS_Interval DEF Cpu
  <2> QED BY <2>2, FS_Subset
<1>3. T = IF l \in ls THEN S \cup {c} ELSE S \ {c}
  BY <1>1
<1>4. c \in S <=> pc[c] \in ls
  OBVIOUS
<1> HIDE DEF S, T
<1>5. /\ Cardinality(S \cup {c}) = IF c \in S THEN Cardinality(S) ELSE Cardinality(S) + 1
      /\ Cardinality(S \ {c}) = IF c \in S THEN Cardinality(S) - 1 ELSE Cardinality(S)
  BY <1>2, FS_AddElement, FS_RemoveElement
<1>6. Number(ls) = Cardinality(S) /\ Number(ls)' = Cardinality(T)
  BY DEF Number, S, T
<1> QED BY <1>3, <1>4, <1>5, <1>6

\* ... seen from the places that count.
one(b) == IF b THEN 1 ELSE 0

LEMMA Moves ==
  ASSUME LocksInv, NEW c \in Cpu, NEW l, goto(c, l)
  PROVE  /\ Number({"spin"})' =
              Number({"spin"}) + one(l = "spin") - one(pc[c] = "spin")
         /\ Holders' = Holders + one(l \in {"ticket_wait", "ticket"})
                                - one(pc[c] \in {"ticket_wait", "ticket"})
         /\ Readers' = Readers + one(l \in {"shared_wait", "shared"})
                                - one(pc[c] \in {"shared_wait", "shared"})
         /\ Writers' = Writers + one(l = "exclusive") - one(pc[c] = "exclusive")
         /\ Number({"shared"})' =
              Number({"shared"}) + one(l = "shared") - one(pc[c] = "shared")
<1>1. ASSUME NEW ls
      PROVE  Number(ls)' = Number(ls) + one(l \in ls) - one(pc[c] \in ls)
  <2>1. pc \in [Cpu -> Location] BY DEF LocksInv, TypeOK
  <2>2. Number(ls) \in Nat BY Counts
  <2> QED BY <2>1, <2>2, CountStep DEF one
<1>2. \A x, y : x \in {y} <=> x = y
  OBVIOUS
<1>3. Number({"spin"})' =
        Number({"spin"}) + one(l \in {"spin"}) - one(pc[c] \in {"spin"})
  BY <1>1
<1>4. Number({"exclusive"})' = Number({"exclusive"}) + one(l \in {"exclusive"})
                                 - one(pc[c] \in {"exclusive"})
  BY <1>1
<1>5. Number({"shared"})' =
        Number({"shared"}) + one(l \in {"shared"}) - one(pc[c] \in {"shared"})
  BY <1>1
<1>6. Holders' = Holders + one(l \in {"ticket_wait", "ticket"})
                         - one(pc[c] \in {"ticket_wait", "ticket"})
  BY <1>1 DEF Holders
<1>7. Readers' = Readers + one(l \in {"shared_wait", "shared"})
                         - one(pc[c] \in {"shared_wait", "shared"})
  BY <1>1 DEF Readers
<1> QED BY <1>2, <1>3, <1>4, <1>5, <1>6, <1>7 DEF Writers, one

LEMMA Numbers ==
  /\ Number({"spin"}) \in Nat /\ Holders \in Nat /\ Readers \in Nat
  /\ Writers \in Nat /\ Number({"shared"}) \in Nat
  /\ Holders <= NCpus /\ Readers <= NCpus
  /\ \A c \in Cpu :
       /\ pc[c] = "spin" => Number({"spin"}) >= 1
       /\ pc[c] \in {"ticket_wait", "ticket"} => Holders >= 1
       /\ pc[c] \notin {"ticket_wait", "ticket"} => Holders < NCpus
       /\ pc[c] \in {"shared_wait", "shared"} => Readers >= 1
       /\ pc[c] \notin {"shared_wait", "shared"} => Readers < NCpus
       /\ pc[c] = "exclusive" => Writers >= 1
       /\ pc[c] = "shared" => Number({"shared"}) >= 1
  /\ Readers = 0 => Number({"shared"}) = 0
<1>1. ASSUME NEW ls
      PROVE  /\ Number(ls) \in Nat /\ Number(ls) <= NCpus
             /\ \A c \in Cpu : /\ pc[c] \in ls => Number(ls) >= 1
                               /\ pc[c] \notin ls => Number(ls) < NCpus
  BY Counts
<1>2. ASSUME NEW l
      PROVE  /\ Number({l}) \in Nat
             /\ \A c \in Cpu : pc[c] = l => Number({l}) >= 1
  <2> DEFINE s == {l}
  <2>1. \A c \in Cpu : pc[c] = l => pc[c] \in s
    OBVIOUS
  <2> HIDE DEF s
  <2>2. Number(s) \in Nat /\ \A c \in Cpu : pc[c] \in s => Number(s) >= 1
    BY <1>1, Zenon
  <2>3. Number(s) \in Nat /\ \A c \in Cpu : pc[c] = l => Number(s) >= 1
    BY <2>1, <2>2
  <2> QED BY <2>3 DEF s
<1>3. /\ Holders \in Nat /\ Holders <= NCpus
      /\ \A c \in Cpu : /\ pc[c] \in {"ticket_wait", "ticket"} => Holders >= 1
                        /\ pc[c] \notin {"ticket_wait", "ticket"} => Holders < NCpus
  BY <1>1 DEF Holders
<1>4. /\ Readers \in Nat /\ Readers <= NCpus
      /\ \A c \in Cpu : /\ pc[c] \in {"shared_wait", "shared"} => Readers >= 1
                        /\ pc[c] \notin {"shared_wait", "shared"} => Readers < NCpus
  BY <1>1 DEF Readers
<1>5. Readers = 0 => Number({"shared"}) = 0
  <2>1. Readers = 0 => \A c \in Cpu : pc[c] \notin {"shared_wait", "shared"}
    BY Counts DEF Readers
  <2>2. (\A c \in Cpu : pc[c] \notin {"shared"}) => Number({"shared"}) = 0
    BY Counts
  <2> QED BY <2>1, <2>2
<1>6. /\ Number({"spin"}) \in Nat
      /\ \A c \in Cpu : pc[c] = "spin" => Number({"spin"}) >= 1
  BY <1>2
<1>7. /\ Writers \in Nat
      /\ \A c \in Cpu : pc[c] = "exclusive" => Writers >= 1
  BY <1>2 DEF Writers
<1>8. /\ Number({"shared"}) \in Nat
      /\ \A c \in Cpu : pc[c] = "shared" => Number({"shared"}) >= 1
  BY <1>2
<1>9. ASSUME NEW c \in Cpu
      PROVE  /\ pc[c] = "spin" => Number({"spin"}) >= 1
             /\ pc[c] \in {"ticket_wait", "ticket"} => Holders >= 1
             /\ pc[c] \notin {"ticket_wait", "ticket"} => Holders < NCpus
             /\ pc[c] \in {"shared_wait", "shared"} => Readers >= 1
             /\ pc[c] \notin {"shared_wait", "shared"} => Readers < NCpus
             /\ pc[c] = "exclusive" => Writers >= 1
             /\ pc[c] = "shared" => Number({"shared"}) >= 1
  <2>1. pc[c] = "spin" => Number({"spin"}) >= 1 BY <1>6
  <2>2. pc[c] = "exclusive" => Writers >= 1 BY <1>7
  <2>3. pc[c] = "shared" => Number({"shared"}) >= 1 BY <1>8
  <2>4. /\ pc[c] \in {"ticket_wait", "ticket"} => Holders >= 1
        /\ pc[c] \notin {"ticket_wait", "ticket"} => Holders < NCpus
    BY <1>3, Zenon
  <2>5. /\ pc[c] \in {"shared_wait", "shared"} => Readers >= 1
        /\ pc[c] \notin {"shared_wait", "shared"} => Readers < NCpus
    BY <1>4, Zenon
  <2> QED BY <2>1, <2>2, <2>3, <2>4, <2>5
<1>10. /\ Number({"spin"}) \in Nat /\ Holders \in Nat /\ Readers \in Nat
       /\ Writers \in Nat /\ Number({"shared"}) \in Nat
       /\ Holders <= NCpus /\ Readers <= NCpus
  BY <1>3, <1>4, <1>6, <1>7, <1>8
<1> QED BY <1>5, <1>9, <1>10

-----------------------------------------------------------------------------
\* A step of one lock is none of the others.
SpinPlaces   == {"spin"}
TicketPlaces == {"ticket_wait", "ticket"}
RwPlaces     == {"shared_wait", "shared", "exclusive"}

LEMMA SpinStays ==
  ASSUME LocksInv, NEW c \in Cpu, NEW l, goto(c, l), pc[c] \notin SpinPlaces,
         l \notin SpinPlaces, spinlock' = spinlock
  PROVE  SpinInv'
BY Moves, Numbers DEF LocksInv, SpinInv, SpinPlaces, one

LEMMA RwStays ==
  ASSUME LocksInv, NEW c \in Cpu, NEW l, goto(c, l), pc[c] \notin RwPlaces,
         l \notin RwPlaces, rwlock' = rwlock
  PROVE  RwInv'
BY Moves, Numbers DEF LocksInv, RwInv, RwPlaces, one

LEMMA TicketStays ==
  ASSUME LocksInv, NEW c \in Cpu, NEW l, goto(c, l), pc[c] \notin TicketPlaces,
         l \notin TicketPlaces, UNCHANGED <<next_ticket, now_serving>>,
         \A d \in Cpu \ {c} : ticket'[d] = ticket[d]
  PROVE  TicketInv'
<1>1. Holders' = Holders
  BY Moves, Numbers DEF TicketPlaces, one
<1>2. \A d \in Cpu : pc'[d] = IF d = c THEN l ELSE pc[d]
  BY DEF goto, LocksInv, TypeOK
<1>3. TicketHolders' = TicketHolders /\ c \notin TicketHolders
  BY <1>2 DEF TicketHolders, TicketPlaces
<1>4. \A d \in TicketHolders : Distance(d)' = Distance(d) /\ ticket'[d] = ticket[d]
  BY <1>3 DEF Distance, TicketHolders
<1> QED BY <1>1, <1>2, <1>3, <1>4 DEF LocksInv, TicketInv, TicketPlaces

LEMMA SpinKeeps ==
  ASSUME LocksInv, NEW c \in Cpu,
         spinlock_xchg(c) \/ spinlock_seen_free(c) \/ spinlock_unlock(c)
  PROVE  LocksInv'
<1> USE DEF LocksInv
<1>1. PICK l \in {"out", "spin", "spin_wait", "spin_again"} :
        /\ goto(c, l)
        /\ \/ /\ spinlock_xchg(c) /\ spinlock' = 1 /\ pc[c] # "spin"
              /\ l = IF spinlock = 0 THEN "spin" ELSE "spin_wait"
           \/ /\ spinlock_seen_free(c) /\ spinlock' = spinlock /\ pc[c] # "spin"
              /\ l = "spin_again"
           \/ /\ spinlock_unlock(c) /\ spinlock' = 0 /\ pc[c] = "spin" /\ l = "out"
  BY DEF spinlock_xchg, spinlock_seen_free, spinlock_unlock
<1>2. pc[c] \in {"out", "spin", "spin_wait", "spin_again"}
  BY DEF spinlock_xchg, spinlock_seen_free, spinlock_unlock
<1>3. UNCHANGED <<next_ticket, now_serving, rwlock, ticket>>
  BY DEF spinlock_xchg, spinlock_seen_free, spinlock_unlock
<1>4. TypeOK'
  BY <1>1, <1>3 DEF TypeOK, Location, goto
<1>5. SpinInv'
  BY <1>1, Moves, Numbers DEF SpinInv, TypeOK, one
<1>6. RwInv' BY <1>1, <1>2, <1>3, RwStays DEF RwPlaces
<1>7. TicketInv' BY <1>1, <1>2, <1>3, TicketStays DEF TicketPlaces
<1> QED BY <1>4, <1>5, <1>6, <1>7

LEMMA OneWriter ==
  ASSUME NEW s \in Nat, NEW x, NEW n \in Nat, NEW k,
         (k = 0 /\ x = n) \/ (k = 1 /\ x = n + s)
  PROVE  x = n + s * k
<1>1. CASE k = 0 /\ x = n
  <2>1. n + s * 0 = n OBVIOUS
  <2> QED BY <1>1, <2>1, Zenon
<1>2. CASE k = 1 /\ x = n + s
  <2>1. n + s * 1 = n + s OBVIOUS
  <2> QED BY <1>2, <2>1, Zenon
<1> QED BY <1>1, <1>2

LEMMA RwKeeps ==
  ASSUME LocksInv, NEW c \in Cpu,
         \/ rw_spinlock_lock_sh(c) \/ rw_spinlock_sign_clear(c)
         \/ rw_spinlock_unlock_sh(c) \/ rw_spinlock_lock_ex(c)
         \/ rw_spinlock_unlock_ex(c)
  PROVE  LocksInv'
<1> USE DEF LocksInv
<1> DEFINE P == {"out", "shared_wait", "shared", "exclusive_wait", "exclusive"}
<1>1. pc \in [Cpu -> Location] /\ pc[c] \in P
  BY DEF TypeOK, rw_spinlock_lock_sh, rw_spinlock_sign_clear, rw_spinlock_unlock_sh,
     rw_spinlock_lock_ex, rw_spinlock_unlock_ex
<1>2. UNCHANGED <<spinlock, next_ticket, now_serving, ticket>>
  BY DEF rw_spinlock_lock_sh, rw_spinlock_sign_clear, rw_spinlock_unlock_sh,
     rw_spinlock_lock_ex, rw_spinlock_unlock_ex
<1>3. pc = [pc EXCEPT ![c] = pc[c]]
  BY <1>1
<1>4. PICK l \in P :
        /\ goto(c, l)
        /\ \/ /\ pc[c] = "out" /\ rwlock' = add_reader(rwlock)
              /\ l = IF negative(rwlock') THEN "shared_wait" ELSE "shared"
           \/ /\ pc[c] = "shared_wait" /\ l = "shared" /\ ~negative(rwlock)
              /\ rwlock' = rwlock
           \/ pc[c] = "shared" /\ l = "out" /\ rwlock' = sub_reader(rwlock)
           \/ /\ pc[c] \in {"out", "exclusive_wait"} /\ l = "exclusive"
              /\ rwlock = 0 /\ rwlock' = Sign
           \/ /\ pc[c] \in {"out", "exclusive_wait"} /\ l \in {"out", "exclusive_wait"}
              /\ rwlock' = rwlock
           \/ pc[c] = "exclusive" /\ l = "out" /\ rwlock' = clear_writer(rwlock)
  BY <1>1, <1>3 DEF goto, rw_spinlock_lock_sh, rw_spinlock_sign_clear,
     rw_spinlock_unlock_sh, rw_spinlock_lock_ex, rw_spinlock_unlock_ex
<1>5. SpinInv' BY <1>1, <1>2, <1>4, SpinStays DEF SpinPlaces
<1>6. TicketInv' BY <1>1, <1>2, <1>4, TicketStays DEF TicketPlaces
<1> DEFINE r == Readers
           w == Writers
           i == Number({"shared"})
<1>7. /\ Sign \in Nat /\ Sign > NCpus /\ Word = 0 .. 2 * Sign - 1
      /\ NCpus \in Nat /\ rwlock \in Word
  BY Moduli DEF TypeOK
<1>8. \/ w = 0 /\ rwlock = r
      \/ w = 1 /\ rwlock = r + Sign /\ i = 0
  BY <1>7, Numbers DEF RwInv
\* What the step does to the word ...
<1>9. \/ /\ pc[c] = "out" /\ rwlock' = rwlock + 1
         /\ l = IF w = 1 THEN "shared_wait" ELSE "shared"
      \/ pc[c] = "shared_wait" /\ l = "shared" /\ rwlock' = rwlock /\ w = 0
      \/ pc[c] = "shared" /\ l = "out" /\ rwlock' = rwlock - 1 /\ w = 0
      \/ /\ pc[c] \in {"out", "exclusive_wait"} /\ l = "exclusive"
         /\ rwlock = 0 /\ rwlock' = Sign /\ w = 0
      \/ /\ pc[c] \in {"out", "exclusive_wait"} /\ l \in {"out", "exclusive_wait"}
         /\ rwlock' = rwlock
      \/ pc[c] = "exclusive" /\ l = "out" /\ rwlock' = rwlock - Sign /\ w = 1
  <2>1. pc[c] = "out" => /\ add_reader(rwlock) = rwlock + 1
                         /\ negative(rwlock + 1) <=> w = 1
    <3> SUFFICES ASSUME pc[c] = "out"
                 PROVE  /\ add_reader(rwlock) = rwlock + 1
                        /\ negative(rwlock + 1) <=> w = 1
      OBVIOUS
    <3>1. r \in Nat /\ r < NCpus
      BY Numbers
    <3>2. rwlock + 1 < 2 * Sign /\ (rwlock + 1 >= Sign <=> w = 1)
      <4> HIDE DEF r, w, i
      <4> QED BY <1>7, <1>8, <3>1
    <3> QED BY <1>7, <3>2, Half DEF negative
  <2>2. ~negative(rwlock) => w = 0
    BY <1>7, <1>8, Numbers DEF negative
  <2>3. pc[c] = "shared" => w = 0 /\ sub_reader(rwlock) = rwlock - 1
    BY <1>7, <1>8, Numbers, Half
  <2>4. rwlock = 0 => w = 0
    BY <1>7, <1>8, Numbers
  <2>5. pc[c] = "exclusive" => w = 1 /\ clear_writer(rwlock) = rwlock - Sign
    BY <1>7, <1>8, Numbers, Half
  <2> HIDE DEF r, w, i, P
  <2> QED BY <1>4, <2>1, <2>2, <2>3, <2>4, <2>5
\* ... and to the counts.
<1>10. PICK r1, w1, i1 :
         /\ r1 = r + one(l \in {"shared_wait", "shared"})
                  - one(pc[c] \in {"shared_wait", "shared"})
         /\ w1 = w + one(l = "exclusive") - one(pc[c] = "exclusive")
         /\ i1 = i + one(l = "shared") - one(pc[c] = "shared")
         /\ r1 = Readers' /\ w1 = Writers' /\ i1 = Number({"shared"})'
  BY <1>4, Moves
<1>11. /\ r \in Nat /\ i \in Nat /\ r <= NCpus
       /\ pc[c] \notin {"shared_wait", "shared"} => r < NCpus
       /\ pc[c] \in {"shared_wait", "shared"} => r >= 1
       /\ pc[c] = "shared" => i >= 1
       /\ r = 0 => i = 0
  BY Numbers
<1> HIDE DEF r, w, i, P
<1>12. /\ \/ w1 = 0 /\ rwlock' = r1
          \/ w1 = 1 /\ rwlock' = r1 + Sign /\ i1 = 0
       /\ rwlock' \in Word /\ r1 \in Nat
  BY <1>7, <1>8, <1>9, <1>10, <1>11 DEF one
<1>13. TypeOK'
  BY <1>1, <1>2, <1>4, <1>12 DEF TypeOK, Location, goto, P
<1>14. RwInv'
  <2>1. rwlock' = r1 + Sign * w1 /\ w1 \in {0, 1} /\ (w1 = 1 => i1 = 0)
    BY <1>7, <1>12, OneWriter
  <2> QED BY <1>10, <2>1 DEF RwInv
<1> QED BY <1>5, <1>6, <1>13, <1>14

\* The ticket lock: what the counters and the distances become.
LEMMA TicketFacts ==
  ASSUME LocksInv
  PROVE  /\ next_ticket \in Ticket /\ now_serving \in Ticket
         /\ \A c \in Cpu : ticket[c] \in Ticket
         /\ \A c \in Cpu : Distance(c) = IF ticket[c] >= now_serving
                                         THEN ticket[c] - now_serving
                                         ELSE ticket[c] - now_serving + Tickets
         /\ (IF next_ticket >= now_serving THEN next_ticket - now_serving
             ELSE next_ticket - now_serving + Tickets)
              = IF Holders = Tickets THEN 0 ELSE Holders
         /\ Holders \in Nat /\ Holders <= Tickets
<1>1. /\ next_ticket \in Ticket /\ now_serving \in Ticket
      /\ \A c \in Cpu : ticket[c] \in Ticket
  BY DEF LocksInv, TypeOK
<1>2. ASSUME NEW c \in Cpu
      PROVE  Distance(c) = IF ticket[c] >= now_serving
                           THEN ticket[c] - now_serving
                           ELSE ticket[c] - now_serving + Tickets
  <2>1. ticket[c] \in Ticket BY <1>1
  <2>2. (ticket[c] - now_serving) % Tickets = IF ticket[c] >= now_serving
                           THEN ticket[c] - now_serving
                           ELSE ticket[c] - now_serving + Tickets
    BY <1>1, <2>1, Minus
  <2> QED BY <2>2 DEF Distance, Tickets
<1>3. (next_ticket - now_serving) % Tickets =
        IF next_ticket >= now_serving THEN next_ticket - now_serving
        ELSE next_ticket - now_serving + Tickets
  BY <1>1, Minus
<1>4. Holders % Tickets = IF Holders = Tickets THEN 0 ELSE Holders
  BY Numbers, Small
<1>5. Holders \in Nat /\ Holders <= Tickets
  BY Numbers, Moduli
<1> QED BY <1>1, <1>2, <1>3, <1>4, <1>5 DEF LocksInv, TicketInv

LEMMA TicketGoesOn ==
  ASSUME LocksInv, NEW c \in Cpu,
         ticketlock_read(c) \/ ticketlock_served(c)
           \/ (ticketlock_add(c) /\ next_ticket # ticket[c])
  PROVE  LocksInv'
<1> USE DEF LocksInv
<1>1. pc \in [Cpu -> Location] /\ ticket \in [Cpu -> Ticket] /\ next_ticket \in Ticket
  BY DEF TypeOK
<1>2. PICK l \in {"ticket_add", "ticket"} :
        /\ goto(c, l)
        /\ pc[c] \in {"out", "ticket_add", "ticket_wait"}
        /\ pc[c] = "ticket_wait" <=> l = "ticket"
  BY <1>1 DEF goto, ticketlock_read, ticketlock_served, ticketlock_add
<1>3. /\ UNCHANGED <<spinlock, next_ticket, now_serving, rwlock>>
      /\ ticket' \in [Cpu -> Ticket]
      /\ \A d \in Cpu \ {c} : ticket'[d] = ticket[d]
  BY <1>1 DEF ticketlock_read, ticketlock_served, ticketlock_add
<1>4. TypeOK'
  BY <1>1, <1>2, <1>3 DEF TypeOK, Location, goto
<1>5. SpinInv' BY <1>2, <1>3, SpinStays DEF SpinPlaces
<1>6. RwInv' BY <1>2, <1>3, RwStays DEF RwPlaces
<1>7. TicketInv'
  <2>1. CASE l = "ticket_add"
    BY <1>2, <1>3, <2>1, TicketStays DEF TicketPlaces
  <2>2. CASE l = "ticket"
    <3>1. Holders' = Holders
      BY <1>2, <2>2, Moves, Numbers DEF one
    <3>2. \A d \in Cpu : pc'[d] = IF d = c THEN "ticket" ELSE pc[d]
      BY <1>1, <1>2, <2>2 DEF goto
    <3>3. TicketHolders' = TicketHolders
      BY <1>2, <2>2, <3>2 DEF TicketHolders
    <3>4. ticket' = ticket /\ now_serving' = now_serving /\ now_serving = ticket[c]
      BY <1>2, <2>2 DEF ticketlock_read, ticketlock_served, ticketlock_add
    <3>5. \A d \in Cpu : Distance(d)' = Distance(d)
      BY <3>4 DEF Distance
    <3>6. \A d \in Cpu : pc'[d] = "ticket" => ticket'[d] = now_serving'
      BY <3>2, <3>4 DEF TicketInv
    <3>7. next_ticket' = next_ticket BY <1>3
    <3>8. \A d \in TicketHolders : d \in Cpu BY DEF TicketHolders
    <3> QED BY <3>1, <3>3, <3>4, <3>5, <3>6, <3>7, <3>8 DEF TicketInv
  <2> QED BY <1>2, <2>1, <2>2
<1> QED BY <1>4, <1>5, <1>6, <1>7

\* The numbers between two counters that have wrapped, M apart.
between(s, n, M) == IF n >= s THEN n - s ELSE n - s + M
next(n, M) == IF n = M - 1 THEN 0 ELSE n + 1

LEMMA Between ==
  ASSUME NEW M \in Nat \ {0}, NEW s \in 0 .. M - 1, NEW n \in 0 .. M - 1,
         NEW h \in 0 .. M, between(s, n, M) = IF h = M THEN 0 ELSE h
  PROVE  /\ h < M => between(s, next(n, M), M) = IF h + 1 = M THEN 0 ELSE h + 1
         /\ h > 0 => between(next(s, M), n, M) = h - 1
BY DEF between, next

LEMMA TicketTaken ==
  ASSUME LocksInv, NEW c \in Cpu, ticketlock_add(c), next_ticket = ticket[c]
  PROVE  /\ LocksInv'
         /\ c \notin TicketHolders /\ TicketHolders' = TicketHolders \cup {c}
         /\ Holders' = Holders + 1 /\ Distance(c) = Holders
         /\ \A d \in Cpu : Distance(d)' = Distance(d)
<1>1. /\ pc \in [Cpu -> Location] /\ pc[c] = "ticket_add"
      /\ goto(c, "ticket_wait")
      /\ next_ticket' = after(next_ticket)
      /\ UNCHANGED <<spinlock, now_serving, rwlock, ticket>>
  BY DEF LocksInv, TypeOK, ticketlock_add
<1>2. after(next_ticket) = IF next_ticket = Tickets - 1 THEN 0 ELSE next_ticket + 1
  BY TicketFacts, Plus
<1>3. TypeOK'
  <2>1. next_ticket' \in Ticket
    BY <1>1, <1>2, TicketFacts, Moduli
  <2> QED BY <1>1, <2>1 DEF LocksInv, TypeOK, Location, goto
<1>4. SpinInv' BY <1>1, SpinStays DEF SpinPlaces
<1>5. RwInv' BY <1>1, RwStays DEF RwPlaces
<1>6. Holders' = Holders + 1 /\ Holders < NCpus
  BY <1>1, Moves, Numbers DEF one
<1>7. \A d \in Cpu : Distance(d)' = Distance(d)
  BY <1>1 DEF Distance
<1>8. Distance(c) = Holders
  BY <1>6, TicketFacts, Moduli
<1>9. \A d \in Cpu : pc'[d] = IF d = c THEN "ticket_wait" ELSE pc[d]
  BY <1>1 DEF goto
<1>10. c \notin TicketHolders /\ TicketHolders' = TicketHolders \cup {c}
  BY <1>1, <1>9 DEF TicketHolders
<1>11. TicketInv'
  <2>1. (next_ticket' - now_serving) % Tickets = (Holders + 1) % Tickets
    <3>1. next_ticket' \in Ticket /\ now_serving \in Ticket
      BY <1>1, <1>3, TicketFacts DEF TypeOK
    <3>2. (next_ticket' - now_serving) % Tickets =
            IF next_ticket' >= now_serving THEN next_ticket' - now_serving
            ELSE next_ticket' - now_serving + Tickets
      BY <3>1, Minus
    <3>3. (Holders + 1) % Tickets = IF Holders + 1 = Tickets THEN 0 ELSE Holders + 1
      <4>1. Holders + 1 \in Nat /\ Holders + 1 <= NCpus
        BY <1>6, TicketFacts, Moduli
      <4> QED BY <4>1, Small
    <3>4. /\ Tickets \in Nat \ {0} /\ Holders \in 0 .. Tickets /\ Holders < Tickets
          /\ now_serving \in 0 .. Tickets - 1 /\ next_ticket \in 0 .. Tickets - 1
          /\ between(now_serving, next_ticket, Tickets)
               = IF Holders = Tickets THEN 0 ELSE Holders
      BY <1>6, TicketFacts, Moduli DEF between
    <3>5. between(now_serving, next(next_ticket, Tickets), Tickets)
            = IF Holders + 1 = Tickets THEN 0 ELSE Holders + 1
      BY <3>4, Between
    <3> QED BY <1>1, <1>2, <3>2, <3>3, <3>5 DEF between, next
  <2>2. \A d \in TicketHolders' : Distance(d)' < Holders'
    <3>1. \A d \in TicketHolders : Distance(d) < Holders /\ d \in Cpu
      BY DEF LocksInv, TicketInv, TicketHolders
    <3>2. \A d \in TicketHolders : Distance(d) < Holders + 1
      BY <3>1, TicketFacts, Moduli
    <3>3. Holders < Holders + 1 BY TicketFacts
    <3> QED BY <1>6, <1>7, <1>8, <1>10, <3>1, <3>2, <3>3
  <2>3. \A d \in TicketHolders : ticket[d] # ticket[c]
    <3> SUFFICES ASSUME NEW d \in TicketHolders, ticket[d] = ticket[c] PROVE FALSE
      OBVIOUS
    <3>1. Distance(d) = Distance(c) BY DEF Distance
    <3>2. Distance(d) < Holders BY DEF LocksInv, TicketInv
    <3> QED BY <1>8, <3>1, <3>2, TicketFacts
  <2>4. \A d, e \in TicketHolders' : d # e => ticket'[d] # ticket'[e]
    BY <1>1, <1>10, <2>3 DEF LocksInv, TicketInv
  <2>5. \A d \in Cpu : pc'[d] = "ticket" => ticket'[d] = now_serving'
    BY <1>1, <1>9 DEF LocksInv, TicketInv
  <2>6. \A i \in 0 .. Holders' - 1 : \E d \in TicketHolders' : Distance(d)' = i
    <3> SUFFICES ASSUME NEW i \in 0 .. Holders' - 1
                 PROVE  \E d \in TicketHolders' : Distance(d)' = i
      OBVIOUS
    <3>1. CASE i = Holders
      BY <1>7, <1>8, <1>10, <3>1
    <3>2. CASE i # Holders
      <4>1. i \in 0 .. Holders - 1 BY <1>6, <3>2, TicketFacts
      <4>2. PICK d \in TicketHolders : Distance(d) = i
        BY <4>1 DEF LocksInv, TicketInv
      <4>3. d \in Cpu /\ d \in TicketHolders' BY <1>10 DEF TicketHolders
      <4> QED BY <1>7, <4>2, <4>3
    <3> QED BY <3>1, <3>2
  <2> QED BY <1>1, <1>6, <2>1, <2>2, <2>4, <2>5, <2>6 DEF TicketInv
<1> QED BY <1>3, <1>4, <1>5, <1>6, <1>7, <1>8, <1>10, <1>11 DEF LocksInv

LEMMA TicketGivenBack ==
  ASSUME LocksInv, NEW c \in Cpu, ticketlock_unlock(c)
  PROVE  /\ LocksInv'
         /\ c \in TicketHolders /\ TicketHolders' = TicketHolders \ {c}
         /\ Holders' = Holders - 1 /\ Distance(c) = 0
         /\ \A d \in TicketHolders' : Distance(d)' = Distance(d) - 1
<1>1. /\ pc \in [Cpu -> Location] /\ pc[c] = "ticket"
      /\ goto(c, "out")
      /\ now_serving' = after(now_serving)
      /\ UNCHANGED <<spinlock, next_ticket, rwlock, ticket>>
  BY DEF LocksInv, TypeOK, ticketlock_unlock, serve_next
<1>2. after(now_serving) = IF now_serving = Tickets - 1 THEN 0 ELSE now_serving + 1
  BY TicketFacts, Plus
<1>3. TypeOK'
  <2>1. now_serving' \in Ticket
    BY <1>1, <1>2, TicketFacts, Moduli
  <2> QED BY <1>1, <2>1 DEF LocksInv, TypeOK, Location, goto
<1>4. SpinInv' BY <1>1, SpinStays DEF SpinPlaces
<1>5. RwInv' BY <1>1, RwStays DEF RwPlaces
<1>6. Holders' = Holders - 1 /\ Holders >= 1
  BY <1>1, Moves, Numbers DEF one
<1>7. \A d \in Cpu : pc'[d] = IF d = c THEN "out" ELSE pc[d]
  BY <1>1 DEF goto
<1>8. c \in TicketHolders /\ TicketHolders' = TicketHolders \ {c}
  BY <1>1, <1>7 DEF TicketHolders
<1>9. ticket[c] = now_serving /\ Distance(c) = 0
  <2>1. ticket[c] = now_serving BY <1>1 DEF LocksInv, TicketInv
  <2> QED BY <2>1, TicketFacts, Moduli
<1>10. ASSUME NEW d \in TicketHolders'
       PROVE  Distance(d)' = Distance(d) - 1 /\ ticket'[d] # now_serving
  <2>1. d \in TicketHolders /\ d # c /\ d \in Cpu
    BY <1>8 DEF TicketHolders
  <2>2. ticket[d] # now_serving
    BY <1>8, <1>9, <2>1 DEF LocksInv, TicketInv
  <2>3. ticket[d] \in Ticket /\ now_serving' \in Ticket /\ ticket' = ticket
    BY <1>1, <1>3, <2>1, TicketFacts DEF TypeOK
  <2>4. (ticket[d] - now_serving') % Tickets =
          IF ticket[d] >= now_serving' THEN ticket[d] - now_serving'
          ELSE ticket[d] - now_serving' + Tickets
    BY <2>3, Minus
  <2>5. Distance(d)' = (ticket[d] - now_serving') % Tickets
    BY <2>3 DEF Distance, Tickets
  <2>6. Distance(d) = IF ticket[d] >= now_serving THEN ticket[d] - now_serving
                      ELSE ticket[d] - now_serving + Tickets
    BY <2>1, TicketFacts
  <2>7. /\ Tickets \in Nat /\ ticket[d] \in 0 .. Tickets - 1
        /\ now_serving \in 0 .. Tickets - 1
        /\ now_serving' = IF now_serving = Tickets - 1 THEN 0 ELSE now_serving + 1
    BY <1>1, <1>2, <2>3, Moduli, TicketFacts
  <2> QED BY <2>2, <2>3, <2>4, <2>5, <2>6, <2>7
<1>11. TicketInv'
  <2>1. (next_ticket - now_serving') % Tickets = (Holders - 1) % Tickets
    <3>1. next_ticket \in Ticket /\ now_serving' \in Ticket
      BY <1>1, <1>3, TicketFacts DEF TypeOK
    <3>2. (next_ticket - now_serving') % Tickets =
            IF next_ticket >= now_serving' THEN next_ticket - now_serving'
            ELSE next_ticket - now_serving' + Tickets
      BY <3>1, Minus
    <3>3. (Holders - 1) % Tickets = Holders - 1
      <4>1. Holders - 1 \in Nat /\ Holders - 1 <= NCpus /\ Holders - 1 # Tickets
        BY <1>6, TicketFacts, Moduli, Numbers
      <4> QED BY <4>1, Small
    <3>4. /\ Tickets \in Nat \ {0} /\ Holders \in 0 .. Tickets /\ Holders > 0
          /\ now_serving \in 0 .. Tickets - 1 /\ next_ticket \in 0 .. Tickets - 1
          /\ between(now_serving, next_ticket, Tickets)
               = IF Holders = Tickets THEN 0 ELSE Holders
      BY <1>6, TicketFacts, Moduli DEF between
    <3>5. between(next(now_serving, Tickets), next_ticket, Tickets) = Holders - 1
      BY <3>4, Between
    <3> QED BY <1>1, <1>2, <3>2, <3>3, <3>5 DEF between, next
  <2>2. \A d \in TicketHolders' : Distance(d)' < Holders'
    <3>1. \A d \in TicketHolders' : d \in TicketHolders /\ d \in Cpu
      BY <1>8 DEF TicketHolders
    <3>2. \A d \in TicketHolders : Distance(d) < Holders
      BY DEF LocksInv, TicketInv
    <3>3. \A d \in Cpu : Distance(d) \in Int
      BY TicketFacts, Moduli
    <3> QED BY <1>6, <1>10, <3>1, <3>2, <3>3, TicketFacts
  <2>3. \A d, e \in TicketHolders' : d # e => ticket'[d] # ticket'[e]
    BY <1>1, <1>8 DEF LocksInv, TicketInv
  <2>4. \A d \in Cpu : pc'[d] # "ticket"
    <3> SUFFICES ASSUME NEW d \in Cpu, pc'[d] = "ticket" PROVE FALSE
      OBVIOUS
    <3>1. d # c /\ pc[d] = "ticket" BY <1>7
    <3>2. d \in TicketHolders /\ ticket[d] = now_serving
      BY <3>1 DEF LocksInv, TicketInv, TicketHolders
    <3> QED BY <1>8, <1>9, <3>1, <3>2 DEF LocksInv, TicketInv
  <2>5. \A i \in 0 .. Holders' - 1 : \E d \in TicketHolders' : Distance(d)' = i
    <3> SUFFICES ASSUME NEW i \in 0 .. Holders' - 1
                 PROVE  \E d \in TicketHolders' : Distance(d)' = i
      OBVIOUS
    <3>1. i + 1 \in 0 .. Holders - 1 /\ i + 1 # 0 /\ (i + 1) - 1 = i
      BY <1>6, TicketFacts
    <3>2. PICK d \in TicketHolders : Distance(d) = i + 1
      BY <3>1 DEF LocksInv, TicketInv
    <3>3. d # c /\ d \in TicketHolders'
      BY <1>8, <1>9, <3>1, <3>2
    <3> QED BY <1>10, <3>1, <3>2, <3>3
  <2> QED BY <1>1, <1>6, <2>1, <2>2, <2>3, <2>4, <2>5 DEF TicketInv
<1> QED BY <1>3, <1>4, <1>5, <1>6, <1>8, <1>9, <1>10, <1>11 DEF LocksInv

-----------------------------------------------------------------------------
LEMMA LocksInit ==
  Init => LocksInv
<1> SUFFICES ASSUME Init PROVE LocksInv
  OBVIOUS
<1>1. \A c \in Cpu : pc[c] = "out"
  BY DEF Init
<1>2. TypeOK
  <2>1. 0 \in Ticket /\ 0 \in Word BY Moduli
  <2> QED BY <2>1 DEF Init, TypeOK, Location
<1>3. ASSUME NEW ls, "out" \notin ls
      PROVE  Number(ls) = 0
  BY <1>1, <1>3, Counts
<1>4. /\ Number({"spin"}) = 0 /\ Holders = 0 /\ Readers = 0 /\ Writers = 0
      /\ Number({"shared"}) = 0
  <2>1. /\ "out" \notin {"spin"} /\ "out" \notin {"ticket_wait", "ticket"}
        /\ "out" \notin {"shared_wait", "shared"} /\ "out" \notin {"exclusive"}
        /\ "out" \notin {"shared"}
    OBVIOUS
  <2> QED BY <1>3, <2>1 DEF Holders, Readers, Writers
<1>5. SpinInv
  BY <1>4 DEF Init, SpinInv
<1>6. RwInv
  <2>1. Sign * 0 = 0 BY Moduli
  <2>2. rwlock = 0 + 0 BY DEF Init
  <2> QED BY <1>4, <2>1, <2>2, Zenon DEF RwInv
<1>7. TicketInv
  <2>1. TicketHolders = {} BY <1>1 DEF TicketHolders
  <2>2. next_ticket - now_serving = 0 BY DEF Init
  <2> QED BY <1>1, <1>4, <2>1, <2>2 DEF TicketInv
<1> QED BY <1>2, <1>5, <1>6, <1>7 DEF LocksInv

LEMMA LocksStep ==
  LocksInv /\ [Next]_vars => LocksInv'
<1> SUFFICES ASSUME LocksInv, [Next]_vars PROVE LocksInv'
  OBVIOUS
<1>1. CASE UNCHANGED vars
  BY <1>1 DEF vars, LocksInv, TypeOK, SpinInv, TicketInv, RwInv, Holders, Readers,
     Writers, Number, TicketHolders, Distance
<1>2. ASSUME NEW c \in Cpu,
             spinlock_xchg(c) \/ spinlock_seen_free(c) \/ spinlock_unlock(c)
      PROVE  LocksInv'
  BY <1>2, SpinKeeps
<1>3. ASSUME NEW c \in Cpu,
             ticketlock_read(c) \/ ticketlock_add(c) \/ ticketlock_served(c)
      PROVE  LocksInv'
  BY <1>3, TicketGoesOn, TicketTaken
<1>4. ASSUME NEW c \in Cpu, ticketlock_unlock(c)
      PROVE  LocksInv'
  BY <1>4, TicketGivenBack
<1>5. ASSUME NEW c \in Cpu,
             \/ rw_spinlock_lock_sh(c) \/ rw_spinlock_sign_clear(c)
             \/ rw_spinlock_unlock_sh(c) \/ rw_spinlock_lock_ex(c)
             \/ rw_spinlock_unlock_ex(c)
      PROVE  LocksInv'
  BY <1>5, RwKeeps
<1> QED BY <1>1, <1>2, <1>3, <1>4, <1>5 DEF Next, GoesOn

\* The inductive invariant holds in every state, whatever is fair.
THEOREM LocksInvariant == Spec => []LocksInv
<1> QED BY LocksInit, LocksStep, PTL DEF Spec

\* The words of the three locks tell who is inside, whatever their counters have
\* wrapped to, and no two processors hold the same ticket (spinlock.h).
THEOREM WordsCountAlways == Spec => []WordsCount
<1>1. LocksInv => WordsCount
  <2> SUFFICES ASSUME LocksInv PROVE WordsCount
    OBVIOUS
  <2> QED BY DEF LocksInv, SpinInv, TicketInv, RwInv, WordsCount, Holders, Readers,
     Writers, Tickets
<1> QED BY <1>1, LocksInvariant, PTL

-----------------------------------------------------------------------------
(***************************************************************************)
(* Refinement.  The distances of the holders are 0, 1, ..., so queue is    *)
(* the one sequence that names them in that order: it is enough to give,   *)
(* after each step, a sequence that does.                                  *)
(***************************************************************************)
InOrder(q) ==
  /\ q \in Seq(Cpu) /\ Len(q) = Holders
  /\ \A i \in 1 .. Holders : q[i] \in TicketHolders /\ Distance(q[i]) = i - 1

LEMMA QueueInOrder ==
  ASSUME LocksInv
  PROVE  InOrder(queue)
<1> DEFINE at(i) == {c \in TicketHolders : Distance(c) = i - 1}
           f == [i \in 1 .. Holders |-> IF at(i) = {} THEN NCpus
                                       ELSE CHOOSE c \in at(i) : TRUE]
<1>1. queue = f
  BY Zenon DEF queue, Holders
<1>2. Holders \in Nat BY TicketFacts
<1>3. ASSUME NEW i \in 1 .. Holders
      PROVE  f[i] \in TicketHolders /\ Distance(f[i]) = i - 1 /\ f[i] \in Cpu
  <2>1. i - 1 \in 0 .. Holders - 1 BY <1>2
  <2>2. \E c \in TicketHolders : Distance(c) = i - 1
    BY <2>1 DEF LocksInv, TicketInv
  <2>3. at(i) # {} BY <2>2
  <2>4. f[i] = CHOOSE c \in at(i) : TRUE
    BY <2>3
  <2>5. f[i] \in at(i)
    BY <2>3, <2>4, Zenon
  <2>6. f[i] \in TicketHolders /\ Distance(f[i]) = i - 1
    BY <2>5
  <2> QED BY <2>6 DEF TicketHolders
<1>4. f \in [1 .. Holders -> Cpu]
  BY <1>3
<1>5. f \in Seq(Cpu) /\ Len(f) = Holders
  <2>1. f \in Seq(Cpu)
    <3>1. f \in UNION {[1 .. k -> Cpu] : k \in Nat} BY <1>2, <1>4, Zenon
    <3> QED BY <3>1, SeqDef, Zenon
  <2>2. DOMAIN f = 1 .. Holders BY Zenon
  <2> HIDE DEF f
  <2>3. Len(f) \in Nat /\ DOMAIN f = 1 .. Len(f) BY <2>1, LenProperties
  <2> QED BY <1>2, <2>1, <2>2, <2>3
<1> HIDE DEF f
<1> QED BY <1>1, <1>3, <1>5 DEF InOrder

LEMMA SameOrder ==
  LocksInv => \A p : InOrder(p) => p = queue
<1> SUFFICES ASSUME LocksInv, NEW p, InOrder(p) PROVE p = queue
  OBVIOUS
<1>0. PICK q : q = queue /\ InOrder(q)
  BY QueueInOrder
<1>1. Holders \in Nat BY TicketFacts
<1>2. ASSUME NEW i \in 1 .. Holders
      PROVE  p[i] = q[i]
  <2>1. /\ p[i] \in TicketHolders /\ q[i] \in TicketHolders
        /\ Distance(p[i]) = Distance(q[i])
    BY <1>0 DEF InOrder
  <2>2. p[i] \in Cpu /\ q[i] \in Cpu BY <2>1 DEF TicketHolders
  <2>3. ASSUME NEW a \in Cpu, NEW b \in Cpu, Distance(a) = Distance(b)
        PROVE  ticket[a] = ticket[b]
    <3> DEFINE x == ticket[a]
               y == ticket[b]
    <3>1. /\ Tickets \in Nat /\ now_serving \in 0 .. Tickets - 1
          /\ x \in 0 .. Tickets - 1 /\ y \in 0 .. Tickets - 1
      BY TicketFacts, Moduli
    <3>2. between(now_serving, x, Tickets) = between(now_serving, y, Tickets)
      BY <2>3, TicketFacts DEF between
    <3> HIDE DEF x, y
    <3>3. x = y
      BY <3>1, <3>2 DEF between
    <3> QED BY <3>3 DEF x, y
  <2> QED BY <2>1, <2>2, <2>3 DEF LocksInv, TicketInv
<1>3. p = q
  BY <1>0, <1>1, <1>2 DEF InOrder
<1> QED BY <1>0, <1>3

LEMMA SameOrderNext ==
  ASSUME LocksInv', NEW q, InOrder(q)'
  PROVE  queue' = q
<1>1. (LocksInv => \A p : InOrder(p) => p = queue)'
  BY SameOrder, PTL
<1> QED BY <1>1

-----------------------------------------------------------------------------
\* Who is inside: how a processor goes in, goes out and looks on.
Inside == {"spin", "ticket", "shared", "exclusive"}

LEMMA InsideIs ==
  /\ inside \in [Cpu -> Inside \cup {"none"}]
  /\ \A c \in Cpu : inside[c] = IF pc[c] \in Inside THEN pc[c] ELSE "none"
BY DEF inside, Inside

LEMMA InsideStep ==
  ASSUME LocksInv, NEW c \in Cpu, NEW l, goto(c, l)
  PROVE  inside' = [inside EXCEPT ![c] = IF l \in Inside THEN l ELSE "none"]
<1>1. \A d \in Cpu : pc'[d] = IF d = c THEN l ELSE pc[d]
  BY DEF goto, LocksInv, TypeOK
<1>2. inside' = [d \in Cpu |-> IF pc'[d] \in Inside THEN pc'[d] ELSE "none"]
  BY DEF inside, Inside
<1>3. inside = [d \in Cpu |-> IF pc[d] \in Inside THEN pc[d] ELSE "none"]
  BY DEF inside, Inside
<1> QED BY <1>1, <1>2, <1>3

LEMMA InsideStays ==
  ASSUME LocksInv, NEW c \in Cpu, NEW l, goto(c, l), pc[c] \notin Inside,
         l \notin Inside
  PROVE  inside' = inside
BY InsideStep, InsideIs

\* The queue, while nobody takes a ticket or gives one back.
LEMMA QueueStays ==
  ASSUME LocksInv, LocksInv', NEW c \in Cpu, NEW l, goto(c, l),
         pc[c] \in TicketPlaces <=> l \in TicketPlaces,
         now_serving' = now_serving, \A d \in TicketHolders : ticket'[d] = ticket[d]
  PROVE  queue' = queue
<1>1. Holders' = Holders
  BY Moves, Numbers DEF TicketPlaces, one
<1>2. \A d \in Cpu : pc'[d] = IF d = c THEN l ELSE pc[d]
  BY DEF goto, LocksInv, TypeOK
<1>3. TicketHolders' = TicketHolders
  BY <1>2 DEF TicketHolders, TicketPlaces
<1>4. \A d \in TicketHolders : Distance(d)' = Distance(d)
  BY DEF Distance
<1>5. PICK q : q = queue /\ InOrder(q)
  BY QueueInOrder
<1>6. InOrder(q)'
  BY <1>1, <1>3, <1>4, <1>5 DEF InOrder
<1> QED BY <1>5, <1>6, SameOrderNext

LEMMA QueueGrows ==
  ASSUME LocksInv, NEW c \in Cpu, ticketlock_add(c), next_ticket = ticket[c]
  PROVE  /\ queue' = Append(queue, c)
         /\ \A i \in DOMAIN queue : queue[i] # c
<1>1. PICK q : q = queue /\ InOrder(q)
  BY QueueInOrder
<1>2. PICK h \in Nat : h = Holders
  BY TicketFacts
<1>3. q \in Seq(Cpu) /\ Len(q) = h /\ DOMAIN q = 1 .. h
  BY <1>1, <1>2, LenProperties DEF InOrder
<1>4. /\ Append(q, c) \in Seq(Cpu) /\ Len(Append(q, c)) = h + 1
      /\ \A i \in 1 .. h : Append(q, c)[i] = q[i]
      /\ Append(q, c)[h + 1] = c
  BY <1>3, AppendProperties
<1>5. /\ LocksInv' /\ c \notin TicketHolders /\ TicketHolders' = TicketHolders \cup {c}
      /\ Holders' = h + 1 /\ Distance(c)' = h
      /\ \A d \in TicketHolders : Distance(d)' = Distance(d)
  BY <1>2, TicketTaken DEF TicketHolders
<1>6. \A i \in 1 .. h : q[i] \in TicketHolders /\ Distance(q[i]) = i - 1
  BY <1>1, <1>2 DEF InOrder
<1>7. ASSUME NEW i \in 1 .. h + 1
      PROVE  /\ Append(q, c)[i] \in TicketHolders'
             /\ Distance(Append(q, c)[i])' = i - 1
  <2>1. CASE i = h + 1
    BY <1>2, <1>4, <1>5, <2>1
  <2>2. CASE i # h + 1
    <3>1. i \in 1 .. h BY <1>2, <2>2
    <3>2. Append(q, c)[i] = q[i] BY <1>4, <3>1
    <3>3. q[i] \in TicketHolders /\ Distance(q[i]) = i - 1 BY <1>6, <3>1
    <3> QED BY <1>5, <3>2, <3>3
  <2> QED BY <2>1, <2>2
<1>8. InOrder(Append(q, c))'
  BY <1>4, <1>5, <1>7 DEF InOrder
<1>9. queue' = Append(q, c)
  BY <1>5, <1>8, SameOrderNext
<1> QED BY <1>1, <1>3, <1>5, <1>6, <1>9

LEMMA QueueShrinks ==
  ASSUME LocksInv, NEW c \in Cpu, ticketlock_unlock(c)
  PROVE  queue' = Tail(queue)
<1>1. PICK q : q = queue /\ InOrder(q)
  BY QueueInOrder
<1>2. PICK h \in Nat : h = Holders
  BY TicketFacts
<1>3. /\ LocksInv' /\ c \in TicketHolders /\ TicketHolders' = TicketHolders \ {c}
      /\ Holders' = h - 1 /\ Distance(c) = 0
      /\ \A d \in TicketHolders' : Distance(d)' = Distance(d) - 1
  BY <1>2, TicketGivenBack
<1>4. h # 0
  BY <1>2, <1>3, TicketFacts DEF LocksInv, TicketInv
<1>5. q \in Seq(Cpu) /\ Len(q) = h /\ q # <<>>
  BY <1>1, <1>2, <1>4, EmptySeq DEF InOrder
<1>6. /\ Tail(q) \in Seq(Cpu) /\ Len(Tail(q)) = h - 1
      /\ \A i \in 1 .. h - 1 : Tail(q)[i] = q[i + 1]
  BY <1>5, HeadTailProperties
<1>7. \A i \in 1 .. h : q[i] \in TicketHolders /\ Distance(q[i]) = i - 1
  BY <1>1, <1>2 DEF InOrder
<1>8. ASSUME NEW i \in 1 .. h - 1
      PROVE  Tail(q)[i] \in TicketHolders' /\ Distance(Tail(q)[i])' = i - 1
  <2>1. i + 1 \in 1 .. h /\ i \in Int /\ i + 1 # 1 BY <1>2
  <2>2. /\ Tail(q)[i] = q[i + 1] /\ q[i + 1] \in TicketHolders
        /\ Distance(q[i + 1]) = i
    BY <1>6, <1>7, <2>1
  <2>3. q[i + 1] # c
    BY <1>3, <2>1, <2>2
  <2> QED BY <1>3, <2>2, <2>3
<1>9. InOrder(Tail(q))'
  BY <1>3, <1>6, <1>8 DEF InOrder
<1> QED BY <1>1, <1>3, <1>9, SameOrderNext

-----------------------------------------------------------------------------
PStep == Promise!Next \/ (inside' = inside /\ queue' = queue)

\* Who may go in: the counts say that nobody it excludes is inside.
LEMMA Enters ==
  ASSUME NEW c \in Cpu, NEW m \in Inside, pc[c] \notin Inside,
         \A d \in Cpu : pc[d] \notin Promise!Excludes(m),
         m = "ticket" => queue # <<>> /\ Head(queue) = c,
         inside' = [inside EXCEPT ![c] = m], queue' = queue
  PROVE  PStep
<1>1. inside[c] = "none"
  BY InsideIs
<1>2. \A d \in Cpu : inside[d] \notin Promise!Excludes(m)
  BY InsideIs DEF Promise!Excludes, Inside
<1>3. Promise!Enter(c, m)
  BY <1>1, <1>2 DEF Promise!Enter
<1> QED BY <1>3 DEF PStep, Promise!Next, Promise!Mode, Inside

LEMMA Leaves ==
  ASSUME LocksInv, NEW c \in Cpu, pc[c] \in Inside, goto(c, "out"),
         queue' = IF pc[c] = "ticket" THEN Tail(queue) ELSE queue
  PROVE  PStep
<1>1. inside[c] = pc[c] /\ pc[c] # "none"
  BY InsideIs DEF Inside
<1>2. inside' = [inside EXCEPT ![c] = "none"]
  BY InsideStep DEF Inside
<1>3. Promise!Leave(c)
  BY <1>1, <1>2 DEF Promise!Leave
<1> QED BY <1>3 DEF PStep, Promise!Next

LEMMA PromiseSpin ==
  ASSUME LocksInv, LocksInv', NEW c \in Cpu,
         spinlock_xchg(c) \/ spinlock_seen_free(c) \/ spinlock_unlock(c)
  PROVE  PStep
<1>1. UNCHANGED <<next_ticket, now_serving, rwlock, ticket>>
  BY DEF spinlock_xchg, spinlock_seen_free, spinlock_unlock
<1>2. CASE spinlock_xchg(c) /\ spinlock = 0
  <2>1. goto(c, "spin") /\ pc[c] \in {"out", "spin_again"}
    BY <1>2 DEF spinlock_xchg
  <2>2. \A d \in Cpu : pc[d] # "spin"
    BY <1>2, Numbers DEF LocksInv, SpinInv
  <2>3. queue' = queue
    BY <1>1, <2>1, QueueStays DEF TicketPlaces
  <2>4. inside' = [inside EXCEPT ![c] = "spin"]
    BY <2>1, InsideStep DEF Inside
  <2> QED BY <2>1, <2>2, <2>3, <2>4, Enters DEF Inside, Promise!Excludes
<1>3. CASE spinlock_seen_free(c) \/ (spinlock_xchg(c) /\ spinlock # 0)
  <2>1. PICK l \in {"spin_wait", "spin_again"} :
          goto(c, l) /\ pc[c] \in {"out", "spin_wait", "spin_again"}
    BY <1>3 DEF spinlock_xchg, spinlock_seen_free
  <2>2. queue' = queue
    BY <1>1, <2>1, QueueStays DEF TicketPlaces
  <2>3. inside' = inside
    BY <2>1, InsideStays DEF Inside
  <2> QED BY <2>2, <2>3 DEF PStep
<1>4. CASE spinlock_unlock(c)
  <2>1. goto(c, "out") /\ pc[c] = "spin"
    BY <1>4 DEF spinlock_unlock
  <2>2. queue' = queue
    BY <1>1, <2>1, QueueStays DEF TicketPlaces
  <2> QED BY <2>1, <2>2, Leaves DEF Inside
<1> QED BY <1>2, <1>3, <1>4

LEMMA PromiseTicket ==
  ASSUME LocksInv, LocksInv', NEW c \in Cpu,
         \/ ticketlock_read(c) \/ ticketlock_add(c) \/ ticketlock_served(c)
         \/ ticketlock_unlock(c)
  PROVE  PStep
<1>0. pc \in [Cpu -> Location]
  BY DEF LocksInv, TypeOK
<1>1. CASE ticketlock_read(c) \/ (ticketlock_add(c) /\ next_ticket # ticket[c])
  <2>1. /\ goto(c, "ticket_add") /\ pc[c] \in {"out", "ticket_add"}
        /\ now_serving' = now_serving
        /\ \A d \in Cpu \ {c} : ticket'[d] = ticket[d]
    BY <1>0, <1>1 DEF goto, ticketlock_read, ticketlock_add, LocksInv, TypeOK
  <2>2. c \notin TicketHolders
    BY <2>1 DEF TicketHolders
  <2>3. \A d \in TicketHolders : ticket'[d] = ticket[d]
    BY <2>1, <2>2 DEF TicketHolders
  <2>4. queue' = queue
    BY <2>1, <2>3, QueueStays DEF TicketPlaces
  <2>5. inside' = inside
    BY <2>1, InsideStays DEF Inside
  <2> QED BY <2>4, <2>5 DEF PStep
<1>2. CASE ticketlock_add(c) /\ next_ticket = ticket[c]
  <2>1. goto(c, "ticket_wait") /\ pc[c] = "ticket_add"
    BY <1>2 DEF ticketlock_add
  <2>2. inside' = inside /\ inside[c] = "none"
    BY <2>1, InsideStays, InsideIs DEF Inside
  <2>3. Promise!TakeTicket(c)
    BY <1>2, <2>2, QueueGrows DEF Promise!TakeTicket
  <2> QED BY <2>3 DEF PStep, Promise!Next
<1>3. CASE ticketlock_served(c)
  <2>1. /\ goto(c, "ticket") /\ pc[c] = "ticket_wait" /\ now_serving = ticket[c]
        /\ UNCHANGED <<now_serving, ticket>>
    BY <1>3 DEF ticketlock_served
  <2>2. queue' = queue
    BY <2>1, QueueStays DEF TicketPlaces
  <2>3. inside' = [inside EXCEPT ![c] = "ticket"]
    BY <2>1, InsideStep DEF Inside
  <2>4. \A d \in Cpu : pc[d] # "ticket"
    <3> SUFFICES ASSUME NEW d \in Cpu, pc[d] = "ticket" PROVE FALSE
      OBVIOUS
    <3>1. ticket[d] = ticket[c] /\ d # c
      BY <2>1 DEF LocksInv, TicketInv
    <3> QED BY <2>1, <3>1 DEF LocksInv, TicketInv, TicketHolders
  <2>5. queue # <<>> /\ Head(queue) = c
    <3>1. PICK q : q = queue /\ InOrder(q)
      BY QueueInOrder
    <3>2. Holders >= 1 /\ Holders \in Nat
      BY <2>1, Numbers
    <3>3. q[1] \in TicketHolders /\ Distance(q[1]) = 0 /\ Len(q) # 0
          /\ q \in Seq(Cpu)
      BY <3>1, <3>2 DEF InOrder
    <3>4. Distance(c) = 0
      BY <2>1, TicketFacts, Moduli
    <3>5. c \in TicketHolders
      BY <2>1 DEF TicketHolders
    <3>6. ASSUME NEW d \in TicketHolders, Distance(d) = 0
          PROVE  d = c
      <4>1. d \in Cpu BY DEF TicketHolders
      <4>2. ticket[d] = now_serving
        BY <3>6, <4>1, TicketFacts, Moduli
      <4> QED BY <2>1, <3>5, <4>2 DEF LocksInv, TicketInv
    <3>7. q[1] = c BY <3>3, <3>6
    <3>8. q # <<>> /\ Head(q) = q[1]
      BY <3>3, EmptySeq, HeadTailProperties
    <3> QED BY <3>1, <3>7, <3>8
  <2> QED BY <2>1, <2>2, <2>3, <2>4, <2>5, Enters DEF Inside, Promise!Excludes
<1>4. CASE ticketlock_unlock(c)
  <2>1. goto(c, "out") /\ pc[c] = "ticket"
    BY <1>4 DEF ticketlock_unlock
  <2> QED BY <1>4, <2>1, QueueShrinks, Leaves DEF Inside
<1> QED BY <1>1, <1>2, <1>3, <1>4

LEMMA PromiseRw ==
  ASSUME LocksInv, LocksInv', NEW c \in Cpu,
         \/ rw_spinlock_lock_sh(c) \/ rw_spinlock_sign_clear(c)
         \/ rw_spinlock_unlock_sh(c) \/ rw_spinlock_lock_ex(c)
         \/ rw_spinlock_unlock_ex(c)
  PROVE  PStep
<1>0. pc \in [Cpu -> Location]
  BY DEF LocksInv, TypeOK
<1>1. UNCHANGED <<spinlock, next_ticket, now_serving, ticket>>
  BY DEF rw_spinlock_lock_sh, rw_spinlock_sign_clear, rw_spinlock_unlock_sh,
     rw_spinlock_lock_ex, rw_spinlock_unlock_ex
<1> DEFINE Places == {"out", "shared_wait", "shared", "exclusive_wait", "exclusive"}
<1>2. ASSUME NEW l \in Places, goto(c, l), pc[c] \in Places
      PROVE  queue' = queue
  BY <1>1, <1>2, QueueStays DEF TicketPlaces
\* What the word says of those inside.
<1>3. /\ Sign \in Nat /\ Sign > NCpus /\ NCpus \in Nat
      /\ rwlock \in 0 .. 2 * Sign - 1 /\ Readers \in Nat /\ Readers <= NCpus
      /\ (Writers = 0 /\ rwlock = Readers) \/ (Writers = 1 /\ rwlock = Readers + Sign)
  BY Moduli, Numbers DEF LocksInv, TypeOK, RwInv
<1>4. ~negative(rwlock) => \A d \in Cpu : pc[d] # "exclusive"
  <2>1. ~negative(rwlock) => Writers = 0
    BY <1>3 DEF negative
  <2> QED BY <2>1, Numbers
<1>5. rwlock = 0 => \A d \in Cpu : pc[d] \notin {"shared", "exclusive"}
  <2>1. rwlock = 0 => Writers = 0 /\ Readers = 0
    BY <1>3
  <2> QED BY <2>1, Numbers
<1>6. CASE rw_spinlock_lock_sh(c)
  <2>1. /\ pc[c] = "out" /\ rwlock' = add_reader(rwlock)
        /\ goto(c, IF negative(rwlock') THEN "shared_wait" ELSE "shared")
    BY <1>6 DEF rw_spinlock_lock_sh
  <2>2. CASE negative(rwlock')
    <3>1. goto(c, "shared_wait") BY <2>1, <2>2
    <3>2. queue' = queue BY <1>2, <2>1, <3>1
    <3>3. inside' = inside BY <2>1, <3>1, InsideStays DEF Inside
    <3> QED BY <3>2, <3>3 DEF PStep
  <2>3. CASE ~negative(rwlock')
    <3>1. goto(c, "shared") BY <2>1, <2>3
    <3>2. queue' = queue BY <1>2, <2>1, <3>1
    <3>3. inside' = [inside EXCEPT ![c] = "shared"]
      BY <3>1, InsideStep DEF Inside
    <3>4. ~negative(rwlock)
      <4>1. Readers < NCpus BY <2>1, Numbers
      <4>2. rwlock + 1 < 2 * Sign BY <1>3, <4>1
      <4>3. rwlock \in Word BY DEF LocksInv, TypeOK
      <4>4. add_reader(rwlock) = rwlock + 1 BY <4>2, <4>3, Half
      <4> QED BY <1>3, <2>1, <2>3, <4>4 DEF negative
    <3> QED BY <1>4, <2>1, <3>2, <3>3, <3>4, Enters DEF Inside, Promise!Excludes
  <2> QED BY <2>2, <2>3
<1>7. CASE rw_spinlock_sign_clear(c)
  <2>1. pc[c] = "shared_wait" /\ ~negative(rwlock) /\ goto(c, "shared")
    BY <1>7 DEF rw_spinlock_sign_clear
  <2>2. queue' = queue BY <1>2, <2>1
  <2>3. inside' = [inside EXCEPT ![c] = "shared"]
    BY <2>1, InsideStep DEF Inside
  <2> QED BY <1>4, <2>1, <2>2, <2>3, Enters DEF Inside, Promise!Excludes
<1>8. CASE rw_spinlock_unlock_sh(c) \/ rw_spinlock_unlock_ex(c)
  <2>1. goto(c, "out") /\ pc[c] \in {"shared", "exclusive"}
    BY <1>8 DEF rw_spinlock_unlock_sh, rw_spinlock_unlock_ex
  <2>2. queue' = queue BY <1>2, <2>1
  <2> QED BY <2>1, <2>2, Leaves DEF Inside
<1>9. CASE rw_spinlock_lock_ex(c) /\ rwlock = 0
  <2>1. goto(c, "exclusive") /\ pc[c] \in {"out", "exclusive_wait"}
    BY <1>9 DEF rw_spinlock_lock_ex
  <2>2. queue' = queue BY <1>2, <2>1
  <2>3. inside' = [inside EXCEPT ![c] = "exclusive"]
    BY <2>1, InsideStep DEF Inside
  <2> QED BY <1>5, <1>9, <2>1, <2>2, <2>3, Enters DEF Inside, Promise!Excludes
<1>10. CASE rw_spinlock_lock_ex(c) /\ rwlock # 0
  <2>1. PICK l \in {"out", "exclusive_wait"} :
          goto(c, l) /\ pc[c] \in {"out", "exclusive_wait"}
    BY <1>0, <1>10 DEF rw_spinlock_lock_ex, goto
  <2>2. queue' = queue BY <1>2, <2>1
  <2>3. inside' = inside BY <2>1, InsideStays DEF Inside
  <2> QED BY <2>2, <2>3 DEF PStep
<1> QED BY <1>6, <1>7, <1>8, <1>9, <1>10

LEMMA PromiseInit ==
  Init => Promise!Init
<1> SUFFICES ASSUME Init PROVE Promise!Init
  OBVIOUS
<1>1. inside = [c \in Cpu |-> "none"]
  BY DEF Init, inside
<1>2. queue = <<>>
  <2>1. LocksInv BY LocksInit
  <2>2. PICK q : q = queue /\ InOrder(q)
    BY <2>1, QueueInOrder
  <2>3. Holders = 0
    <3>1. \A c \in Cpu : pc[c] \notin {"ticket_wait", "ticket"} BY DEF Init
    <3> QED BY <3>1, Counts DEF Holders
  <2> QED BY <2>2, <2>3, EmptySeq DEF InOrder
<1> QED BY <1>1, <1>2 DEF Promise!Init

LEMMA PromiseNext ==
  LocksInv /\ LocksInv' /\ [Next]_vars => [Promise!Next]_(Promise!vars)
<1> SUFFICES ASSUME LocksInv, LocksInv', [Next]_vars PROVE PStep
  BY DEF PStep, Promise!vars
<1>1. CASE UNCHANGED vars
  BY <1>1 DEF vars, PStep, inside, queue, TicketHolders, Distance, Number
<1>2. ASSUME NEW c \in Cpu,
             spinlock_xchg(c) \/ spinlock_seen_free(c) \/ spinlock_unlock(c)
      PROVE  PStep
  BY <1>2, PromiseSpin
<1>3. ASSUME NEW c \in Cpu,
             \/ ticketlock_read(c) \/ ticketlock_add(c) \/ ticketlock_served(c)
             \/ ticketlock_unlock(c)
      PROVE  PStep
  BY <1>3, PromiseTicket
<1>4. ASSUME NEW c \in Cpu,
             \/ rw_spinlock_lock_sh(c) \/ rw_spinlock_sign_clear(c)
             \/ rw_spinlock_unlock_sh(c) \/ rw_spinlock_lock_ex(c)
             \/ rw_spinlock_unlock_ex(c)
      PROVE  PStep
  BY <1>4, PromiseRw
<1> QED BY <1>1, <1>2, <1>3, <1>4 DEF Next, GoesOn

\* The locks keep their promise to any number of processors: spin lock and ticket
\* lock exclude, the reader-writer lock lets in readers or one writer, and the
\* ticket lock is granted in the order in which the tickets were taken.
THEOREM PromiseKept == Spec => PromiseSpec
<1>1. Promise!Init /\ [][Promise!Next]_(Promise!vars) => PromiseSpec
  BY DEF PromiseSpec, Promise!Spec
<1> QED BY <1>1, PromiseInit, PromiseNext, LocksInvariant, PTL DEF Spec

=============================================================================
