-------------------------------- MODULE Locks --------------------------------
(***************************************************************************)
(* The locks of include/core/spinlock.h, instruction by instruction: the   *)
(* spin lock (xchg), the ticket lock (cmpxchg on two counters) and the     *)
(* reader-writer lock (one word, see RwSpinlock).  Every processor takes   *)
(* one of them, in any mode, and releases it, again and again.  A test     *)
(* that fails in a wait loop is a stuttering step.                         *)
(***************************************************************************)
EXTENDS RwSpinlock, Sequences, FiniteSets

CONSTANTS
  NCpus,
  TicketBits      \* bits of next_ticket and now_serving (32)

\* More tickets, and more readers, than processors.
ASSUME LockAssumption ==
  /\ NCpus \in Nat \ {0}
  /\ TicketBits \in Nat /\ 2 ^ TicketBits >= NCpus
  /\ Sign > NCpus

Cpu    == 0 .. NCpus - 1
Ticket == 0 .. 2 ^ TicketBits - 1

VARIABLES
  spinlock,                   \* spinlock_t
  next_ticket, now_serving,   \* ticketlock_t
  rwlock,                     \* rw_spinlock_t
  ticket,                     \* the register of ticketlock_lock
  pc

vars == <<spinlock, next_ticket, now_serving, rwlock, ticket, pc>>

Location == {"out",
             "spin_wait", "spin_again", "spin",
             "ticket_add", "ticket_wait", "ticket",
             "shared_wait", "shared", "exclusive_wait", "exclusive"}

TypeOK ==
  /\ spinlock \in {0, 1}
  /\ next_ticket \in Ticket /\ now_serving \in Ticket
  /\ rwlock \in Word
  /\ ticket \in [Cpu -> Ticket]
  /\ pc \in [Cpu -> Location]

Init ==
  /\ spinlock = 0
  /\ next_ticket = 0 /\ now_serving = 0
  /\ rwlock = 0
  /\ ticket = [c \in Cpu |-> 0]
  /\ pc = [c \in Cpu |-> "out"]

goto(c, l) == pc' = [pc EXCEPT ![c] = l]

-----------------------------------------------------------------------------
\* spinlock_lock: xchg; on failure wait until the lock is seen free ...
spinlock_xchg(c) ==
  /\ pc[c] \in {"out", "spin_again"}
  /\ spinlock' = 1
  /\ goto(c, IF spinlock = 0 THEN "spin" ELSE "spin_wait")
  /\ UNCHANGED <<next_ticket, now_serving, rwlock, ticket>>

\* ... and try again.
spinlock_seen_free(c) ==
  /\ pc[c] = "spin_wait" /\ spinlock = 0
  /\ goto(c, "spin_again")
  /\ UNCHANGED <<spinlock, next_ticket, now_serving, rwlock, ticket>>

spinlock_unlock(c) ==
  /\ pc[c] = "spin"
  /\ spinlock' = 0
  /\ goto(c, "out")
  /\ UNCHANGED <<next_ticket, now_serving, rwlock, ticket>>

-----------------------------------------------------------------------------
after(t) == (t + 1) % 2 ^ TicketBits

\* ticketlock_lock: the next ticket is read ...
ticketlock_read(c) ==
  /\ pc[c] = "out"
  /\ ticket' = [ticket EXCEPT ![c] = next_ticket]
  /\ goto(c, "ticket_add")
  /\ UNCHANGED <<spinlock, next_ticket, now_serving, rwlock>>

\* ... and taken, unless another processor took it in between: then that
\* instruction has read the new one.
ticketlock_add(c) ==
  /\ pc[c] = "ticket_add"
  /\ IF next_ticket = ticket[c]
     THEN /\ next_ticket' = after(ticket[c])
          /\ goto(c, "ticket_wait")
          /\ UNCHANGED ticket
     ELSE /\ ticket' = [ticket EXCEPT ![c] = next_ticket]
          /\ UNCHANGED <<next_ticket, pc>>
  /\ UNCHANGED <<spinlock, now_serving, rwlock>>

ticketlock_served(c) ==
  /\ pc[c] = "ticket_wait" /\ now_serving = ticket[c]
  /\ goto(c, "ticket")
  /\ UNCHANGED <<spinlock, next_ticket, now_serving, rwlock, ticket>>

\* A mistake the checks find: the last ticket is served next.
serve_last == now_serving' = next_ticket

serve_next == now_serving' = after(now_serving)

ticketlock_unlock(c) ==
  /\ pc[c] = "ticket"
  /\ serve_next
  /\ goto(c, "out")
  /\ UNCHANGED <<spinlock, next_ticket, rwlock, ticket>>

-----------------------------------------------------------------------------
\* A mistake the checks find: a reader that waits is not counted before the
\* writer has left.
lock_sh_uncounted(c) ==
  /\ pc[c] \in {"out", "shared_wait"}
  /\ rwlock' = IF negative(rwlock) THEN rwlock ELSE add_reader(rwlock)
  /\ goto(c, IF negative(rwlock) THEN "shared_wait" ELSE "shared")
  /\ UNCHANGED <<spinlock, next_ticket, now_serving, ticket>>

\* rw_spinlock_lock_sh: the reader is counted first, and waits only if there is
\* a writer.
rw_spinlock_lock_sh(c) ==
  /\ pc[c] = "out"
  /\ rwlock' = add_reader(rwlock)
  /\ goto(c, IF negative(rwlock') THEN "shared_wait" ELSE "shared")
  /\ UNCHANGED <<spinlock, next_ticket, now_serving, ticket>>

rw_spinlock_sign_clear(c) ==
  /\ pc[c] = "shared_wait" /\ ~negative(rwlock)
  /\ goto(c, "shared")
  /\ UNCHANGED <<spinlock, next_ticket, now_serving, rwlock, ticket>>

rw_spinlock_unlock_sh(c) ==
  /\ pc[c] = "shared"
  /\ rwlock' = sub_reader(rwlock)
  /\ goto(c, "out")
  /\ UNCHANGED <<spinlock, next_ticket, now_serving, ticket>>

\* rw_spinlock_lock_ex, and rw_spinlock_trylock_ex, which does not wait.
rw_spinlock_lock_ex(c) ==
  /\ pc[c] \in {"out", "exclusive_wait"}
  /\ IF rwlock = 0
     THEN rwlock' = Sign /\ goto(c, "exclusive")
     ELSE UNCHANGED rwlock /\ pc' \in {pc, [pc EXCEPT ![c] = "exclusive_wait"]}
  /\ UNCHANGED <<spinlock, next_ticket, now_serving, ticket>>

rw_spinlock_unlock_ex(c) ==
  /\ pc[c] = "exclusive"
  /\ rwlock' = clear_writer(rwlock)
  /\ goto(c, "out")
  /\ UNCHANGED <<spinlock, next_ticket, now_serving, ticket>>

-----------------------------------------------------------------------------
\* The calls that are under way, and the releases that follow.
GoesOn(c) ==
  \/ spinlock_seen_free(c)
  \/ pc[c] = "spin_again" /\ spinlock_xchg(c)
  \/ ticketlock_add(c)
  \/ ticketlock_served(c)
  \/ rw_spinlock_sign_clear(c)
  \/ pc[c] = "exclusive_wait" /\ rw_spinlock_lock_ex(c)
  \/ spinlock_unlock(c)
  \/ ticketlock_unlock(c)
  \/ rw_spinlock_unlock_sh(c)
  \/ rw_spinlock_unlock_ex(c)

Next ==
  \E c \in Cpu :
    \/ GoesOn(c)
    \/ pc[c] = "out" /\ spinlock_xchg(c)
    \/ ticketlock_read(c)
    \/ rw_spinlock_lock_sh(c)
    \/ pc[c] = "out" /\ rw_spinlock_lock_ex(c)

Spec == Init /\ [][Next]_vars

\* Every processor runs on, in its wait loops and with the locks it holds.
FairSpec == Spec /\ \A c \in Cpu : WF_vars(GoesOn(c))

-----------------------------------------------------------------------------
\* How far the ticket of processor c is from being served.
Distance(c) == (ticket[c] - now_serving) % 2 ^ TicketBits

TicketHolders == {c \in Cpu : pc[c] \in {"ticket_wait", "ticket"}}

Number(ls) == Cardinality({c \in Cpu : pc[c] \in ls})

\* What the users of the locks see: who is inside, and who has asked for the
\* ticket lock, in the order in which the tickets are served (NCpus is nobody).
inside == [c \in Cpu |-> IF pc[c] \in {"spin", "ticket", "shared", "exclusive"}
                        THEN pc[c] ELSE "none"]
queue  == [i \in 1 .. Number({"ticket_wait", "ticket"}) |->
             LET at == {c \in TicketHolders : Distance(c) = i - 1}
             IN  IF at = {} THEN NCpus ELSE CHOOSE c \in at : TRUE]

\* The locks implement what their users rely on: mutual exclusion of spin and
\* ticket lock, readers or one writer, and the ticket lock in order, whatever
\* the counters have wrapped to.
Promise ==
  INSTANCE LockPromise WITH Procs <- Cpu, inside <- inside, queue <- queue
PromiseSpec == Promise!Spec

\* The words tell who is inside, whatever has wrapped: the tickets given and not
\* served are those of the holders, all different, and rw_spinlock_t is the
\* number of readers, those that wait included, and the sign of the writer.
WordsCount ==
  /\ TypeOK
  /\ spinlock = Number({"spin"})
  /\ (next_ticket - now_serving) % 2 ^ TicketBits =
       Number({"ticket_wait", "ticket"}) % 2 ^ TicketBits
  /\ \A c, d \in TicketHolders : c # d => ticket[c] # ticket[d]
  /\ rwlock = Number({"shared_wait", "shared"}) + Sign * Number({"exclusive"})

\* ticketlock_lock: who has a ticket gets the lock.  rw_spinlock_lock_sh: a
\* reader gets in after one writer at most, for it is counted while it waits.
\* A writer has no such promise.
EveryoneServed ==
  \A c \in Cpu : /\ pc[c] = "ticket_wait" ~> pc[c] = "ticket"
                 /\ pc[c] = "shared_wait" ~> pc[c] = "shared"
=============================================================================
