----------------------------- MODULE LockPromise -----------------------------
(***************************************************************************)
(* What the three locks of include/core/spinlock.h promise their users,    *)
(* whatever is in their words: who may be inside together, and that the    *)
(* ticket lock is granted in the order in which it was asked for.          *)
(***************************************************************************)
EXTENDS Sequences

CONSTANT Procs

VARIABLES
  inside,      \* the lock each processor holds, and how, or "none"
  queue        \* the processors with a ticket, in the order they took it

vars == <<inside, queue>>

Mode == {"spin", "ticket", "shared", "exclusive"}

Excludes(m) ==
  CASE m = "shared"    -> {"exclusive"}
    [] m = "exclusive" -> {"shared", "exclusive"}
    [] OTHER           -> {m}

Init == inside = [p \in Procs |-> "none"] /\ queue = <<>>

TakeTicket(p) ==
  /\ inside[p] = "none"
  /\ \A i \in DOMAIN queue : queue[i] # p
  /\ queue' = Append(queue, p)
  /\ UNCHANGED inside

Enter(p, m) ==
  /\ inside[p] = "none"
  /\ \A q \in Procs : inside[q] \notin Excludes(m)
  /\ m = "ticket" => queue # <<>> /\ Head(queue) = p
  /\ inside' = [inside EXCEPT ![p] = m]
  /\ UNCHANGED queue

Leave(p) ==
  /\ inside[p] # "none"
  /\ inside' = [inside EXCEPT ![p] = "none"]
  /\ queue' = IF inside[p] = "ticket" THEN Tail(queue) ELSE queue

Next == \E p \in Procs : TakeTicket(p) \/ Leave(p) \/ \E m \in Mode : Enter(p, m)

Spec == Init /\ [][Next]_vars
=============================================================================
