---------------------------- MODULE DemandPaging ----------------------------
(***************************************************************************)
(* What post-copy migration promises the guest at the destination: memory  *)
(* arrives unit by unit, in any order; a processor that touches a unit     *)
(* goes on only when the unit has arrived; when the migration is over,     *)
(* everything has arrived, and it does end once the guest has touched      *)
(* memory that is missing.                                                 *)
(***************************************************************************)
CONSTANT Units

VARIABLES
  present,   \* units that have arrived, whole
  usable,    \* units the guest reads and writes
  fault,     \* the units the processor waits for: none or one
  over       \* is the migration over?

vars == <<present, usable, fault, over>>

Init ==
  /\ present \in SUBSET Units
  /\ usable = {}
  /\ fault = {}
  /\ over = FALSE

\* A unit that has arrived is the guest's to write: it does not arrive again.
Arrive(u) ==
  /\ u \notin present
  /\ present' = present \cup {u}
  /\ UNCHANGED <<usable, fault, over>>

Touch(u) ==
  /\ fault = {}
  /\ fault' = {u}
  /\ UNCHANGED <<present, usable, over>>

Resume ==
  /\ fault # {}
  /\ fault \subseteq present
  /\ usable' = usable \cup fault
  /\ fault' = {}
  /\ UNCHANGED <<present, over>>

Finish ==
  /\ present = Units
  /\ over' = TRUE
  /\ UNCHANGED <<present, usable, fault>>

Next ==
  \/ \E u \in Units : Arrive(u) \/ Touch(u)
  \/ Resume
  \/ Finish

Spec == Init /\ [][Next]_vars
=============================================================================
