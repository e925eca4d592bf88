----------------------------- MODULE MCEptTables -----------------------------
(* Values for EptTables: two ranges that must be mapped, in two large pages. *)
EXTENDS EptTables

MCForceMap == <<[base |-> 4, len |-> 2], [base |-> 7, len |-> 1]>>

\* The hypotheses of RangesFit and of the theorem about ForcedKept hold here.
ASSUME MCHypotheses == Room /\ LowUneven
=============================================================================
