------------------------------- MODULE MCOutcome -------------------------------
(* Small instances of Outcome: callers and segments are interchangeable. *)
EXTENDS Outcome, TLC

Symmetry == Permutations(Caller) \cup Permutations(Segment)
==============================================================================
