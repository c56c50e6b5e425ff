----------------------------- MODULE MCTaskStore -----------------------------
(* Small instances of TaskStore. *)
EXTENDS TaskStore, TLC

Symmetry == Permutations(Caller)
==============================================================================
