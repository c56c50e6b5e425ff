----------------------------- MODULE MCWorkSession -----------------------------
(* A small instance of WorkSession: callers are interchangeable. *)
EXTENDS WorkSession, TLC

Symmetry == Permutations(Caller)

(* What follows a restore is explored with two calls, the rest with three. *)
Bound == calls = 3 => \A t \in Task : tasks[t].life # "restored"
==============================================================================
