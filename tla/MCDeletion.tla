------------------------------ MODULE MCDeletion ------------------------------
(* A small instance of Deletion: callers are interchangeable. *)
EXTENDS Deletion, TLC

Symmetry == Permutations(Caller)

(* Three calls meet everything.  A fourth is explored only while no token    *)
(* expires, no retention window ends and no deadlock is retried: it is there *)
(* for two previews and the two deletes they confirm.                        *)
Bound == calls = 4 => expired = {} /\ horizon = 0 /\ \A c \in Caller : call[c].tries = 0
==============================================================================
