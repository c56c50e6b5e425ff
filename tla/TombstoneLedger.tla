---------------------------- MODULE TombstoneLedger ----------------------------
(***************************************************************************)
(* What internal/gtd promises of deleted tasks, whichever calls delete,    *)
(* restore and prune at once: a delete takes its tasks away in one step    *)
(* and keeps them together in one group, with a deletion time no other     *)
(* delete has; a restore puts a whole group back where it was and uses it  *)
(* up; what retention drops is older than what it keeps.                   *)
(***************************************************************************)
EXTENDS Naturals

CONSTANTS Task, Place, Unborn, Gone, None

VARIABLES
  home,    \* per task, its place, or why it has none
  tombs    \* the groups kept

Live(t) == home[t] \in Place

Init ==
  /\ home \in [Task -> Place \cup {Unborn}]
  /\ tombs = {}

Settle(t, h) ==
  /\ home[t] = Unborn \/ Live(t)
  /\ home' = [home EXCEPT ![t] = h]
  /\ UNCHANGED tombs

OldestFirst == \A h \in tombs \ tombs' : \A g \in tombs' : h.at < g.at

(* The place of the group, if it has one, is where all of its tasks were. *)
Delete(g) ==
  /\ g.tasks \subseteq Task
  /\ \A t \in g.tasks : Live(t) /\ g.project \in {None, home[t]}
  /\ \A h \in tombs : h.at # g.at
  /\ home' = [t \in Task |-> IF t \in g.tasks THEN Gone ELSE home[t]]
  /\ tombs' \ tombs = {g} /\ OldestFirst

Restore(g) ==
  /\ g.project \in Place
  /\ \A t \in g.tasks : home[t] = Gone
  /\ home' = [t \in Task |-> IF t \in g.tasks THEN g.project ELSE home[t]]
  /\ tombs' = tombs \ {g}

Forget ==
  /\ tombs' \subseteq tombs /\ OldestFirst
  /\ UNCHANGED home

Next ==
  \/ \E t \in Task, h \in Place : Settle(t, h)
  \/ \E g \in tombs' : Delete(g)
  \/ \E g \in tombs : Restore(g)
  \/ Forget

Spec == Init /\ [][Next]_<<home, tombs>>

(* A task that exists, or is yet to, is in no group, and a deleted one is in *)
(* one group at most.                                                        *)
Consistent ==
  /\ \A g \in tombs : \A t \in g.tasks : home[t] = Gone
  /\ \A g, h \in tombs : g.tasks \cap h.tasks # {} => g = h
================================================================================
