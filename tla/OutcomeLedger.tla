----------------------------- MODULE OutcomeLedger -----------------------------
(***************************************************************************)
(* What internal/outcome promises of the outcomes of one entity, whichever *)
(* calls record them: at most one is open, an open one only grows until it *)
(* is closed, a closed one never changes, a later one supersedes a closed  *)
(* one and takes over its rules, and rows leave the ledger oldest first.   *)
(***************************************************************************)
EXTENDS Naturals, Sequences

CONSTANTS MaxRows, NoRow

VARIABLE rows

Stamp == 1..MaxRows

Live(s) == rows[s] # NoRow
Open(o) == o.result = "unknown"

Init == rows = [s \in Stamp |-> NoRow]

Others(s) == \A q \in Stamp \ {s} : rows'[q] = rows[q]

(* A new row, the first of its execution or the correction of a closed one. *)
Add(s) ==
  LET new == rows'[s]
      old == rows[new.supersedes]
  IN
  /\ ~Live(s)
  /\ Open(new) => \A q \in Stamp : ~Open(rows[q])
  /\ new.supersedes \in 0..s - 1
  /\ \A q \in Stamp : rows[q].supersedes # s
  /\ (new.supersedes # 0 /\ Live(new.supersedes)) => ~Open(old) /\ old.rules \subseteq new.rules
  /\ Others(s)

Grow(s) ==
  LET new == rows'[s]
      old == rows[s]
  IN
  /\ Live(s) /\ Open(old)
  /\ Len(old.notes) <= Len(new.notes) /\ \A i \in 1..Len(old.notes) : new.notes[i] = old.notes[i]
  /\ old.rules \subseteq new.rules
  /\ new.supersedes = old.supersedes
  /\ Others(s)

Forget(cutoff) == rows' = [s \in Stamp |-> IF s <= cutoff THEN NoRow ELSE rows[s]]

Next ==
  \/ \E s \in Stamp : Add(s) \/ Grow(s)
  \/ \E cutoff \in Stamp : Forget(cutoff)

Spec == Init /\ [][Next]_rows

(* At most one outcome is open. *)
OneOpen == \A q, s \in Stamp : Open(rows[q]) /\ Open(rows[s]) => q = s

(* A row is superseded by later ones, which it leaves its rules, and only    *)
(* once it is closed.                                                        *)
LaterSupersede ==
  \A s \in Stamp : Live(s) =>
    /\ rows[s].supersedes \in 0..s - 1
    /\ rows[s].supersedes # 0 /\ Live(rows[s].supersedes) =>
         ~Open(rows[rows[s].supersedes]) /\ rows[rows[s].supersedes].rules \subseteq rows[s].rules
==============================================================================
