---------------------------- MODULE ProposalPromise ----------------------------
(***************************************************************************)
(* What internal/proposal promises of a pending proposal, whoever resolves *)
(* it and however often they try: it is resolved once, and the entity it   *)
(* proposes is created together with its acceptance and at no other time.  *)
(***************************************************************************)
EXTENDS Naturals

CONSTANT Proposal

VARIABLES
  status,   \* of each proposal
  made      \* entities created from each proposal

Init ==
  /\ status = [p \in Proposal |-> "unborn"]
  /\ made = [p \in Proposal |-> 0]

Propose(p) ==
  /\ status[p] = "unborn"
  /\ status' = [status EXCEPT ![p] = "pending"]
  /\ UNCHANGED made

Accept(p) ==
  /\ status[p] = "pending"
  /\ status' = [status EXCEPT ![p] = "accepted"]
  /\ made' = [made EXCEPT ![p] = @ + 1]

(* A batch of proposals is rejected in one step. *)
Reject(ps) ==
  /\ \A p \in ps : status[p] = "pending"
  /\ status' = [p \in Proposal |-> IF p \in ps THEN "rejected" ELSE status[p]]
  /\ UNCHANGED made

(* Retention: a row is dropped, what was created from it stays. *)
Forget(ps) ==
  /\ \A p \in ps : status[p] # "unborn"
  /\ status' = [p \in Proposal |-> IF p \in ps THEN "deleted" ELSE status[p]]
  /\ UNCHANGED made

Next ==
  \/ \E p \in Proposal : Propose(p) \/ Accept(p)
  \/ \E ps \in SUBSET Proposal : Reject(ps) \/ Forget(ps)

Spec == Init /\ [][Next]_<<status, made>>

(* At most one entity per proposal, ever, and one for an accepted proposal:  *)
(* no entity without an acceptance that was not pruned since.                *)
MadeOnce ==
  \A p \in Proposal :
    /\ made[p] \in {0, 1}
    /\ status[p] = "accepted" => made[p] = 1
    /\ status[p] \in {"unborn", "pending", "rejected"} => made[p] = 0
==============================================================================
