--------------------------- MODULE MCProposalConfirm ---------------------------
(* Small instances of ProposalConfirm: which types are accepted through which *)
(* entry point.                                                               *)
EXTENDS ProposalConfirm, TLC

Symmetry == Permutations(Caller) \cup Permutations(Proposal)

(* Pairs of InTx: read first or begun first, prepared or not, pruned each way. *)
PgInTx == {<<"http", "knowledge">>, <<"mcp", "task">>, <<"mcp", "decision">>}

Every == Entries \X {"goal", "task", "knowledge", "playbook"}

Knowledge == {<<"mcp", "knowledge">>}
==============================================================================
