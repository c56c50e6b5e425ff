---------------------------- MODULE ProposalConfirm ----------------------------
(***************************************************************************)
(* Resolving a pending proposal: confirm_proposal and confirm_proposals of *)
(* the MCP server, POST /api/proposals/:id/confirm and the nightly prune,  *)
(* at the granularity of the SQL statements and of the pooled connections  *)
(* they run on.  A transaction keeps its connection from Begin to Commit;  *)
(* a statement outside it takes one from the pool for its duration.        *)
(*                                                                         *)
(* The MCP tools and the HTTP handler accept through different code, and   *)
(* each backend writes some types of entity inside the transaction that    *)
(* resolves the proposal, some on another connection, some after it.       *)
(***************************************************************************)
EXTENDS Naturals, FiniteSets, Sequences

CONSTANTS
  Caller,      \* concurrent tool calls / requests
  Proposal,    \* ids of pending_proposals
  Backend,     \* "postgres" or "sqlite"
  PoolSize,    \* connections (SQLite: SetMaxOpenConns(1))
  Accepts,     \* the <<entry, type>> pairs the callers accept in this model
  MaxCalls     \* bound on the number of calls started

VARIABLES
  proposals,   \* the committed rows
  created,     \* per proposal, the committed entities materialised from it
  lock,        \* per row, the caller whose open transaction has resolved it
  call,        \* per caller, the call it is executing or has just finished
  calls        \* calls started so far

vars == <<proposals, created, lock, call, calls>>

Nobody == "nobody"

Entries == {"mcp", "http"}

AllTypes == {"goal", "project", "concept", "decision", "task", "knowledge", "playbook"}

ASSUME NobodyAssumption == Nobody \notin Caller
ASSUME BackendAssumption == Backend \in {"postgres", "sqlite"}
ASSUME PoolAssumption == PoolSize \in Nat \ {0}
ASSUME AcceptsAssumption == Accepts \subseteq Entries \X AllTypes
ASSUME MaxCallsAssumption == MaxCalls \in Nat

Statuses == {"unborn", "pending", "accepted", "rejected", "deleted"}

Rows == [type : AllTypes, status : Statuses]

PCs == {"idle", "done", "get", "read", "prepare", "begin", "materialize",
        "resolve", "commit", "after_commit", "resolve_only"}

Calls == [op     : {"none", "accept", "reject", "batch"},
          entry  : Entries,
          pc     : PCs,
          ids    : Seq(Proposal),
          k      : Nat,                    \* the id being resolved
          tx     : BOOLEAN,                \* a transaction, and its connection, is open
          staged : 0..1,                   \* entities written in it, not yet committed
          result : {"none", "ok", "gone", "error"}]

Idle == [op |-> "none", entry |-> "mcp", pc |-> "idle", ids |-> <<>>, k |-> 1,
         tx |-> FALSE, staged |-> 0, result |-> "none"]

Init ==
  /\ proposals = [p \in Proposal |-> [type |-> "goal", status |-> "unborn"]]
  /\ created = [p \in Proposal |-> 0]
  /\ lock = [p \in Proposal |-> Nobody]
  /\ call = [c \in Caller |-> Idle]
  /\ calls = 0

------------------------------------------------------------------------------
(* Shared steps *)

Id(c) == call[c].ids[call[c].k]
Type(c) == proposals[Id(c)].type
Status(c) == proposals[Id(c)].status

(* A connection is free: only open transactions keep one between two steps. *)
Open == {c \in Caller : call[c].tx}
Free == Cardinality(Open) < PoolSize

(* The store hands out the ids: callers name proposals that were created. *)
Start(c, record) ==
  /\ call[c].pc \in {"idle", "done"}
  /\ \A i \in DOMAIN record.ids : proposals[record.ids[i]].status # "unborn"
  /\ calls < MaxCalls
  /\ calls' = calls + 1
  /\ call' = [call EXCEPT ![c] = record]
  /\ UNCHANGED <<proposals, created, lock>>

Goto(c, pc) == call' = [call EXCEPT ![c].pc = pc]

Return(c, r) ==
  call' = [call EXCEPT ![c].pc = "done", ![c].tx = FALSE, ![c].staged = 0, ![c].result = r]

Released(c) == [p \in Proposal |-> IF lock[p] = c THEN Nobody ELSE lock[p]]

(* The deferred Rollback; a call with no transaction just returns. *)
Rollback(c, r) ==
  /\ lock' = Released(c)
  /\ Return(c, r)
  /\ UNCHANGED <<proposals, created, calls>>

NoWrite == UNCHANGED <<proposals, created, lock, calls>>

(* Where each entry point writes the entity of a type. *)
WrittenOnPool(entry, type) ==
  entry = "mcp" /\ (type = "playbook" \/ (type = "knowledge" /\ Backend = "postgres"))

(* Mutant: the branch of SQLite taken on every backend. *)
MutWrittenAfterCommit(entry, type) == entry = "mcp" /\ type \in {"knowledge", "task"}

WrittenAfterCommit(entry, type) ==
  entry = "mcp" /\ type \in {"knowledge", "task"} /\ Backend = "sqlite"

NeverWritten(entry, type) == entry = "http" /\ type = "playbook"

(* The pairs whose entity is written by the transaction that resolves it. *)
InTx == {a \in Entries \X AllTypes :
           /\ ~WrittenOnPool(a[1], a[2])
           /\ ~WrittenAfterCommit(a[1], a[2])
           /\ ~NeverWritten(a[1], a[2])}

Accepted(c) == <<call[c].entry, Type(c)>>

------------------------------------------------------------------------------
(* The calls.  acceptProposalPg begins before it reads, acceptProposalSQLite *)
(* and the HTTP handler read first.  A batch accept, and a batch reject on   *)
(* SQLite, are calls with one id after the other.                            *)

CallAccept(c, p, entry) ==
  /\ <<entry, proposals[p].type>> \in Accepts
  /\ Start(c, [Idle EXCEPT !.op = "accept", !.entry = entry, !.ids = <<p>>,
                 !.pc = IF entry = "mcp" /\ Backend = "postgres" THEN "begin" ELSE "get"])

CallReject(c, p) ==
  Start(c, [Idle EXCEPT !.op = "reject", !.ids = <<p>>, !.pc = "resolve_only"])

(* BatchConfirm: the ids as the caller listed them, duplicates included. *)
CallBatchReject(c, ids) ==
  /\ Backend = "postgres"
  /\ Start(c, [Idle EXCEPT !.op = "batch", !.ids = ids, !.pc = "begin"])

AfterGet(c) ==
  IF call[c].entry = "mcp" THEN IF Backend = "postgres" THEN "materialize" ELSE "begin"
  ELSE IF call[c].pc = "get" THEN IF NeverWritten("http", Type(c)) THEN "resolve_only" ELSE "read"
  ELSE IF Type(c) = "knowledge" THEN "prepare" ELSE "begin"

(* Store.Get and the status check; the seam's ReadPending repeats both. *)
Get(c) ==
  /\ call[c].pc \in {"get", "read"}
  /\ call[c].tx \/ Free
  /\ IF Status(c) = "pending" THEN Goto(c, AfterGet(c)) /\ NoWrite
                              ELSE Rollback(c, "gone")

(* PrepareOutOfBand of knowledge: embedding and dedup, before any transaction. *)
Prepare(c) ==
  /\ call[c].pc = "prepare"
  /\ Free
  /\ Goto(c, "begin")
  /\ NoWrite

AfterBegin(c) ==
  IF call[c].op = "batch" THEN "resolve"
  ELSE IF call[c].entry = "mcp" /\ Backend = "postgres" THEN "get" ELSE "materialize"

Begin(c) ==
  /\ call[c].pc = "begin"
  /\ Free
  /\ call' = [call EXCEPT ![c].tx = TRUE, ![c].pc = AfterBegin(c)]
  /\ NoWrite

(* What a caller writes on the pool while its transaction is open commits at once. *)
Materialize(c) ==
  /\ call[c].pc = "materialize"
  /\ \/ /\ Accepted(c) \in InTx
        /\ call' = [call EXCEPT ![c].staged = 1, ![c].pc = "resolve"]
        /\ NoWrite
     \/ /\ WrittenOnPool(call[c].entry, Type(c))
        /\ Free
        /\ created' = [created EXCEPT ![Id(c)] = @ + 1]
        /\ Goto(c, "resolve")
        /\ UNCHANGED <<proposals, lock, calls>>
     \/ /\ WrittenAfterCommit(call[c].entry, Type(c))
        /\ Goto(c, "resolve")
        /\ NoWrite

(* Mutant: ResolvePendingProposal without AND status = 'pending'. *)
MutResolvable(c) == lock[Id(c)] = Nobody

Resolvable(c) == lock[Id(c)] = Nobody /\ Status(c) = "pending"

(* ResolvePendingProposal in the transaction; another transaction that has   *)
(* resolved the row makes it wait.                                            *)
Resolve(c) ==
  /\ call[c].pc = "resolve"
  /\ lock[Id(c)] \in {Nobody, c}
  /\ IF Resolvable(c)
     THEN /\ lock' = [lock EXCEPT ![Id(c)] = c]
          /\ call' = IF call[c].k < Len(call[c].ids)
                     THEN [call EXCEPT ![c].k = @ + 1] ELSE [call EXCEPT ![c].pc = "commit"]
          /\ UNCHANGED <<proposals, created, calls>>
     ELSE Rollback(c, "gone")

(* Mutant: the action of the request written as the status. *)
MutResolution(c) == IF call[c].op = "accept" THEN "accepted" ELSE "reject"

Resolution(c) == IF call[c].op = "accept" THEN "accepted" ELSE "rejected"

(* The row and the staged entity become visible together.  The answer of a  *)
(* commit can be lost.                                                        *)
Commit(c) ==
  /\ call[c].pc = "commit"
  /\ proposals' = [p \in Proposal |->
       IF lock[p] = c THEN [proposals[p] EXCEPT !.status = Resolution(c)] ELSE proposals[p]]
  /\ created' = [p \in Proposal |->
       IF lock[p] = c THEN created[p] + call[c].staged ELSE created[p]]
  /\ lock' = Released(c)
  /\ \/ Return(c, "error")
     \/ IF call[c].op = "accept" /\ WrittenAfterCommit(call[c].entry, Type(c))
        THEN call' = [call EXCEPT ![c].pc = "after_commit", ![c].tx = FALSE]
        ELSE Return(c, "ok")
  /\ UNCHANGED calls

(* runSQLitePostCommitMaterialisers: a failure is logged, never reported. *)
AfterCommit(c) ==
  /\ call[c].pc = "after_commit"
  /\ Free
  /\ created' = [created EXCEPT ![Id(c)] = @ + 1]
  /\ Return(c, "ok")
  /\ UNCHANGED <<proposals, lock, calls>>

(* Store.Resolve as a statement of its own. *)
ResolveOnly(c) ==
  /\ call[c].pc = "resolve_only"
  /\ Free
  /\ lock[Id(c)] = Nobody
  /\ IF Resolvable(c)
     THEN /\ proposals' = [proposals EXCEPT ![Id(c)].status = Resolution(c)]
          /\ Return(c, "ok")
          /\ UNCHANGED <<created, lock, calls>>
     ELSE Return(c, "gone") /\ NoWrite

------------------------------------------------------------------------------
(* Failures *)

(* Mutant: no deferred Rollback. *)
MutStoreErrorKeepsTx(c) ==
  /\ call[c].pc \notin {"idle", "done"}
  /\ call' = [call EXCEPT ![c].pc = "done", ![c].result = "error"]
  /\ NoWrite

(* A statement fails, the payload does not decode, or knowledge is a duplicate. *)
StoreError(c) ==
  /\ call[c].pc \notin {"idle", "done"}
  /\ Rollback(c, IF call[c].pc = "after_commit" THEN "ok" ELSE "error")

WaitsFor(c) == IF call[c].pc = "resolve" THEN lock[Id(c)] ELSE Nobody

(* Each waits for another of them, and each is waited for. *)
Deadlocked(cycle) ==
  /\ \A d \in cycle : WaitsFor(d) \in cycle \ {d}
  /\ \A d \in cycle : \E e \in cycle : WaitsFor(e) = d

(* Postgres aborts one transaction of a cycle of row-lock waits: two batches *)
(* that list the same ids in opposite orders.                                 *)
DeadlockVictim(c) ==
  /\ \E cycle \in SUBSET Caller : c \in cycle /\ Deadlocked(cycle)
  /\ Rollback(c, "error")

------------------------------------------------------------------------------
(* Other writers of pending_proposals *)

Create(p, type) ==
  /\ proposals[p].status = "unborn"
  /\ Free
  /\ proposals' = [proposals EXCEPT ![p] = [type |-> type, status |-> "pending"]]
  /\ UNCHANGED <<created, lock, call, calls>>

(* The nightly prune's statements over the rows past their retention. *)
Prune(rows, status) ==
  /\ Free
  /\ rows # {}
  /\ \A p \in rows : lock[p] = Nobody
  /\ proposals' = [p \in Proposal |->
       IF p \in rows THEN [proposals[p] EXCEPT !.status = status] ELSE proposals[p]]
  /\ UNCHANGED <<created, lock, call, calls>>

Pending(ps, types) == {p \in ps : proposals[p].status = "pending" /\ proposals[p].type \in types}

MarkStaleTasks(ps) == Prune(Pending(ps, {"task"}), "rejected")

MarkStaleGoalFamily(ps) == Prune(Pending(ps, AllTypes \ {"task", "decision"}), "rejected")

DeleteStale(ps) ==
  Prune({p \in ps : proposals[p].status \in {"accepted", "rejected"}} \cup Pending(ps, {"decision"}),
        "deleted")

------------------------------------------------------------------------------
Begins(c) ==
  \E p \in Proposal :
    \/ \E entry \in Entries : CallAccept(c, p, entry)
    \/ CallReject(c, p)
    \/ \E q \in Proposal : CallBatchReject(c, <<p, q>>)

Step(c) ==
  \/ Get(c) \/ Prepare(c) \/ Begin(c) \/ Materialize(c) \/ Resolve(c) \/ Commit(c)
  \/ AfterCommit(c) \/ ResolveOnly(c) \/ DeadlockVictim(c)

Background ==
  \/ \E p \in Proposal, a \in Accepts : Create(p, a[2])
  \/ \E ps \in SUBSET Proposal : MarkStaleTasks(ps) \/ MarkStaleGoalFamily(ps) \/ DeleteStale(ps)

Next == (\E c \in Caller : Begins(c) \/ Step(c) \/ StoreError(c)) \/ Background

Spec == Init /\ [][Next]_vars

(* Waiters for a row lock and for a pooled connection are served in turn,   *)
(* and Postgres breaks a deadlock: a step enabled again and again is taken. *)
FairSpec == Spec /\ \A c \in Caller : SF_vars(Step(c))

------------------------------------------------------------------------------
(* Properties *)

TypeOK ==
  /\ proposals \in [Proposal -> Rows]
  /\ created \in [Proposal -> Nat]
  /\ lock \in [Proposal -> Caller \cup {Nobody}]
  /\ call \in [Caller -> Calls]
  /\ calls \in Nat

Promise == INSTANCE ProposalPromise
  WITH status <- [p \in Proposal |-> proposals[p].status], made <- created

(* Whoever accepts, rejects and prunes a proposal at once, it is resolved    *)
(* once, and its entity exists exactly when it was accepted: the code        *)
(* implements ProposalPromise.                                               *)
PromiseKept == Promise!Spec

(* One caller at most is told that it accepted a proposal, and then the      *)
(* entity is there.                                                          *)
OneWinner ==
  \A c \in Caller : call[c].op = "accept" /\ call[c].result = "ok" =>
    /\ created[Id(c)] = 1
    /\ \A d \in Caller \ {c} :
         call[d].op # "none" /\ call[d].result = "ok" => Id(c) \notin {call[d].ids[i] : i \in DOMAIN call[d].ids}

(* A resolution is final: an accepted proposal is never rejected by a later  *)
(* call, a stale read or the prune, nor the other way round.                  *)
ResolvedOnce ==
  [][\A p \in Proposal :
       proposals[p].status \in {"accepted", "rejected"} =>
         proposals'[p].status \in {proposals[p].status, "deleted"}]_vars

(* On SQLite, where the only connection serialises the transactions, no     *)
(* proposal is materialised twice and none that was not accepted, even by   *)
(* the materialisers that run after the commit.                               *)
CreatedOnce ==
  \A p \in Proposal :
    created[p] = 0 \/ (created[p] = 1 /\ proposals[p].status \in {"accepted", "deleted"})

(* On Postgres an accepted proposal has its entity, however its calls were     *)
(* interrupted and repeated, unless it is a playbook accepted over HTTP.  Only *)
(* what MCP writes on another connection than its transaction, knowledge and   *)
(* playbooks, can exist without the acceptance or twice.                       *)
EntityWithAcceptance ==
  \A p \in Proposal :
    /\ proposals[p].status = "accepted" => created[p] >= 1 \/ proposals[p].type = "playbook"
    /\ proposals[p].type \notin {"knowledge", "playbook"} =>
         created[p] = 0 \/ (created[p] = 1 /\ proposals[p].status \in {"accepted", "deleted"})

(* BatchConfirm answers for the batch as a whole: "ok" only if every id was  *)
(* pending and is now rejected, and with any other answer no id, or (when    *)
(* the answer of the commit was lost) every id.                              *)
BatchAllOrNothing ==
  [][\A c \in Caller : call[c].op = "batch" /\ call[c].tx /\ ~call'[c].tx =>
       LET ids == {call[c].ids[i] : i \in DOMAIN call[c].ids}
           all == \A p \in ids : proposals[p].status = "pending" /\ proposals'[p].status = "rejected"
       IN  CASE call'[c].result = "ok"   -> all
             [] call'[c].result = "gone" -> proposals' = proposals
             [] OTHER                    -> all \/ proposals' = proposals]_vars

(* Transactions never hold more connections than the pool has, and a row lock *)
(* does not outlive its holder's transaction.                                 *)
PoolBounded == IsFiniteSet(Open) /\ Cardinality(Open) <= PoolSize

LocksEnd == \A p \in Proposal : lock[p] # Nobody => call[lock[p]].tx

(* A deadlock over proposal rows is one of batches: an accept never waits for *)
(* a row while it holds one, so Postgres never aborts it for another's sake.  *)
DeadlocksAreBatches ==
  \A cycle \in SUBSET Caller : Deadlocked(cycle) => \A c \in cycle : call[c].op = "batch"

(* No call waits forever for a row lock or for a connection. *)
EveryCallReturns ==
  \A c \in Caller : call[c].pc \notin {"idle", "done"} ~> call[c].pc \in {"idle", "done"}

(* The inductive invariant, where every accept is written in its transaction. *)
(* A row is locked by the call that resolved it and is still pending; an      *)
(* accept has staged its entity before it resolves; a row keeps its type.     *)
CallInv(r) ==
  /\ r \in Calls
  /\ r.pc \notin {"idle", "done"} => r.k \in 1..Len(r.ids)
  /\ \A i \in 1..Len(r.ids) : proposals[r.ids[i]].status # "unborn"
  /\ r.op = "accept" => /\ Len(r.ids) = 1 /\ r.k = 1
                        /\ <<r.entry, proposals[r.ids[1]].type>> \in Accepts
  /\ r.pc \in {"get", "read", "prepare", "materialize"} => r.op = "accept"
  /\ r.pc \in {"begin", "resolve", "commit"} => r.op \in {"accept", "batch"}
  /\ r.pc = "resolve_only" => r.op = "reject"
  /\ r.pc # "after_commit"
  /\ r.pc \notin {"resolve", "commit"} => r.staged = 0
  /\ r.pc \in {"resolve", "commit"} => r.staged = IF r.op = "accept" THEN 1 ELSE 0

LockInv(p) ==
  lock[p] # Nobody =>
    /\ proposals[p].status = "pending"
    /\ call[lock[p]].pc \in {"resolve", "commit"}
    /\ call[lock[p]].op = "accept" => p = Id(lock[p])

ConfirmInv ==
  /\ TypeOK
  /\ \A c \in Caller : CallInv(call[c])
  /\ \A p \in Proposal : LockInv(p)
==============================================================================
