# wayneblacktea: TLA+ models, TLC runs and TLAPS proofs

This directory specifies the concurrent core of wayneblacktea, a personal-OS server
that AI agents drive over MCP and people drive over HTTP. Many agents and requests
share one database; most operations read a row, decide in Go and write in a later
statement. The specifications are about what happens *between* those statements.

    cd tla
    tlc -workers 2 -config MCTaskOps.cfg MCTaskStore.tla      # one run
    tlapm TaskStoreProofs.tla                                 # one proof module

`PROJECT.json` lists the components, the runs, the definitions with the source lines they
translate, the hazards, and the theorems.

## 1. Inventory

### Entry points and shared state

* **Writers**: MCP tool handlers (`internal/mcp`, one goroutine per tool call), HTTP handlers
  (`internal/handler`, one per request), the scheduler's jobs (`internal/scheduler`), background
  workers (activity queue, AI-cost ledger, classification) and CLI hooks.
* **Shared state**: one database. Either Postgres through a `pgxpool` of 8 connections
  (`internal/storage/factory.go`) or SQLite with `SetMaxOpenConns(1)` (`internal/storage/sqlite/db.go`).
* **How components interact**: by calling stores, or by writing each other's tables. The task table is
  written by `gtd`, `worksession`, `proposal` (accepting a task proposal), `vision` (promotion) and the
  delete paths; proposals are written by tools, background classifiers and the scheduler.

### Components

| Component | State | Operations | Hard behaviour | What makes it correct |
|---|---|---|---|---|
| Tasks (`internal/gtd`) | rows of `tasks`; `activity_log` | create, `set_task_status`, `update_task`, `complete_task`, `begin_task`, delete | read/decide/write in separate statements; a merge that writes every column; one transaction (`begin_task`) with an activity row | a task is started only with an owner; a start is logged once; no commit id is lost, an artifact is replaced only by one that is supplied; a validated write never lands on another status |
| PR reconciliation (`gtd/reconcile.go`) | preview token with matches | preview, confirmed apply | tasks change between preview and confirm; failure in mid batch | only open tasks are closed; what is reported as applied was closed by this call |
| Work sessions (`internal/worksession`) | `work_sessions`, links to tasks | start_work, confirm_plan, begin_task's attachment, checkpoint, finish | the session is committed, its tasks are marked by a later statement that may fail; two `finish_work` calls; a session that changes between a refused insert and the attachment | one session in progress per repo; its tasks completed once; late marks touch open tasks only |
| Proposals (`internal/proposal`) | rows of `pending_proposals` | create, accept, reject, batch accept/reject, prune | two entry points, two backends, entity written inside, beside or after the transaction; pool of connections; batches that lock in opposite orders | resolved once; the entity exists exactly when accepted; a call returns |
| Deletion and restore (`gtd/delete*`, `mcp/deletion_confirm.go`) | confirm tokens, tombstone groups | request, confirm, delete, restore, prune | token expires or is replaced; cleanup of referring tables under locks; a task added to a project during its deletion | no dangling references; what was confirmed is what is deleted; restored once |
| Checklists | a JSON column | add, check, remove | read-modify-write under `FOR UPDATE` | no item lost |
| Outcomes (`internal/outcome`) | outcome rows of an entity, chained by `supersedes_id` | record_outcome, finish_work's automatic outcome, complete_task's draft, prune | read, decide in Go, one statement; a lost race retries; the merge is evaluated on the row another call left | one open draft, which only grows; closed rows never change; rules are inherited; every recorded note is atomized |
| Completion candidates | rows keyed by (task, reason) | detect, upsert | the scan is over when the upserts run | a candidate has its evidence |
| LLM chain and health (`internal/llm`) | failure window | fallback call, record, escalate | concurrent recording, sustained-failure threshold | escalates once per outage |
| Activity queue (`handler/posttooluse_handler.go`) | channel of 1000 events, worker | send, write, `Stop` | a send races the final flush; `select` picks either ready case | no event lost, doubled or overtaken between the channel and the store |
| MCP middleware, AI-cost ledger, atomization | semaphores, rate limits | capped goroutines | semaphore full; a slot leaks | slots are returned; work is skipped only when all are in use |
| Server process (`cmd/server`) | the deferred calls of `run()` | signal, `Shutdown`, `Start` returns, `Stop`, close | requests still open when `Start` returns | the stores close after the worker; the process ends |
| Scheduler | cron jobs, advisory singleton | prune, reflect, consolidate, promote | two instances; overlap with requests | a job never undoes a request |
| Storage | the pool, or the one SQLite connection | `Begin`, `Exec`, `Commit` | a goroutine that holds one connection and asks for a second | no wait for oneself |
| Supervisor (`internal/lifecycle`) | pid file, lock file | start, stop, status | stale pid, two starts | one server |
| Vision, behavior rules, decisions, knowledge, atoms, learning | single-statement rows | insert, promote, retire | dedup check before insert | no duplicate promotion |
| Guard, sanitising, validation, evals, context packs, web, Discord, Notion | none, or external | pure text, reads | none that interleaves | not modelled |

`PROJECT.json` names the sources of each of the 34 parts and says why a part is not modelled.

## 2. Modules

| Module | Contents |
|---|---|
| `TaskStore` | the task component: the rows, the calls in flight, every statement that writes a task |
| `MCTaskStore` | symmetry for its runs |
| `TaskStoreProofs` | typing, the inductive invariant, and every safety property of the runs |
| `ProposalPromise` | abstract specification: a proposal is resolved once, and its entity is made in the step that accepts it |
| `ProposalConfirm` | the confirm paths of both entry points and both backends, with transactions, row locks and the pool |
| `MCProposalConfirm` | the sets of (entry point, type) pairs its runs accept |
| `ProposalConfirmProofs` | the inductive invariant, and that `ProposalConfirm` implements `ProposalPromise` |
| `ProposalEntityProofs` | the invariant of accepts of any type on Postgres, and `EntityWithAcceptance` from it |
| `ProposalLockProofs` | which connections and rows a call holds at each step: the pool, the locks, who can deadlock, and that a batch is one or nothing |
| `TombstoneLedger` | abstract specification: deleted tasks go into a group in one step and come back with it |
| `Deletion` | confirmation tokens, delete_task, delete_project, restore_project and the prunes on Postgres |
| `MCDeletion` | symmetry, and what the fourth call is explored with |
| `DeletionProofs` | the inductive invariant of `Deletion`, three action properties from it, and that `Deletion` implements `TombstoneLedger` |
| `OutcomeLedger` | abstract specification: what the outcomes of one entity may do, whichever calls record them |
| `Outcome` | the outcome rows of one entity, under record_outcome, finish_work, seeds and retention |
| `MCOutcome`, `OutcomeProofs` | symmetry; the inductive invariant, and that `Outcome` implements `OutcomeLedger` |
| `WorkSession` | sessions, links, the task rows they mark, and the candidates derived from both |
| `MCWorkSession`, `WorkSessionProofs` | symmetry and what the third call is explored with; the inductive invariant and five safety theorems |
| `Background` | the activity queue, the capped goroutines and the shutdown of the process |
| `MCBackground`, `BackgroundProofs` | the runs; the inductive invariant |

The six specifications stand alone: each keeps of the others' rows only what its own code reads. What ties
them is the row of `tasks`: `TaskStore.DeleteTaskRow` is what `Deletion.Commit` does to one row, and
`ProposalConfirm` creates the row `TaskStore.CreateTask` starts from. `WorkSession.WriteTask` stands for everything
`TaskStore` does to a row: it leaves out the texts on which the two blank tests differ, and then assumes of a started task what `StartsAreOwned` proves. `WorkSession.BeginOwned` is `TaskStore`'s
begin_task as one step, `WorkSession.DeleteTask` and `RestoreTask` are `Deletion`'s. `Outcome.HandOver` is the launch that
`Background.LaunchAtomize` takes up.

### TaskStore and the code

A *caller* is one tool call or request; `call[c]` is its Go stack: the operation, a program counter, the
task, and the values kept from reads (`snap` is the row `UpdateTask` read, its parameters merged in, `expected` the status
`set_task_status` validated). One action is one SQL statement with the Go code that decides what comes next.

| Operation | Actions in order |
|---|---|
| `set_task_status` → `UpdateTaskStatusGuarded` | `SetRead`, `GuardRead` (only for in_progress), `GuardWrite`, and `GuardReread` when no row matched |
| `Store.UpdateTaskStatus` | `CallUpdateTaskStatus` (no expected status), then as above |
| `update_task`, PATCH `/api/tasks/:id` | `UpdateGate` (the tool's own check; the HTTP handler skips it), `UpdateRead`, `UpdateWrite` |
| `complete_task` | `CompleteTask`, then `UpdateRead`/`UpdateWrite` for the artifact's side effect, whose failure is dropped |
| `begin_task` | optional `UpdateRead`/`UpdateWrite` of the assignee, `BeginRead`, `BeginGuardedUpdate`, `CreateActivityLog`, `BeginCommit`, or `BeginResolve`; optional `UpdateRead`/`UpdateWrite` of the PR link |
| `reconcile_merged_prs` confirm | per match `ApplyOnePRMatch`, `PRLog`; `PRCommit` |
| create, delete, `start_work`, `finish_work` marks | `CreateTask`, `DeleteTaskRow`, `MarkInProgress`, `MarkCompleted`, one statement each |
| any error | `StoreError`: at any point of a call; an open transaction rolls back |

`UpdateWrite` writes the row as the code does: status, assignee and pr_url come from the row *read*
(merged with the parameters), `artifact` is not touched, `commit_shas` is appended to in SQL. A row lock is
held only by `begin_task`'s transaction; every other statement waits while the lock is taken and then
evaluates its WHERE clause on the committed row (READ COMMITTED). `applyOnePRMatch` runs on the pool, so its
update commits on its own.

An artifact is a pull request URL, a commit id, or `OtherText`: a text with no side effect, the empty one
included. `complete_task` over MCP takes an empty artifact for an omitted one; the HTTP handler passes it on, `CompleteTask`
makes it a text, and `COALESCE('', artifact)` writes it. `CallCompleteTask` takes either, so its `a` ranges over all of them. An
`update_task` may clear `pr_url` (`NoArtifact`) or set it, and is then tried alone: it decides nothing (`Patches`).

Assignees are the registered actors, `NoActor` (NULL, empty or ASCII spaces), and `WideBlank`: texts that
`strings.TrimSpace` empties but SQL's `TRIM(x)` does not. `Blank` is Go's test and the guarded
statements' `btrim` with the full character list; `TrimmedBlank` is the batch mark's. Only `CreateTask` stores a
`WideBlank` text (HTTP), every other path normalises the actor.

### ProposalConfirm and the code

`call[c]` is again the stack of a confirm call; `tx` says that it holds a transaction and with it a
connection; `staged` counts the entities it has written but not committed; `lock[p]` is the transaction that
has resolved row `p`. `Free` is the pool: a statement outside a transaction needs a free connection for its
duration, a `Begin` keeps one. Three operators say where an entity is written, from the switch statements of
the two entry points: `InTx` (in the resolving transaction), `WrittenOnPool` (through the store, on another
connection: knowledge and playbook via MCP on Postgres, playbook via MCP on SQLite), `WrittenAfterCommit`
(knowledge and task via MCP on SQLite), `NeverWritten` (playbook via HTTP).

| Path | Actions in order |
|---|---|
| MCP accept, Postgres (`acceptProposalPg`) | `Begin`, `Get`, `Materialize`, `Resolve`, `Commit` |
| MCP accept, SQLite (`acceptProposalSQLite`) | `Get`, `Begin`, `Materialize`, `Resolve`, `Commit`, `AfterCommit` |
| HTTP accept (`AcceptOrchestration`) | `Get`, `Get` (ReadPending), `Prepare` (knowledge), `Begin`, `Materialize`, `Resolve`, `Commit`; a playbook is only resolved |
| reject | `ResolveOnly` |
| batch reject, Postgres (`BatchConfirm`) | `Begin`, `Resolve` per id, `Commit`; the first id that is not pending rolls all back |
| prune | `MarkStaleTasks`, `MarkStaleGoalFamily`, `DeleteStale`, any subset of the rows being old enough |
| errors | `StoreError` at any point; `Commit` may also answer "error" although it committed |

A batch accept, and a batch reject on SQLite, handle one id after the other, so they are a sequence of
single calls. `DeadlockVictim` is Postgres' detector: a cycle of lock waits (`Deadlocked`) is
broken by aborting one of its members; a call that only waits for a member is not aborted.

### Deletion and the code

`call[c]` is the stack of a preview, a confirmed delete or a restore. `pending` is the server's `deleteTokens`
map, one record per key; a token is the number of its issue, and `expired` says which records are past
their 60 seconds. `home[t]` is a task's `project_id`, or that the row does not exist. A member of `tombs` is
the group of tombstones one delete writes. A transaction's writes take effect in `Commit`: until then
they show as the rows it holds (`locked`, `took`, the group a restore has found), for which others wait.

| Operation | Actions in order |
|---|---|
| preview (`confirm` absent) | `PreviewRead`, `PreviewList` (project), `IssueSweep`/`IssueSweepDelete` per expired record, `IssueCount`, `IssueStore` |
| confirm (`spendPendingDeletion`) | `LoadToken`, then `DropToken` (mismatch, expired) or `SpendToken` |
| `delete_task` | `BeginTx`, `Precheck` (takes the row), `Snapshot`, `DeleteTaskRows` (nothing left to find), `Commit` |
| `delete_project` | `BeginTx`, `Precheck` (takes nothing), `LockScan`, `LockRow` per row in id order, `LockDone`, `Snapshot`, `DeleteTaskRows`, `DeleteProjectRow`, `Commit` |
| 40P01 | `DeadlockVictim`: rolled back, and begun again with a new `deletedAt`, `deleteDeadlockRetries` times |
| `restore_project` | `RestoreFind` (takes the latest group in the window), `RestoreWrite` |
| around them | `CreateTask`, `MoveTask` (`update_task`), `ExpireToken`, `Age`, `PruneDeletionTombstones`; `StoreError` at any point |

READ COMMITTED shows in `LockScan`/`LockRow`: the statement finds its rows first and, when it gets a row it has waited
for, looks at it again. A digest of task ids is the set of ids. Time is the order of the clock reads that
become `deleted_at`; `horizon` is the clock minus thirty days on that scale, and `Age` moves it. A supplied token or
a session may differ from the recorded one: `LoadToken` takes either branch.

### Outcome and the code

`rows` are the outcomes of one entity, by `created_at`, which is drawn when an INSERT begins (`BeginInsert`) and
may become visible after a later one. `call[c]` is the stack of `RecordExecutionResult` or `SeedDraft`: the row it found
(`latest`), that row as it was read (`seen`), the attempts it has lost (`tries`). Notes are the segments that
`FinalizeDraft` joins; what is atomized is a range of them (`Delta`).

| Path | Actions in order |
|---|---|
| `record_outcome` | `RecordOutcome`, `Resolve`; then it returns (replay), or `FinalizeDraft` (an open row), or `BeginInsert`, `Insert` (none, or a closed one to supersede); `HandOver` of the new notes |
| `finish_work` with a negative result | `FinishWork`, then as above, without `HandOver` |
| `complete_task` | `SeedDraft`, `Resolve`, and, if there is no row at all, `BeginInsert`, `Insert` |
| a lost race | `LostRace`: back to `Resolve`, at most `Attempts` times |
| retention | `Prune`: every row up to a cutoff |

`FinalizeDraft` is evaluated on the row as the UPDATE finds it, not as it was read: `Finalized(rows[s], p)`. `Insert` may
fail on `idx_outcomes_one_open_draft`. `Prune` may take any prefix at any moment, even the row of a running call; the
retention of the code is months, so this has more behaviours than the system.

### WorkSession and the code

`call[c]` is the stack of a start_work, begin_task, finish_work or detection; after it has ended, `s` and `todo` keep
the answer. A task is its status, whether it has an owner, and `life`: it keeps its place when it is deleted, because
`restore_project` may bring it back.

| Operation | Actions in order |
|---|---|
| `start_work`, `confirm_plan`'s session | `StartWork`, `Create` (the row and its links in one transaction, or refused by the index), `MarkInProgress` |
| `begin_task` | `BeginTask`, `PersistAssignee` (if it names one), `BeginOwned`, `Create` and `MarkInProgress`, or, when refused, `GetActive`, `LinkTask` |
| `checkpoint_work` | `Checkpoint`, one statement |
| `finish_work` | `FinishWork`, `Finish`, `ReadLinked` (complete_all_linked_tasks), `MarkCompleted` |
| detection, rule 2 | `DetectGaps`, `Scan`, `Upsert` per row |
| around them | `WriteTask`, `DeleteTask`, `RestoreTask`; `Abort`: a statement fails or the server stops, at any point |

Both marks may fail without effect on the answer, so each has a branch that writes nothing. `marked` counts the completing statements per
session. The detection's window of days is not represented: every completed session is within it.

### Background and the code

`request` follows each HTTP request or tool call; `queue`, `worker` and `hand` are the channel, `drainWorker`'s position
and the event it is writing; `job` and `slots` are one semaphore and its goroutines (the code has one for
each of classification, autologging, proposals, atomization and the ledger; they share nothing); `main` is `run()`.

| Code | Actions |
|---|---|
| `PostToolUse` | `Refuse`, or `PostToolUse` with `Offer`: the send, or the drop when the channel is full |
| `drainWorker`, `flush`, `writeOne` | `Select` (of two ready cases either), `WriteOne`, `Flush` |
| classification, autologging, proposals, ledger | `Launch` (the slot is taken before the goroutine starts), `EndJob` |
| atomization | `LaunchAtomize`, `AtomizeAcquires` (the goroutine takes the slot), `EndJob` |
| `run()` | `Signal`, `ServeReturns`, `Stop`, `CloseStores`, `Exit`; nothing happens after `Exit` |

## 3. Runs

Constants are model values. Where no liveness is checked, callers, and in the proposal runs proposals, are interchangeable
and the runs use symmetry.

| Run | Bounds | Shows |
|---|---|---|
| `MCTaskOps` | 2 callers, 1 task, 1 actor, a "tab" assignee, 1 PR, 1 commit, an empty artifact, 2 calls of any operation | `TypeOK`, `TaskStoreInv`, `StartsOwned`, `StartLoggedOnce`, `SetOnlyOverValidated`, `NoCommitLost`, `ArtifactKept`, `AppliedMeansClosedHere`, and `EveryCallReturns` under fairness |
| `MCTaskTab` | the "tab" assignee and the batch mark | `InProgressOwned` fails: the mark starts a task that has no owner (finding) |
| `MCTaskBatch` | 2 tasks | a failed reconcile batch has closed tasks (finding) |
| `MCConfirmPg` | 2 callers, 2 proposals, pool of 2, 2 calls; accepts written in the transaction | `TypeOK`, `OneWinner`, `PromiseKept`, `BatchAllOrNothing`, `EveryCallReturns` |
| `MCConfirmPgEvery` | as above, pool of 4, 3 calls, all four kinds of type through both entry points | `EntityWithAcceptance`, `ResolvedOnce` |
| `MCConfirmSqliteEvery` | 1 connection, all four kinds of type | `CreatedOnce` |
| `MCDeletion` | 2 callers, 1 project, 2 tasks, 1 retry, 2 pending tokens, 3 calls, and a fourth while nothing expires, ages or is retried | `DeletionInv` (`TypeOK` in it), `PreviewBinds`, `KeptOrRestored`, `SpentOnce`, `LedgerKept` (the refinement) |
| `MCConfirmPool` | 2 callers, pool of 2, MCP knowledge | `EveryCallReturns` fails: each holds a connection and waits for a second (finding) |
| `MCOutcome` | 2 callers, 3 calls, 3 inserts, 1 terminal result, 1 segment of notes, 2 rules with a cap of 1, 2 attempts | `TypeOK`, `OutcomeInv`, `EveryNoteAtomized`, `ClosedRowsKept`, `DraftOnlyGrows`, `SupersededForGood`, `LedgerKept` (the refinement), `EveryCallReturns` |
| `MCWorkSession` | 2 callers, 2 sessions, 2 repos, 1 task, 2 calls, and a third while no task is restored | `TypeOK`, `OneActive`, `MarkedOnce`, `GapHasEvidence`, `AnswerLinked`, `MarksOpenOnly` |
| `MCBackground` | 3 events, a channel of 2, 2 goroutines for 1 slot | `TypeOK`, `BackgroundInv`, and `WorkEnds` under fairness |
| `MCBackgroundShutdown` | 1 event | an event accepted after the flush is lost (finding) |

**Why the bounds are enough.** Every race in these paths is between one call's read and its write, so it
needs two calls on one row; the deletions, creations, batch marks and prunes come from background actions
that the call bound does not limit. A third call in the proposal runs is a retry after an ambiguous commit; where two calls are enough (the run with liveness) a
second caller meets what the first has left.
Two tasks are needed for a batch to fail in the middle (`MCTaskBatch`); one is enough for the rest of reconciliation; two proposals for batches that lock in opposite
orders and for a batch that lists one id twice. One actor suffices because the code compares an assignee only
with blank; the tab is the text on which the code's two blank tests differ, and it is in the passing run too, so `StartsOwned`
says what the code does with it and not that it cannot happen. In the deletion run a delete is two calls, so four calls are two whole deletes, or one with a
restore, or a second preview that replaces the first's token. The cfg's `CONSTRAINT Bound` takes the fourth call only from states in which no
token has expired, no retention has ended and no deadlock was retried: those need no two whole deletes, and without the constraint
the run has several times the states. `MCWorkSession` does the same with a third call after a restore; two tasks make a set that can lose and gain a member
between the preview and the lock, and `CreateTask`, `MoveTask`, `Age` and the prune are not limited by the call bound.
Lower bounds than the code's (256 pending tokens, 3 retries, 3 attempts, 1000 events, 50 slots) bring the limits within reach. In the outcome
run three calls make a draft, a row that supersedes it and a race for either, and lose as many races as there are attempts; the results that close a draft differ only in the votes they carry, so one is enough; the cap of one rule makes
the union drop one. In the session run three calls are a start, a finish and a third that races one of them, with one task that `WriteTask`, `DeleteTask` and
`RestoreTask`, unlimited by the call bound, take through every status; the second repo tells a session of another repo from one's own. In the
background run the third event meets a full channel and the second goroutine a full semaphore. The one-PR, one-commit instance tells "lost" from "kept"; `SUBSET` of commits abstracts order and
repetition in the array. `MaxCalls` is the only bound in a guard that the code does not have, and it is a constant of the theorems,
which hold for every value.

**Deadlock.** The task runs check for deadlock. The other cfgs say
`CHECK_DEADLOCK FALSE`: once `MaxCalls` calls have returned and every row is deleted, or the process has exited, nothing is left to do. That no call is stuck is what
`EveryCallReturns` says, and of the background work `WorkEnds`.

**Fairness.** `FairSpec` asks strong fairness of `Step(c)` for each caller and nothing of `Begins`,
`StoreError`, `Background`. A Go handler keeps running; a statement that waits for a row lock or a pooled
connection is enabled again and again rather than continuously, but Postgres serves the waiters of a row in
turn, `pgxpool` serves waiters of `Acquire` in order and `database/sql` its requests likewise, so it is not
overtaken forever. A detected deadlock is part of `Step`, because the detector always runs.
`Outcome`'s calls wait for nothing between two statements, so weak fairness of each call's `Step` suffices. In `Background` weak fairness is asked of the worker, of the deferred
calls, of the goroutines (every write and every LLM call has a timeout), and of `ServeReturns` once the signal has come; not of requests, answers
or the signal.

## 4. Findings

1. **`MCTaskBatch`** (bug): `BatchCompleteTasksByPRMatch` opens a transaction but `applyOnePRMatch` executes its
   UPDATE on `s.dbtx`, the pool. A failure at a later match rolls back the activity rows and leaves the
   earlier tasks completed.
2. **`MCTaskTab`** (doc and code differ): `batchMarkTasksInProgress` tests the assignee with `TRIM`, which strips ASCII spaces
   only. A task created over HTTP with a tab for an assignee is started by `start_work` and is in progress without an owner, although
   `internal/worksession/store.go:272` says that such an assignee is treated as empty there too, with no divergence from
   `strings.TrimSpace`, and that the task stays pending. `StartsOwned`, which the passing run checks, says that this is the only way.
3. **`MCConfirmPool`** (doc and code differ): `factory.go` argues that no goroutine holds two connections;
   `acceptProposalPg` does for knowledge and playbooks, so eight at once on the pool of eight never return.
4. **`MCBackgroundShutdown`** (doc and code differ): `Stop` promises that in-flight events are never lost on shutdown. `e.Shutdown` runs in a
   goroutine that `run()` does not wait for; `Start` returns as soon as the listener is closed, the deferred `Stop` flushes
   the queue, and a request that is still open then enqueues an event nobody reads, answers 202, and the process exits. (`Start` may also fail without a signal, with the same loss; `NoneLost` speaks of a
   shutdown, as the comment does.)

Met while modelling, described by the models, without a run of their own:

* **Tasks.** `UpdateTask` writes back the status it read, so an update that names no status undoes one written in between
  (`UpdateRead`, `UpdateWrite`; the comment at `internal/gtd/store.go:1440` promises that a nil field keeps the stored value). A completion over HTTP with `"artifact": ""` replaces a recorded artifact by the empty text
  (`gtd_handler.go:754`, `gtd.sql:104`), where the MCP tool keeps it, although `gtd_handler.go:738` calls the two paths in parity (of the side
  effects); `ArtifactKept` allows it as an artifact that was supplied. The fast-fail read of
  `UpdateTaskStatusGuarded` reports a missing assignee for a row whose status has drifted.
* **Proposals.** Knowledge and playbooks confirmed through MCP on Postgres commit before their proposal is resolved; tasks and knowledge
  confirmed through MCP on SQLite are created after the acceptance has committed, and a failure there is only logged: `CreatedOnce` forbids a second entity, not a missing one. A playbook
  confirmed through MCP on SQLite (`Accepts = {<<"mcp", "playbook">>}`, `PoolSize = 1`) waits forever for the connection its own
  transaction holds (`tools_proposal.go:900`): `EveryCallReturns` fails with these constants, so no passing run has them. `ResolveGuardBlocked`, `BatchCompleteTasksByPRMatch` and the detection's open
  cursors also take a second connection while they hold one: the class of finding 3.
* **Deletion.** `WorkspacePrecheck` takes no lock on the project row, so two confirmed deletes of an empty project both pass it, and the second
  deletes nothing and commits a second tombstone group and audit row, although `internal/gtd/iface.go:215` promises a no-op.
  When the first commits and a restore brings the project back between the second's `Snapshot` (`internal/gtd/store.go:2007`) and its `DeleteProjectRow` (`:2059`),
  the second deletes the restored project although its snapshot has copied no project row: the project is then in no tombstone group. It takes five
  calls and an empty project, so no run of the list has it; it is why `TombstoneLedger` speaks of tasks and their groups and of no project rows.
  `issuePendingDeletion`'s sweep deletes by key, so it can take a record stored since it saw an expired one, and its
  cap is counted before the store, so concurrent previews can pass it.
* **Outcomes.** `previousNotes` is read before the UPDATE that merges, so a segment another call has added in between is atomized by both:
  `EveryNoteAtomized` is "at least once", and it ends at `launchAtomize`, which skips a note when there is no atomizer or no free slot
  (`tools_atom.go:301`). Two calls that supersede the same row at once fork the chain; the fork
  may hide an open draft behind a closed row that is younger, and then a `record_outcome` of "unknown" fails on the index instead of enriching. A
  `record_outcome` of "unknown" over a closed row supersedes it with a draft, so its rules are not counted until the draft is closed. Two identical enriching
  calls at once both append.
* **Work sessions.** `finish_work` answers the ids asked for even when the statement that completes them has failed. A checkpoint makes the
  session invisible to `get_active_work` and to the index, so a second `start_work` of the repo succeeds. `begin_task` may attach
  its task to a session that has been finished since `GetActive`, so "checkpoint_work/finish_work-compatible" (`tools_gtd.go:2379`) is not
  an invariant; that the session exists and the link is written is. A candidate stays pending when its
  task is completed by hand; after a restore its link is gone, which is why `Evidence` speaks of tasks that have not been deleted.
* **Background.** An event dropped at a full channel is answered 202 "queued" like any other.

## 5. Proofs

`tlapm` checks every proof to its leaves; nothing is assumed but the named `ASSUME`s of the modules
(`Nobody` is not a caller, `NoActor` is not an actor, the backend is one of two, `PoolSize` is positive,
`Accepts` pairs entry points with types, a missing artifact is no artifact and a missing expectation no status, "unknown" is not a terminal result, caps and bounds are numbers, some repo exists,
events and work requests are disjoint) and, where stated, the hypothesis of the theorem.

* `TypeCorrect`: `Spec => []TypeOK` for TaskStore.
* `TaskStoreInvariant`: `Spec => []TaskStoreInv`. The safety properties are not inductive alone: a step of
  `UpdateWrite` writes a row merged from an old read, so the invariant must say of every caller at
  `upd_write` that the merged row satisfies the owner check *whatever the row is now*; and `BeginCommit` starts a
  task in a state where the guard was evaluated earlier, so it must say that the open transaction holds the
  lock, that the row is still startable and still owned. Both are `CallInv`.
* `StartsAreOwned`: the action property `StartsOwned`, for any blank texts and with no hypothesis: by cases on the writers, from what the
  invariant says of an update about to write and of an open begin_task. The one exception it states is the batch mark on a
  task whose assignee only Go calls blank (section 4).
* `StartIsLoggedOnce`: the action property `StartLoggedOnce`, from the invariant: at most one row, and only in the step that moves the task into in_progress.
* `CommitsAreKept`, `ArtifactIsKept`: what each statement may do to a row it finds and leaves (`RowKept`), by cases on the writers. They need
  `commit_shas` appended in SQL and `COALESCE` in the completion, and that a missing artifact is no artifact (`NoArtifactAssumption`). `ArtifactIsKept` says that only a supplied artifact replaces one, and by whom.
* `SetIsOverValidated`, `AppliedIsClosedHere`: only two reads lead set_task_status to its write, and only a matched row grows what a reconcile
  reports (`NextAside`). The former adds to the invariant that the expectation held at the write is a status that was read
  (`SetValidated`), and needs that "any status" is not one (`AnyStatusAssumption`).
* `ConfirmInvariant`: `Accepts \subseteq InTx` implies `Spec => []ConfirmInv`: a locked proposal is still pending, its
  holder is at `resolve` or `commit`, and an accept has staged exactly one entity before it resolves. `AtMostOneWinner`
  follows with `WinInv`: what a caller that was told ok knows of its rows, that a row that was not accepted has no entity, and that a batch has locked the ids it has passed.
* `AcceptedHasEntity`: with `Backend = "postgres"`, `EntityWithAcceptance` for any `Accepts`. `EntityInv` weakens what an accept knows before it
  resolves its row to what holds of every type: it has staged the entity, or the entity is already there (written on the pool). The
  hypothesis is needed: on SQLite the entity may be written after the commit.
* `ResolvedInvariant`, `ResolutionIsFinal`, `TypeCorrect`: without any hypothesis on `Accepts`. What is left of the invariant
  when entities may be written anywhere is that a locked proposal is pending, which is enough for the
  resolution to be final.
* `SqliteMaterialisesOnce`: with `Backend = "sqlite"` and `PoolSize = 1`, `CreatedOnce` for any `Accepts`. One connection makes
  transactions exclusive, and the invariant `SqliteInv` adds what the materialisers after the commit rely on: the call
  that is to materialise an accepted proposal is one, and nothing has been created for it.
* `ConfirmKeepsPromise`: under the same hypothesis `Spec => PromiseKept`, for any number of callers and
  proposals, any pool and either backend. The refinement maps a commit to `Accept` or to `Reject` of
  the batch; the invariant supplies that the rows it writes are pending and that one entity is staged. The
  hypothesis excludes exactly the pairs section 4 discusses.

* `DeletionInvariant`: `Spec => []DeletionInv`, which is `StateInv` and `TimeInv`. That no task is in two groups is not inductive alone: it needs that two
  transactions never hold one row, that a held row still is where the transaction found it, that past the lock the
  held set is the confirmed set and past the snapshot the copied set, and, against prunes, that a group a
  restore holds is not older than the cutoff of any delete that is past its own prune. `CallInv` says the
  former of each call, `PairInv` the latter of each two. For the tokens it says that what is stored is unspent
  and stored once. `TimeInv` is about `deleted_at`: every delete's is its own and no group has it yet, and the horizon has
  not passed it. That the clock is past every group's time (`g.at <= now`) is there because a delete that begins takes the next time, which must be no group's.
* `PreviewBindsDelete`, `DeletedTaskIsKept`, `TokenSpentOnce`: the action properties `PreviewBinds`, `KeptOrRestored` and
  `SpentOnce`, from that invariant, for every number of callers, projects, tasks and tokens. The assumptions are
  that task ids are numbers (they are ordered), that keys of projects and tasks are disjoint, and the types of the bounds.

* `KeepsLedger`: `Spec => LedgerKept`, the refinement of `TombstoneLedger`. `Commit` of a delete is `Delete` of one group with its own prune, although the
  rows were found, locked, compared, copied and deleted by five statements; `RestoreWrite` is `Restore`; the nightly prune is `Forget`;
  `CreateTask` and `MoveTask` are `Settle`; every other action stutters. The invariant supplies that the tasks of the group exist when the
  delete commits, and are in its project, that its time is new, and that what its prune drops is older than what stays.
* `LedgerIsConsistent` (deletion and outcomes), `PromiseIsMadeOnce`: what the three abstract specifications promise, proved of them alone. `OutcomeLedger` had to be made
  stronger for it: a ledger in which a row may be added under a stamp that an older row already names as superseded does not keep "superseded by a later row".
  So `Add` says that no row names the new one, which `ImplementsLedger` proves of the code's `Insert`, because a `supersedes_id` is a row that was read.

* `HoldInvariant`: with any `Accepts`, any pool and either backend, at which steps a call has its transaction open, and which rows it has locked: those
  of the ids before the one it resolves. From it:
  * `PoolIsBounded` and `LocksAreReleased`: `PoolBounded` and `LocksEnd`. Every error path, commit, lost commit answer and deadlock abort gives back what the call held.
  * `OnlyBatchesDeadlock`: in a cycle of waits every member is a batch, because an accept holds no row while it waits for one. The two batches of `MCConfirmPg` that lock in opposite
    orders are the only kind of deadlock over proposal rows. `MCConfirmPool` deadlocks over connections, which Postgres cannot see.
  * `BatchIsAtomic`: `BatchAllOrNothing` with no hypothesis on `Accepts`.
* `LocksAreInTx`: in `TaskStore` a row lock is held only at steps inside a transaction, so whoever holds one never waits for a row and no return leaves one behind.
* `OutcomeProofs`: one invariant, from which all safety properties of the run follow, for any callers, results, rules, cap and bounds. That an INSERT finds its
  place free (`OwnStamp`) needs that no other call has drawn the same `created_at` or read that row; that a superseding row inherits the rules of the row *as
  it is now* needs that a closed row does not change (`Superseding`); that the hand-over covers every segment needs that a draft has
  not shrunk since it was read (`Finalizing`). `ImplementsLedger` maps `Insert` to `Add`, `FinalizeDraft` to `Grow` and `Prune` to `Forget`.
* `WorkSessionProofs`: `IInv` adds to the properties what a call relies on between two statements (`CallHolds`): the session it
  names exists, the links it has written are there unless the task has been deleted, and what it is about to complete is not deferred. `MarksTouchOpenTasks` is an
  action property from it.
* `BackgroundProofs`: `IInv` adds where the worker is (`WorkerHolds`: it writes one event at a time, leaves its loop only after `stopCh` is closed, and is
  done only when everything sent by then has been tried) and that a goroutine belongs to a request that has been answered (`JobHolds`).

Every safety property that a passing run checks is proved, and so are the three refinements. `PoolBounded`, `LocksEnd`, `DeadlocksAreBatches`
(`ProposalConfirm`), `LocksInTx` (`TaskStore`) and the abstract specifications' own invariants are the other way round: proved, so no run repeats them (TLC checked each before it was proved).
Only model-checked: liveness (`EveryCallReturns`, `WorkEnds`) and the violations.
Liveness rests on fairness and on when `Step` is enabled, which are out of the prover's reach; the safety half of it, that no lock and no connection is left behind and
that waits form no cycle but the detector's, is in `LocksAreInTx`, `LocksAreReleased` and `OnlyBatchesDeadlock`.

## 6. What is not modelled

* In the covered components: `NormalizeActor`'s rejection of unknown names (a call that ends before it reads
  anything), titles and other columns without effect on control, the order and repetition of
  `commit_shas`, the order in which a reconcile batch visits its matches, the work-session attachment of
  `begin_task` and the outcome draft of `complete_task` (in `WorkSession` and `Outcome`), restored tasks, payload contents (a payload that does not decode
  is a failing step), embedding and dedup of knowledge (a failing step), `acceptProposalSequential` (no
  production wiring reaches it), and the SQLite twin of the task store, whose one connection allows fewer
  interleavings. The prune's exemption for review proposals only shrinks the set of rows it takes, which is arbitrary.
* In `Deletion`: two clock reads that tie (a group's identity in the code is `deletion_id`; only the clause of
  `TombstoneLedger` that a group's deletion time is new rests on it). The rows that refer to tasks and projects (join rows, candidates, vision items, decisions,
  knowledge, sessions, activity), whose cleanups add locks but decide nothing; they show as the point where a delete
  may be picked as a deadlock victim. The audit row is part of the commit that carries it, a name conflict of a
  restore a failing step. A restart of the server, which forgets the tokens and so only refuses confirmations.
  The SQLite twin, whose single connection runs the deletes one after the other. That a call returns.
* In `Outcome`: evaluations (a row that refers to an outcome which retention may remove), metrics and the session link (merged like rules), the caps on the length of
  notes, the link back from the session, the SQLite twin.
* In `WorkSession`: evidence rows, logged decisions, the automatic outcome of `finish_work` (it is in `Outcome`), `current_task_id`, contexts, the other three
  detection rules, `WriteAutoApplied`, the SQLite twin. That a call returns: no call waits for another between its statements.
* In `Background`: the rate limits, what the goroutines write, a panic in one (recovered and logged, except in
  `autolog_handler.go`'s `maybeClassifyAsync`, whose goroutine recovers nothing), the scheduler's and the bot's own stop.
* The connection pool is modelled for proposals only.
* Components without a module are listed with the reason in `PROJECT.json`: text processing, external
  clients, generated code, read-only assembly, float arithmetic, or single statements with nothing to interleave.

## 7. Plan

Done, in this order: `TaskStore`; `ProposalPromise` and `ProposalConfirm`; `Deletion`; `OutcomeLedger` and `Outcome`; `WorkSession`;
`Background`; and the theorems of section 5. What would add most next:

1. `Deletion`: the rows that refer to tasks and projects, their pre-locks in table order and the cleanups, with the theorem that no
   reference to a deleted task survives a commit, and that every call returns with `DeadlockVictim` enabled by a cycle of waits only.
2. `TaskStore` composed with `WorkSession`: one module of task rows under both, in place of `WriteTask`.
3. The supervisor of the local server, if the operating system's file locks are specified first.

Each module is written to be proved about: parameters are constants with named assumptions, one action per
statement, invariants of named conjuncts, no recursive operator. The runs stay few: each further component
gets one run for its safety and liveness together.
