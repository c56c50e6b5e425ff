------------------------------ MODULE TaskStore ------------------------------
(***************************************************************************)
(* The task half of internal/gtd: every path that writes a row of the      *)
(* tasks table, at the granularity of the SQL statements it issues.  A     *)
(* caller (an MCP tool call or an HTTP request) reads, decides in Go and   *)
(* writes in separate statements, so any other caller can run in between;  *)
(* only begin_task opens a transaction around its write.                   *)
(*                                                                         *)
(* The model is of the Postgres backend.  A row lock held by an open       *)
(* transaction blocks the statements that would write the row; a blocked   *)
(* statement re-evaluates its WHERE clause on the committed row, so it is  *)
(* an action that is enabled when the lock is free.  Readers never block.  *)
(***************************************************************************)
EXTENDS Naturals, FiniteSets

CONSTANTS
  Caller,      \* concurrent tool calls / requests
  Task,        \* task ids
  Actor,       \* canonical actors of actorRegistry
  WideBlank,   \* texts strings.TrimSpace empties and the SQL TRIM(x) does not (a tab)
  PRUrl,       \* GitHub pull request URLs
  CommitSHA,   \* 40-hex commit ids
  OtherText,   \* artifact texts that are neither, the empty text included
  NoActor,     \* NULL, the empty string, or ASCII spaces only
  NoArtifact,  \* NULL in artifact / pr_url: an omitted artifact, a cleared pr_url
  Keep,        \* a nil field of UpdateTaskParams
  AnyStatus,   \* no expectation: UpdateTaskStatus rather than its Guarded form
  Ops,         \* the operations a model lets callers start
  MaxCalls     \* bound on the number of calls started

VARIABLES
  tasks,       \* the committed rows
  lock,        \* per row, the caller whose open transaction holds it
  startLog,    \* per task, committed work_session_started rows of activity_log
  call,        \* per caller, the call it is executing or has just finished
  calls        \* calls started so far

vars == <<tasks, lock, startLog, call, calls>>

Nobody == "nobody"

ASSUME NobodyAssumption == Nobody \notin Caller
(* The empty text is not in actorRegistry. *)
ASSUME NoActorAssumption == NoActor \notin Actor
(* A missing artifact is no artifact, a missing expectation no status. *)
ASSUME NoArtifactAssumption == NoArtifact \notin PRUrl \cup CommitSHA \cup OtherText
ASSUME AnyStatusAssumption == AnyStatus \notin {"pending", "in_progress", "completed", "cancelled"}
ASSUME MaxCallsAssumption == MaxCalls \in Nat

Statuses == {"pending", "in_progress", "completed", "cancelled"}

Assignees == Actor \cup WideBlank \cup {NoActor}

Artifacts == PRUrl \cup CommitSHA \cup OtherText

(* A row; "unborn" and "deleted" stand for an id with no row. *)
Rows == [status      : Statuses \cup {"unborn", "deleted"},
         assignee    : Assignees,
         artifact    : Artifacts \cup {NoArtifact},
         pr_url      : PRUrl \cup {NoArtifact},
         commit_shas : SUBSET CommitSHA]

Exists(t) == tasks[t].status \in Statuses

(* gtd.UpdateTaskParams: a field is a new value or nil (Keep). *)
UpdateTaskParams == [status   : Statuses \cup {Keep},
                     assignee : Actor \cup {NoActor, Keep},
                     pr_url   : PRUrl \cup {NoArtifact, Keep},
                     sha      : CommitSHA \cup {Keep}]

Nil == [status |-> Keep, assignee |-> Keep, pr_url |-> Keep, sha |-> Keep]

(* RequireAssigneeForInProgress: strings.TrimSpace(assignee) == "". *)
Blank(a) == a \notin Actor

RequireAssigneeForInProgress(a, s) == s = "in_progress" => ~Blank(a)

(* COALESCE(NULLIF(TRIM(assignee), ''), ...): the batch marks' own test. *)
TrimmedBlank(a) == a = NoActor

OpNames == {"set_task_status", "update_task_status", "update_task", "complete_task",
            "begin_task", "reconcile_merged_prs"}

PCs == {"idle", "done",
        "set_read", "guard_read", "guard_write", "guard_reread",
        "gate", "upd_read", "upd_write",
        "complete",
        "begin_read", "begin_guard", "begin_resolve", "begin_log", "begin_commit",
        "pr_update", "pr_log"}

Results == {"none", "ok", "not_found", "assignee_required", "conflict", "error"}

Calls == [op       : OpNames \cup {"none"},
          pc       : PCs,
          t        : Task \cup {"none"},          \* the task the call is about
          want     : Statuses,                    \* set_task_status: target
          expected : Statuses \cup {AnyStatus},   \* set_task_status: validated status
          params   : UpdateTaskParams,
          snap     : Rows,                        \* UpdateTask: params merged into the row it read
          linkage  : PRUrl \cup {Keep},           \* begin_task: pr_url to persist last
          begun    : BOOLEAN,                     \* begin_task: BeginTask has returned
          art      : Artifacts \cup {NoArtifact},
          todo     : SUBSET Task,                 \* reconcile: matches not yet applied
          applied  : SUBSET Task,                 \* reconcile: the tasks it closed and logs
          result   : Results]

NewRow(a) == [status |-> "pending", assignee |-> a, artifact |-> NoArtifact,
              pr_url |-> NoArtifact, commit_shas |-> {}]

Unborn == [NewRow(NoActor) EXCEPT !.status = "unborn"]

Idle == [op |-> "none", pc |-> "idle", t |-> "none", want |-> "pending",
         expected |-> AnyStatus, params |-> Nil, snap |-> Unborn, linkage |-> Keep,
         begun |-> FALSE, art |-> NoArtifact, todo |-> {}, applied |-> {}, result |-> "none"]

Init ==
  /\ tasks = [t \in Task |-> Unborn]
  /\ lock = [t \in Task |-> Nobody]
  /\ startLog = [t \in Task |-> 0]
  /\ call = [c \in Caller |-> Idle]
  /\ calls = 0

------------------------------------------------------------------------------
(* Shared steps *)

Row(c) == tasks[call[c].t]

Start(c, record) ==
  /\ call[c].pc \in {"idle", "done"}
  /\ record.op \in Ops
  /\ calls < MaxCalls
  /\ calls' = calls + 1
  /\ call' = [call EXCEPT ![c] = record]
  /\ UNCHANGED <<tasks, lock, startLog>>

(* What a call leaves behind: its result and, of reconcile, what it applied. *)
Finished(c, r) == [Idle EXCEPT !.pc = "done", !.applied = call[c].applied, !.result = r]

Return(c, r) == call' = [call EXCEPT ![c] = Finished(c, r)]

Goto(c, pc) == call' = [call EXCEPT ![c].pc = pc]

NoWrite == UNCHANGED <<tasks, lock, startLog, calls>>

(* A statement that may write the row waits for the row lock. *)
Unlocked(t) == lock[t] = Nobody

UpdateRow(t, row) == tasks' = [tasks EXCEPT ![t] = row]

OnlyTasks == UNCHANGED <<lock, startLog, calls>>

------------------------------------------------------------------------------
(* set_task_status: read, validate, compare-and-set on the validated status. *)

(* allowedTransitions: every status to every other one. *)
AllowedTransition(from, to) == from # to

CallSetTaskStatus(c, t, s) ==
  Start(c, [Idle EXCEPT !.op = "set_task_status", !.pc = "set_read", !.t = t, !.want = s])

(* Store.UpdateTaskStatus, which expects no particular status. *)
CallUpdateTaskStatus(c, t, s) ==
  Start(c, [Idle EXCEPT !.op = "update_task_status", !.pc = "guard_read", !.t = t, !.want = s])

SetRead(c) ==
  /\ call[c].pc = "set_read"
  /\ NoWrite
  /\ \/ ~Exists(call[c].t) /\ Return(c, "not_found")
     \/ /\ Exists(call[c].t)
        /\ Row(c).status = call[c].want
        /\ Return(c, "ok")
     \/ /\ Exists(call[c].t)
        /\ AllowedTransition(Row(c).status, call[c].want)
        /\ call' = [call EXCEPT ![c].pc = "guard_read", ![c].expected = Row(c).status]

(* The fast-fail read, made for in_progress only. *)
GuardRead(c) ==
  /\ call[c].pc = "guard_read"
  /\ NoWrite
  /\ \/ call[c].want # "in_progress" /\ Goto(c, "guard_write")
     \/ /\ call[c].want = "in_progress"
        /\ ~Exists(call[c].t)
        /\ Return(c, "not_found")
     \/ /\ call[c].want = "in_progress"
        /\ Exists(call[c].t)
        /\ IF Blank(Row(c).assignee) THEN Return(c, "assignee_required")
                                     ELSE Goto(c, "guard_write")

(* Mutants: the guarded UPDATE without its assignee clause, without its status clause. *)
MutGuardNoAssignee(c) ==
  Exists(call[c].t) /\ call[c].expected \in {Row(c).status, AnyStatus}

MutGuardNoStatus(c) ==
  Exists(call[c].t) /\ RequireAssigneeForInProgress(Row(c).assignee, call[c].want)

(* WHERE id = ? AND status = expected AND (status <> in_progress OR btrim(assignee) <> ''). *)
GuardHolds(c) ==
  /\ Exists(call[c].t)
  /\ call[c].expected \in {Row(c).status, AnyStatus}
  /\ RequireAssigneeForInProgress(Row(c).assignee, call[c].want)

GuardWrite(c) ==
  /\ call[c].pc = "guard_write"
  /\ Unlocked(call[c].t)
  /\ \/ /\ GuardHolds(c)
        /\ UpdateRow(call[c].t, [Row(c) EXCEPT !.status = call[c].want])
        /\ Return(c, "ok")
        /\ OnlyTasks
     \/ ~GuardHolds(c) /\ Goto(c, "guard_reread") /\ NoWrite

(* No row matched: read again to name the reason, status drift before assignee. *)
RereadResult(c) ==
  IF ~Exists(call[c].t) THEN "not_found"
  ELSE IF call[c].expected \notin {Row(c).status, AnyStatus} THEN "conflict"
  ELSE IF ~RequireAssigneeForInProgress(Row(c).assignee, call[c].want) THEN "assignee_required"
  ELSE IF call[c].expected = AnyStatus THEN "not_found" ELSE "conflict"

GuardReread(c) ==
  /\ call[c].pc = "guard_reread"
  /\ Return(c, RereadResult(c))
  /\ NoWrite

------------------------------------------------------------------------------
(* update_task: read the row, merge in Go, write every column back.  The same *)
(* two statements serve complete_task and begin_task, below.                  *)

(* The MCP tool enters at its own check, PATCH /api/tasks/:id at the store. *)
CallUpdateTask(c, t, p, entry) ==
  Start(c, [Idle EXCEPT !.op = "update_task", !.pc = entry, !.t = t, !.params = p])

(* The tool's own check; it reads the row only when the call names no owner. *)
UpdateGate(c) ==
  /\ call[c].pc = "gate"
  /\ NoWrite
  /\ IF call[c].params.status # "in_progress" \/ call[c].params.assignee \in Actor
     THEN Goto(c, "upd_read")
     ELSE IF ~Exists(call[c].t) THEN Return(c, "not_found")
     ELSE IF Blank(Row(c).assignee) THEN Return(c, "assignee_required")
     ELSE Goto(c, "upd_read")

OrKept(new, old) == IF new = Keep THEN old ELSE new

(* Mutant: a nil status written as it is. *)
MutMergedStatusNil(p, existing) == p.status

(* mergeTaskUpdateFields and resolveAssigneeForUpdate. *)
MergedStatus(p, existing) == OrKept(p.status, existing.status)
MergedAssignee(p, existing) == OrKept(p.assignee, existing.assignee)

Merged(p, existing) ==
  [existing EXCEPT !.status   = MergedStatus(p, existing),
                   !.assignee = MergedAssignee(p, existing),
                   !.pr_url   = OrKept(p.pr_url, @)]

(* complete_task logs and drops a failed side effect: the task is completed. *)
UpdateFailed(c, r) ==
  Return(c, IF call[c].op = "complete_task" THEN "ok" ELSE r)

UpdateRead(c) ==
  LET merged == Merged(call[c].params, Row(c)) IN
  /\ call[c].pc = "upd_read"
  /\ NoWrite
  /\ IF ~Exists(call[c].t) THEN UpdateFailed(c, "not_found")
     ELSE IF ~RequireAssigneeForInProgress(merged.assignee, merged.status)
     THEN UpdateFailed(c, "assignee_required")
     ELSE call' = [call EXCEPT ![c].pc = "upd_write", ![c].snap = merged,
                               ![c].params = [Nil EXCEPT !.sha = call[c].params.sha]]

(* Mutant: the commit array merged in Go from the row that was read. *)
MutWrittenRowStaleShas(c) ==
  LET merged == call[c].snap
      sha == call[c].params.sha
  IN [Row(c) EXCEPT !.status      = merged.status,
                    !.assignee    = merged.assignee,
                    !.pr_url      = merged.pr_url,
                    !.commit_shas = IF sha = Keep THEN merged.commit_shas
                                    ELSE merged.commit_shas \cup {sha}]

(* Every column of the merged row, but artifact, which UPDATE leaves alone,  *)
(* and commit_shas, which SQL appends to in place.                            *)
WrittenRow(c) ==
  LET merged == call[c].snap
      sha == call[c].params.sha
  IN [Row(c) EXCEPT !.status      = merged.status,
                    !.assignee    = merged.assignee,
                    !.pr_url      = merged.pr_url,
                    !.commit_shas = IF sha = Keep THEN @ ELSE @ \cup {sha}]

(* begin_task persists the assignee first and goes on to begin the task. *)
AfterUpdate(c) ==
  IF call[c].op = "begin_task" /\ ~call[c].begun
  THEN call' = [call EXCEPT ![c].pc = "begin_read", ![c].params = Nil, ![c].snap = Unborn]
  ELSE Return(c, "ok")

UpdateWrite(c) ==
  /\ call[c].pc = "upd_write"
  /\ Unlocked(call[c].t)
  /\ \/ ~Exists(call[c].t) /\ UpdateFailed(c, "not_found") /\ NoWrite
     \/ /\ Exists(call[c].t)
        /\ UpdateRow(call[c].t, WrittenRow(c))
        /\ AfterUpdate(c)
        /\ OnlyTasks

------------------------------------------------------------------------------
(* complete_task: an unconditional write, then the artifact's side effect. *)

(* The MCP tool takes an empty artifact for an omitted one (NoArtifact); HTTP *)
(* passes it on, and the store writes it as the text it is.                   *)
CallCompleteTask(c, t, a) ==
  Start(c, [Idle EXCEPT !.op = "complete_task", !.pc = "complete", !.t = t, !.art = a])

ArtifactParams(a) ==
  IF a \in PRUrl THEN [Nil EXCEPT !.pr_url = a] ELSE [Nil EXCEPT !.sha = a]

(* Mutant: artifact written without COALESCE. *)
MutCompletedRowOverwrites(row, a) == [row EXCEPT !.status = "completed", !.artifact = a]

CompletedRow(row, a) ==
  [row EXCEPT !.status = "completed", !.artifact = IF a = NoArtifact THEN @ ELSE a]

(* Only a pull request URL or a commit id has a side effect. *)
AfterComplete(c) ==
  IF call[c].art \in PRUrl \cup CommitSHA
  THEN call' = [call EXCEPT ![c].pc = "upd_read", ![c].params = ArtifactParams(call[c].art)]
  ELSE Return(c, "ok")

CompleteTask(c) ==
  /\ call[c].pc = "complete"
  /\ Unlocked(call[c].t)
  /\ \/ ~Exists(call[c].t) /\ Return(c, "not_found") /\ NoWrite
     \/ /\ Exists(call[c].t)
        /\ UpdateRow(call[c].t, CompletedRow(Row(c), call[c].art))
        /\ AfterComplete(c)
        /\ OnlyTasks

------------------------------------------------------------------------------
(* begin_task: an optional assignee write, BeginTaskOrchestration, an optional *)
(* pr_url write.                                                               *)

CallBeginTask(c, t, a, u) ==
  Start(c, [Idle EXCEPT !.op = "begin_task", !.t = t, !.linkage = u,
                        !.pc = IF a = Keep THEN "begin_read" ELSE "upd_read",
                        !.params = [Nil EXCEPT !.assignee = a]])

(* persistBeginTaskLinkage, after BeginTask has returned the task. *)
AfterBegin(c) ==
  IF call[c].linkage = Keep THEN Return(c, "ok")
  ELSE call' = [call EXCEPT ![c].pc = "upd_read", ![c].begun = TRUE,
                            ![c].params = [Nil EXCEPT !.pr_url = call[c].linkage]]

(* ReadExisting, outside any transaction. *)
BeginRead(c) ==
  /\ call[c].pc = "begin_read"
  /\ NoWrite
  /\ IF ~Exists(call[c].t) THEN Return(c, "not_found")
     ELSE IF Row(c).status = "in_progress" THEN AfterBegin(c)
     ELSE IF Blank(Row(c).assignee) THEN Return(c, "assignee_required")
     ELSE Goto(c, "begin_guard")

(* Mutant: BeginTaskStatus without status <> 'in_progress'. *)
MutBeginGuardNoStatus(c) == Exists(call[c].t) /\ ~Blank(Row(c).assignee)

(* BeginTaskStatus' WHERE clause. *)
BeginGuard(c) ==
  /\ Exists(call[c].t)
  /\ Row(c).status # "in_progress"
  /\ ~Blank(Row(c).assignee)

(* BeginTx and GuardedUpdate: on success the row is written but uncommitted. *)
BeginGuardedUpdate(c) ==
  /\ call[c].pc = "begin_guard"
  /\ Unlocked(call[c].t)
  /\ IF BeginGuard(c)
     THEN /\ lock' = [lock EXCEPT ![call[c].t] = c]
          /\ Goto(c, "begin_log")
          /\ UNCHANGED <<tasks, startLog, calls>>
     ELSE Goto(c, "begin_resolve") /\ NoWrite

(* ResolveGuardBlocked: re-read outside the transaction to name the reason. *)
BeginResolve(c) ==
  /\ call[c].pc = "begin_resolve"
  /\ NoWrite
  /\ IF ~Exists(call[c].t) THEN Return(c, "not_found")
     ELSE IF Row(c).status = "in_progress" THEN AfterBegin(c)
     ELSE Return(c, IF Blank(Row(c).assignee) THEN "assignee_required" ELSE "not_found")

CreateActivityLog(c) ==
  /\ call[c].pc = "begin_log"
  /\ Goto(c, "begin_commit")
  /\ NoWrite

(* The row and its activity_log row become visible together. *)
BeginCommit(c) ==
  /\ call[c].pc = "begin_commit"
  /\ UpdateRow(call[c].t, [Row(c) EXCEPT !.status = "in_progress"])
  /\ startLog' = [startLog EXCEPT ![call[c].t] = @ + 1]
  /\ lock' = [lock EXCEPT ![call[c].t] = Nobody]
  /\ AfterBegin(c)
  /\ UNCHANGED calls

------------------------------------------------------------------------------
(* reconcile_merged_prs: the preview matched open tasks, the confirming call  *)
(* applies the matches one by one.  applyOnePRMatch runs its UPDATE on the    *)
(* pool (s.dbtx), where it commits at once; the activity_log rows are the     *)
(* transaction's.  The order of the matches is left open.                     *)

CallReconcile(c, matches) ==
  /\ \A t \in matches : tasks[t].status \in {"pending", "in_progress"}
  /\ Start(c, [Idle EXCEPT !.op = "reconcile_merged_prs", !.pc = "pr_update", !.todo = matches])

(* Mutant: the guard of the code before the confirm window was closed. *)
MutOpenForPR(t) == Exists(t) /\ tasks[t].status # "completed"

OpenForPR(t) == tasks[t].status \in {"pending", "in_progress"}

ApplyOnePRMatch(c, t, u) ==
  /\ call[c].pc = "pr_update"
  /\ t \in call[c].todo
  /\ Unlocked(t)
  /\ \/ /\ OpenForPR(t)
        /\ UpdateRow(t, [tasks[t] EXCEPT !.status = "completed", !.artifact = u, !.pr_url = u])
        /\ call' = [call EXCEPT ![c].pc = "pr_log", ![c].t = t,
                                ![c].todo = @ \ {t}, ![c].applied = @ \cup {t}]
        /\ OnlyTasks
     \/ /\ ~OpenForPR(t)
        /\ call' = [call EXCEPT ![c].todo = @ \ {t}]
        /\ NoWrite

PRLog(c) ==
  /\ call[c].pc = "pr_log"
  /\ Goto(c, "pr_update")
  /\ NoWrite

PRCommit(c) ==
  /\ call[c].pc = "pr_update"
  /\ call[c].todo = {}
  /\ Return(c, "ok")
  /\ NoWrite

------------------------------------------------------------------------------
(* Mutant: no deferred Rollback. *)
MutStoreErrorKeepsLock(c) ==
  /\ call[c].pc \notin {"idle", "done"}
  /\ IF call[c].pc \in {"upd_read", "upd_write"}
     THEN UpdateFailed(c, "error") ELSE Return(c, "error")
  /\ NoWrite

(* A statement, a commit or the connection fails: the transaction rolls back *)
(* and the call reports the error.                                           *)
StoreError(c) ==
  /\ call[c].pc \notin {"idle", "done"}
  /\ lock' = [t \in Task |-> IF lock[t] = c THEN Nobody ELSE lock[t]]
  /\ IF call[c].pc \in {"upd_read", "upd_write"}
     THEN UpdateFailed(c, "error") ELSE Return(c, "error")
  /\ UNCHANGED <<tasks, startLog, calls>>

------------------------------------------------------------------------------
(* Single statements of other components that write task rows. *)

(* CreateTask normalises a named actor and stores any other blank text as is. *)
CreateTask(t, a) ==
  /\ tasks[t].status = "unborn"
  /\ UpdateRow(t, NewRow(a))
  /\ OnlyTasks /\ UNCHANGED call

(* DELETE of the row, at the commit of delete_task or delete_project. *)
DeleteTaskRow(t) ==
  /\ Exists(t)
  /\ Unlocked(t)
  /\ UpdateRow(t, [Unborn EXCEPT !.status = "deleted"])
  /\ OnlyTasks /\ UNCHANGED call

(* Mutant: the batch mark without its assignee clause. *)
MutMarkable(t, sessionAssignee) == tasks[t].status = "pending"

(* worksession.batchMarkTasksInProgress, start_work's way into in_progress: *)
(* one UPDATE over the linked tasks, its own blank test, no Go gate.         *)
Markable(t, sessionAssignee) ==
  /\ tasks[t].status = "pending"
  /\ ~TrimmedBlank(tasks[t].assignee) \/ sessionAssignee # NoActor

MarkInProgress(ts, sessionAssignee) ==
  LET rows == {t \in ts : Markable(t, sessionAssignee)}
  IN /\ \A t \in rows : Unlocked(t)
     /\ tasks' = [t \in Task |->
          IF t \notin rows THEN tasks[t]
          ELSE [tasks[t] EXCEPT !.status = "in_progress",
                  !.assignee = IF TrimmedBlank(@) THEN sessionAssignee ELSE @]]
     /\ OnlyTasks /\ UNCHANGED call

(* worksession.batchMarkTasksCompleted, by finish_work. *)
MarkCompleted(ts, a) ==
  LET rows == {t \in ts : Exists(t) /\ tasks[t].status \notin {"completed", "cancelled"}}
  IN /\ \A t \in rows : Unlocked(t)
     /\ tasks' = [t \in Task |-> IF t \in rows THEN CompletedRow(tasks[t], a) ELSE tasks[t]]
     /\ OnlyTasks /\ UNCHANGED call

------------------------------------------------------------------------------
(* The statuses update_task accepts: completed goes through complete_task. *)
UpdatableStatuses == {"pending", "in_progress", "cancelled"}

(* A patch names a status, an assignee or both, or the pr_url, which is merged *)
(* by itself and decides nothing.                                              *)
Patches ==
  {p \in UpdateTaskParams :
     /\ p.status \in UpdatableStatuses \cup {Keep}
     /\ p.sha = Keep
     /\ p.pr_url = Keep \/ (p.status = Keep /\ p.assignee = Keep)}

Begins(c) ==
  \E t \in Task :
    \/ \E s \in Statuses : CallSetTaskStatus(c, t, s) \/ CallUpdateTaskStatus(c, t, s)
    \/ \E p \in Patches, entry \in {"gate", "upd_read"} : CallUpdateTask(c, t, p, entry)
    \/ \E a \in Artifacts \cup {NoArtifact} : CallCompleteTask(c, t, a)
    \/ \E a \in Actor \cup {Keep}, u \in PRUrl \cup {Keep} : CallBeginTask(c, t, a, u)

Step(c) ==
  \/ SetRead(c) \/ GuardRead(c) \/ GuardWrite(c) \/ GuardReread(c)
  \/ UpdateGate(c) \/ UpdateRead(c) \/ UpdateWrite(c)
  \/ CompleteTask(c)
  \/ BeginRead(c) \/ BeginGuardedUpdate(c) \/ BeginResolve(c)
  \/ CreateActivityLog(c) \/ BeginCommit(c)
  \/ \E t \in Task, u \in PRUrl : ApplyOnePRMatch(c, t, u)
  \/ PRLog(c) \/ PRCommit(c)

Background ==
  \/ \E t \in Task : (\E a \in Assignees : CreateTask(t, a)) \/ DeleteTaskRow(t)
  \/ \E ts \in SUBSET Task :
       \/ \E a \in Actor \cup {NoActor} : MarkInProgress(ts, a)
       \/ \E a \in Artifacts \cup {NoArtifact} : MarkCompleted(ts, a)

Next ==
  \/ \E c \in Caller :
       \/ Begins(c)
       \/ \E matches \in SUBSET Task : CallReconcile(c, matches)
       \/ Step(c)
       \/ StoreError(c)
  \/ Background

Spec == Init /\ [][Next]_vars

(* A call keeps running, and Postgres serves the waiters of a row lock in   *)
(* turn, so a statement that is enabled again and again is executed.        *)
FairSpec == Spec /\ \A c \in Caller : SF_vars(Step(c))

------------------------------------------------------------------------------
(* Properties *)

TypeOK ==
  /\ tasks \in [Task -> Rows]
  /\ lock \in [Task -> Caller \cup {Nobody}]
  /\ startLog \in [Task -> Nat]
  /\ call \in [Caller -> Calls]
  /\ calls \in Nat

Unowned(t) == tasks[t].status = "in_progress" /\ Blank(tasks[t].assignee)

(* RequireAssigneeForInProgress, over every way a row is written.  A stale    *)
(* merge, an assignee cleared between a read and a write, two begins at once  *)
(* and the batch mark leave no task in progress without an owner, with one    *)
(* exception: the batch mark starts a pending task whose stored assignee only *)
(* TrimSpace empties.                                                         *)
StartsOwned ==
  [][\A t \in Task : Unowned(t)' =>
       \/ Unowned(t)
       \/ /\ tasks[t].status = "pending"
          /\ tasks[t].assignee \in WideBlank
          /\ tasks'[t].assignee = tasks[t].assignee]_vars

(* begin_task: a work_session_started row appears only in the step that moves *)
(* the task into in_progress, and one at most, however many callers begin it. *)
StartLoggedOnce ==
  [][\A t \in Task : startLog'[t] # startLog[t] =>
       /\ startLog'[t] = startLog[t] + 1
       /\ tasks[t].status \in Statuses \ {"in_progress"}
       /\ tasks'[t].status = "in_progress"]_vars

Alive(t) == Exists(t) /\ Exists(t)'

(* Commit ids are appended in SQL: none is lost to a concurrent merge (P7). *)
NoCommitLost ==
  [][\A t \in Task : Alive(t) => tasks[t].commit_shas \subseteq tasks'[t].commit_shas]_vars

(* A recorded artifact is replaced only by an artifact, never by NULL, and    *)
(* only by a completion that supplies it: complete_task with that text (an    *)
(* empty one that HTTP passes on counts, and takes the link away), or the     *)
(* completion of a task that was still open.  Reopening, a stale merge or a   *)
(* completion without an artifact change none.                                *)
ArtifactKept ==
  [][\A t \in Task : Alive(t) /\ tasks[t].artifact \notin {NoArtifact, tasks'[t].artifact} =>
       /\ tasks'[t].artifact # NoArtifact
       /\ tasks'[t].status = "completed"
       /\ \/ tasks[t].status \in {"pending", "in_progress"}
          \/ \E c \in Caller : /\ call[c].pc = "complete"
                               /\ call[c].t = t
                               /\ call[c].art = tasks'[t].artifact]_vars

(* set_task_status writes only over the status it read and validated, so a  *)
(* status another caller has set since is never overwritten unseen.         *)
SetOnlyOverValidated ==
  [][\A c \in Caller :
       LET t == call[c].t IN
       /\ call[c].op = "set_task_status"
       /\ call[c].pc = "guard_write"
       /\ call'[c].pc = "done" /\ call'[c].result = "ok"
       => tasks[t].status = call[c].expected]_vars

(* reconcile_merged_prs reports (and audits) as applied exactly the tasks it  *)
(* moved from open to completed: one cancelled or completed since the preview *)
(* keeps its row.                                                             *)
AppliedMeansClosedHere ==
  [][\A c \in Caller : \A t \in call'[c].applied \ call[c].applied :
       /\ tasks[t].status \in {"pending", "in_progress"}
       /\ tasks'[t].status = "completed"]_vars

(* No call waits forever on a row another transaction holds: whatever runs   *)
(* ends, so each caller is between calls again and again.                    *)
EveryCallReturns ==
  \A c \in Caller : []<>(call[c].pc \in {"idle", "done"})

(* The inductive invariant.  While begin_task's transaction is open it holds  *)
(* the row, which is still startable; an update about to write has checked    *)
(* the owner of the row it merged; every row in progress has an assignee text *)
(* that the SQL TRIM leaves something of.                                     *)
InTx == {"begin_log", "begin_commit"}

(* A row lock belongs to a begin_task of that row between its UPDATE and its  *)
(* commit, where it waits for nothing: a wait for a row has an end.           *)
LocksInTx ==
  \A t \in Task : lock[t] # Nobody => call[lock[t]].pc \in InTx /\ call[lock[t]].t = t

CallInv(c, r) ==
  /\ r \in Calls
  /\ r.pc \notin {"idle", "done", "pr_update"} => r.t \in Task
  /\ r.pc \in InTx => /\ lock[r.t] = c
                      /\ tasks[r.t].status \in Statuses \ {"in_progress"}
                      /\ ~Blank(tasks[r.t].assignee)
  /\ r.pc = "upd_write" =>
       RequireAssigneeForInProgress(r.snap.assignee, r.snap.status)

RowInv(row) ==
  /\ row \in Rows
  /\ row.status = "in_progress" => ~TrimmedBlank(row.assignee)

TaskStoreInv ==
  /\ TypeOK
  /\ \A t \in Task : RowInv(tasks[t])
  /\ \A c \in Caller : CallInv(c, call[c])

(* The two statements below are made by the code's comments. *)

(* "TRIM(assignee) matches gtd.RequireAssigneeForInProgress's                *)
(* strings.TrimSpace, so a whitespace-only assignee ... is treated as empty  *)
(* here too - no divergence": a task in progress has an owner.               *)
InProgressOwned ==
  \A t \in Task : ~Unowned(t)

(* "Runs inside a single transaction so a partial auto-close cannot leave   *)
(* half the matches done": a reconcile call that fails has closed no task.  *)
PRBatchAllOrNothing ==
  \A c \in Caller :
    call[c].result = "error" => call[c].applied = {}

==============================================================================
