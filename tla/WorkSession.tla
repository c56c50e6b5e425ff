------------------------------ MODULE WorkSession ------------------------------
(***************************************************************************)
(* Work sessions, the tasks linked to them and the completion candidates   *)
(* that detection derives from both: start_work, begin_task's attachment,  *)
(* checkpoint_work, finish_work and detect_completion_candidates, one      *)
(* action per SQL statement or committed transaction (Postgres).  No call  *)
(* holds anything between its statements: the session is committed first,  *)
(* its tasks are marked afterwards, by statements that may fail.           *)
(*                                                                         *)
(* What else writes a task row is in TaskStore; here it is one action that *)
(* respects what TaskStore proves, an owner for every task it starts.  The *)
(* texts on which the blank tests differ are TaskStore's and are left out. *)
(* Texts, evidence, decisions and outcome links are not represented; of    *)
(* the detection rules only the one that joins sessions is.                *)
(***************************************************************************)
EXTENDS Naturals, FiniteSets

CONSTANTS
  Caller,       \* concurrent tool calls
  Repo,         \* repository names
  Task,         \* task ids
  MaxSessions,  \* bound on the sessions created
  MaxCalls      \* bound on the number of calls started

ASSUME BoundsAssumption == MaxSessions \in Nat /\ MaxCalls \in Nat
ASSUME RepoAssumption == Repo # {}

VARIABLES
  sessions,     \* work_sessions, by order of creation
  links,        \* work_session_tasks
  tasks,        \* status and ownership of the tasks
  gaps,         \* tasks with a pending finish_work_gap candidate
  marked,       \* per session, the completing statements run for it
  call,         \* per caller, the call it is executing or has just finished
  calls         \* calls started so far

vars == <<sessions, links, tasks, gaps, marked, call, calls>>

Session == 1..MaxSessions

Sessions == [status : {"none", "in_progress", "checkpointed", "completed"}, repo : Repo]

\* A deleted task keeps its row: the tombstone restore_project writes back.
Tasks == [status : {"pending", "in_progress", "completed", "cancelled"}, owned : BOOLEAN,
          life : {"first", "deleted", "restored"}]

Calls == [pc       : {"idle", "assign", "begin", "create", "mark", "active", "link",
                      "finish", "linked", "complete", "scan", "upsert"},
          kind     : {"none", "start", "begin", "finish", "detect"},
          repo     : Repo,
          todo     : SUBSET Task,   \* tasks to link, mark or report
          deferred : SUBSET Task,   \* finish_work: deferred_task_ids
          all      : BOOLEAN,       \* finish_work: complete_all_linked_tasks
          owner    : BOOLEAN,       \* the call names an assignee
          s        : 0..MaxSessions]

Idle == [pc |-> "idle", kind |-> "none", repo |-> CHOOSE r \in Repo : TRUE, todo |-> {}, deferred |-> {},
         all |-> FALSE, owner |-> FALSE, s |-> 0]

Init ==
  /\ sessions = [s \in Session |-> [status |-> "none", repo |-> Idle.repo]]
  /\ links = {}
  /\ tasks \in [Task -> {[status |-> "pending", owned |-> o, life |-> "first"] : o \in BOOLEAN}]
  /\ gaps = {}
  /\ marked = [s \in Session |-> 0]
  /\ call = [c \in Caller |-> Idle]
  /\ calls = 0

Alive(t) == tasks[t].life # "deleted"
Active(s, r) == sessions[s] = [status |-> "in_progress", repo |-> r]

Begin(c, record) ==
  /\ call[c].pc = "idle"
  /\ calls < MaxCalls
  /\ calls' = calls + 1
  /\ call' = [call EXCEPT ![c] = record]
  /\ UNCHANGED <<sessions, links, tasks, gaps, marked>>

Goto(c, pc) == call' = [call EXCEPT ![c].pc = pc]

Return(c) == call' = [call EXCEPT ![c] = [Idle EXCEPT !.kind = call[c].kind]]

------------------------------------------------------------------------------
(* start_work, confirm_plan's session and begin_task's *)

StartWork(c) ==
  \E r \in Repo, ts \in SUBSET Task, o \in BOOLEAN :
    Begin(c, [Idle EXCEPT !.pc = "create", !.kind = "start", !.repo = r, !.todo = ts, !.owner = o])

(* persistAssigneeBeforeBegin comes first when the call names an assignee. *)
BeginTask(c) ==
  \E r \in Repo, t \in Task, o \in BOOLEAN :
    Begin(c, [Idle EXCEPT !.pc = IF o THEN "assign" ELSE "begin", !.kind = "begin",
                          !.repo = r, !.todo = {t}, !.owner = o])

PersistAssignee(c) ==
  /\ call[c].pc = "assign"
  /\ \E t \in call[c].todo :
       \/ Alive(t) /\ tasks' = [tasks EXCEPT ![t].owned = TRUE] /\ Goto(c, "begin")
       \/ ~Alive(t) /\ Return(c) /\ UNCHANGED tasks
  /\ UNCHANGED <<sessions, links, gaps, marked, calls>>

(* gtd.BeginTask, whose statements are TaskStore's: any owned task starts. *)
BeginOwned(c) ==
  /\ call[c].pc = "begin"
  /\ \E t \in call[c].todo :
       \/ /\ Alive(t) /\ tasks[t].owned
          /\ tasks' = [tasks EXCEPT ![t].status = "in_progress"]
          /\ Goto(c, "create")
       \/ ~(Alive(t) /\ tasks[t].owned) /\ Return(c) /\ UNCHANGED tasks
  /\ UNCHANGED <<sessions, links, gaps, marked, calls>>

(* Mutant: the unique index is missing. *)
MutFree(r) == TRUE

(* idx_work_sessions_one_active *)
Free(r) == \A s \in Session : ~Active(s, r)

(* Mutant: no link to a session that is not active, and no error either. *)
MutLinked(s, ts) ==
  IF sessions[s].status \in {"none", "in_progress"} THEN links \cup ({s} \X ts) ELSE links

(* INSERT .. ON CONFLICT DO NOTHING *)
Linked(s, ts) == links \cup ({s} \X ts)

(* Create's transaction: the row and its links, or ErrAlreadyActive, on which *)
(* begin_task looks for the active session.                                   *)
Create(c) ==
  LET r == call[c].repo
      New(s) == sessions[s].status = "none" /\ \A q \in Session : q < s => sessions[q].status # "none"
  IN
  /\ call[c].pc = "create"
  /\ \/ \E s \in Session :
          /\ Free(r) /\ New(s)
          /\ sessions' = [sessions EXCEPT ![s] = [status |-> "in_progress", repo |-> r]]
          /\ links' = Linked(s, call[c].todo)
          /\ IF call[c].todo = {} THEN Return(c)
             ELSE call' = [call EXCEPT ![c].pc = "mark", ![c].s = s]
     \/ ~Free(r) /\ call[c].kind = "start" /\ Return(c) /\ UNCHANGED <<sessions, links>>
     \/ ~Free(r) /\ call[c].kind = "begin" /\ Goto(c, "active") /\ UNCHANGED <<sessions, links>>
  /\ UNCHANGED <<tasks, gaps, marked, calls>>

(* Mutant: the mark without status = 'pending'. *)
MutMarkable(t, owner) == Alive(t) /\ (tasks[t].owned \/ owner)

(* WHERE of batchMarkTasksInProgress *)
Markable(t, owner) == Alive(t) /\ tasks[t].status = "pending" /\ (tasks[t].owned \/ owner)

(* The answer names the session: s stays in the finished call. *)
ReturnSession(c, s) == call' = [call EXCEPT ![c] = [call[c] EXCEPT !.pc = "idle", !.s = s]]

(* Best effort: the error is logged. *)
MarkInProgress(c) ==
  LET rows == {t \in call[c].todo : Markable(t, call[c].owner)} IN
  /\ call[c].pc = "mark"
  /\ \/ tasks' = [t \in Task |-> IF t \in rows THEN [tasks[t] EXCEPT !.status = "in_progress", !.owned = @ \/ call[c].owner]
                                ELSE tasks[t]]
     \/ UNCHANGED tasks
  /\ ReturnSession(c, call[c].s)
  /\ UNCHANGED <<sessions, links, gaps, marked, calls>>

(* Mutant: no active session is not told from an active one. *)
MutGetActive(c) ==
  /\ call[c].pc = "active"
  /\ \/ \E s \in Session : Active(s, call[c].repo) /\ call' = [call EXCEPT ![c].pc = "link", ![c].s = s]
     \/ Free(call[c].repo) /\ Goto(c, "link")
  /\ UNCHANGED <<sessions, links, tasks, gaps, marked, calls>>

(* GetActive after ErrAlreadyActive *)
GetActive(c) ==
  /\ call[c].pc = "active"
  /\ \/ \E s \in Session : Active(s, call[c].repo) /\ call' = [call EXCEPT ![c].pc = "link", ![c].s = s]
     \/ Free(call[c].repo) /\ Return(c)
  /\ UNCHANGED <<sessions, links, tasks, gaps, marked, calls>>

LinkTask(c) ==
  /\ call[c].pc = "link"
  /\ links' = Linked(call[c].s, call[c].todo)
  /\ ReturnSession(c, call[c].s)
  /\ UNCHANGED <<sessions, tasks, gaps, marked, calls>>

------------------------------------------------------------------------------
(* checkpoint_work and finish_work *)

(* Mutant: a session already completed is found. *)
MutUnfinished(s) == sessions[s].status # "none"

(* WHERE of Checkpoint's and Finish's UPDATE *)
Unfinished(s) == sessions[s].status \in {"in_progress", "checkpointed"}

(* One statement, so one action; a session in another status is not found. *)
Checkpoint(s) ==
  /\ Unfinished(s)
  /\ sessions' = [sessions EXCEPT ![s].status = "checkpointed"]
  /\ UNCHANGED <<links, tasks, gaps, marked, call, calls>>

FinishWork(c) ==
  \E s \in Session, done \in SUBSET Task, later \in SUBSET Task, all \in BOOLEAN :
    Begin(c, [Idle EXCEPT !.pc = "finish", !.kind = "finish", !.s = s, !.todo = done,
                          !.deferred = later, !.all = all])

(* What is left to complete; when it is empty the call returns. *)
Resolved(c, ts) ==
  IF ts = {} THEN Return(c) ELSE call' = [call EXCEPT ![c].pc = "complete", ![c].todo = ts]

(* ResolveCompletedTaskIDs over the tasks linked to the session *)
LinkedTo(c) == {t \in Task : <<call[c].s, t>> \in links} \ call[c].deferred

Finish(c) ==
  LET s == call[c].s IN
  /\ call[c].pc = "finish"
  /\ \/ /\ Unfinished(s)
        /\ sessions' = [sessions EXCEPT ![s].status = "completed"]
        /\ IF call[c].todo = {} /\ call[c].all THEN Goto(c, "linked")
           ELSE Resolved(c, call[c].todo \ call[c].deferred)
     \/ ~Unfinished(s) /\ Return(c) /\ UNCHANGED sessions
  /\ UNCHANGED <<links, tasks, gaps, marked, calls>>

(* LinkedTasks; on an error no task is completed. *)
ReadLinked(c) ==
  /\ call[c].pc = "linked"
  /\ Resolved(c, LinkedTo(c)) \/ Return(c)
  /\ UNCHANGED <<sessions, links, tasks, gaps, marked, calls>>

(* WHERE of batchMarkTasksCompleted *)
Completable(t) == Alive(t) /\ tasks[t].status \notin {"completed", "cancelled"}

(* batchMarkTasksCompleted: its error is dropped, and the ids asked for are  *)
(* answered in any case.                                                     *)
MarkCompleted(c) ==
  /\ call[c].pc = "complete"
  /\ \/ tasks' = [t \in Task |-> IF t \in call[c].todo /\ Completable(t)
                                 THEN [tasks[t] EXCEPT !.status = "completed"] ELSE tasks[t]]
     \/ UNCHANGED tasks
  /\ marked' = [marked EXCEPT ![call[c].s] = @ + 1]
  /\ Return(c)
  /\ UNCHANGED <<sessions, links, gaps, calls>>

------------------------------------------------------------------------------
(* detect_completion_candidates, rule 2 *)

DetectGaps(c) == Begin(c, [Idle EXCEPT !.pc = "scan", !.kind = "detect"])

(* Mutant: the join forgets the status of the session. *)
MutGap(t) == Alive(t) /\ tasks[t].status \in {"pending", "in_progress"} /\ \E s \in Session : <<s, t>> \in links

(* A task still open although a session it is linked to is completed. *)
Gap(t) ==
  /\ Alive(t) /\ tasks[t].status \in {"pending", "in_progress"}
  /\ \E s \in Session : <<s, t>> \in links /\ sessions[s].status = "completed"

Found(c, ts) ==
  IF ts = {} THEN Return(c) ELSE call' = [call EXCEPT ![c].pc = "upsert", ![c].todo = ts]

Scan(c) ==
  /\ call[c].pc = "scan"
  /\ Found(c, {t \in Task : Gap(t)})
  /\ UNCHANGED <<sessions, links, tasks, gaps, marked, calls>>

(* UpsertCandidate, row by row, whatever the task has become. *)
Upsert(c) ==
  /\ call[c].pc = "upsert"
  /\ \E t \in call[c].todo : gaps' = gaps \cup {t} /\ Found(c, call[c].todo \ {t})
  /\ UNCHANGED <<sessions, links, tasks, marked, calls>>

------------------------------------------------------------------------------
(* A statement fails and the call gives up, or the server stops. *)
Abort(c) ==
  /\ call[c].pc # "idle"
  /\ call' = [call EXCEPT ![c] = Idle]
  /\ UNCHANGED <<sessions, links, tasks, gaps, marked, calls>>

(* Everything else that writes a task: status changes, completion, owners. *)
WriteTask(t) ==
  /\ Alive(t)
  /\ \E new \in Tasks :
       /\ new.life = tasks[t].life /\ (new.status = "in_progress" => new.owned)
       /\ tasks' = [tasks EXCEPT ![t] = new]
  /\ UNCHANGED <<sessions, links, gaps, marked, call, calls>>

(* delete_task, or delete_project for its tasks: the cascade removes the links *)
(* and the candidates.                                                         *)
DeleteTask(t) ==
  /\ Alive(t)
  /\ tasks' = [tasks EXCEPT ![t].life = "deleted"]
  /\ links' = {l \in links : l[2] # t}
  /\ gaps' = gaps \ {t}
  /\ UNCHANGED <<sessions, marked, call, calls>>

(* restore_project writes the row back, without its links. *)
RestoreTask(t) ==
  /\ ~Alive(t)
  /\ tasks' = [tasks EXCEPT ![t].life = "restored"]
  /\ UNCHANGED <<sessions, links, gaps, marked, call, calls>>

Starts(c) == StartWork(c) \/ BeginTask(c) \/ FinishWork(c) \/ DetectGaps(c)

Step(c) ==
  \/ PersistAssignee(c) \/ BeginOwned(c) \/ Create(c) \/ MarkInProgress(c) \/ GetActive(c) \/ LinkTask(c)
  \/ Finish(c) \/ ReadLinked(c) \/ MarkCompleted(c)
  \/ Scan(c) \/ Upsert(c)

Next ==
  \/ \E c \in Caller : Starts(c) \/ Step(c) \/ Abort(c)
  \/ \E s \in Session : Checkpoint(s)
  \/ \E t \in Task : WriteTask(t) \/ DeleteTask(t) \/ RestoreTask(t)

Spec == Init /\ [][Next]_vars

------------------------------------------------------------------------------
(* Properties *)

TypeOK ==
  /\ sessions \in [Session -> Sessions]
  /\ links \subseteq Session \X Task
  /\ tasks \in [Task -> Tasks]
  /\ gaps \subseteq Task
  /\ marked \in [Session -> Nat]
  /\ call \in [Caller -> Calls]
  /\ calls \in 0..MaxCalls

(* However many calls start, begin, checkpoint and finish at once, a repo has *)
(* at most one session in progress.                                           *)
OneActive == \A q, s \in Session, r \in Repo : Active(q, r) /\ Active(s, r) => q = s

(* The tasks of a session are completed on its behalf at most once, whatever  *)
(* finish_work calls race for it: the call that is to do it is the one whose  *)
(* statement completed the session.                                           *)
Finishing(c) == call[c].pc \in {"linked", "complete"}
MarkedOnce ==
  /\ \A s \in Session : marked[s] <= 1 /\ (marked[s] = 1 => sessions[s].status = "completed")
  /\ \A c \in Caller : Finishing(c) =>
       /\ call[c].s # 0
       /\ sessions[call[c].s].status = "completed" /\ marked[call[c].s] = 0
       /\ \A d \in Caller \ {c} : Finishing(d) => call[d].s # call[c].s

(* A candidate always has its evidence: unless the task has been deleted, it   *)
(* is linked to a completed session, whatever was linked, finished or deleted  *)
(* between the scan and the upsert.                                            *)
Evidence(t) == tasks[t].life = "first" => \E s \in Session : <<s, t>> \in links /\ sessions[s].status = "completed"
GapHasEvidence ==
  /\ \A t \in gaps : Evidence(t)
  /\ \A c \in Caller : call[c].pc = "upsert" => \A t \in call[c].todo : Evidence(t)

(* A session that start_work or begin_task answers with exists and has the     *)
(* task of the call linked, unless the task has been deleted.                  *)
AnswerLinked ==
  \A c \in Caller : call[c].pc = "idle" /\ call[c].s # 0 =>
    /\ sessions[call[c].s].status # "none"
    /\ \A t \in call[c].todo : tasks[t].life = "first" => <<call[c].s, t>> \in links

(* The late mark of a start_work, when others have worked on the tasks since   *)
(* its session was committed, takes no task out of a closed status; the mark   *)
(* of a finish_work completes no deferred task and no cancelled one.           *)
MarksOpenOnly ==
  [][\A c \in Caller, t \in Task :
       /\ call[c].pc \in {"mark", "complete"} /\ call'[c].pc = "idle" /\ tasks'[t] # tasks[t]
       => /\ Alive(t) /\ tasks[t].status \in {"pending", "in_progress"}
          /\ call[c].pc = "complete" => t \notin call[c].deferred]_vars

(* What makes them inductive: what a call between two statements relies on. *)
CallHolds ==
  \A c \in Caller :
    /\ call[c].pc \in {"mark", "link", "finish", "linked", "complete"} => call[c].s # 0
    /\ call[c].pc \in {"mark", "link"} => sessions[call[c].s].status # "none"
    /\ call[c].pc = "mark" =>
         \A t \in call[c].todo : tasks[t].life = "first" => <<call[c].s, t>> \in links
    /\ call[c].pc = "complete" => call[c].todo \cap call[c].deferred = {}

IInv == TypeOK /\ OneActive /\ MarkedOnce /\ GapHasEvidence /\ AnswerLinked /\ CallHolds

==============================================================================
