--------------------------- MODULE TaskStoreProofs ---------------------------
(***************************************************************************)
(* Proofs about TaskStore, for any callers, tasks, actors and bound.  The  *)
(* argument is one inductive invariant, TaskStoreInv: a lemma says that a  *)
(* step that leaves the rows held by a transaction alone preserves what    *)
(* the other calls rely on, so each action owes only its own record and    *)
(* the row it writes.                                                      *)
(***************************************************************************)
EXTENDS TaskStore, TLAPS

------------------------------------------------------------------------------
(* Typing of the records the actions build *)

LEMMA RecordTypes == /\ Unborn \in Rows
                     /\ Nil \in UpdateTaskParams
                     /\ Idle \in Calls
  <1>1. Unborn \in Rows
    BY DEF Unborn, NewRow, Rows, Statuses, Assignees
  <1>2. Nil \in UpdateTaskParams
    BY DEF Nil, UpdateTaskParams
  <1>3. QED
    BY <1>1, <1>2 DEF Idle, Calls, OpNames, PCs, Statuses, Results

LEMMA FinishedType ==
  ASSUME NEW c \in Caller, call[c] \in Calls, NEW r \in Results
  PROVE  /\ Finished(c, r) \in Calls
         /\ Finished(c, r).pc = "done"
  <1> DEFINE f == Finished(c, r)
  <1>1. f.pc = "done"
    BY DEF Finished, Idle
  <1>2. "done" \in PCs
    BY DEF PCs
  <1>3. f \in Calls
    BY RecordTypes, <1>2 DEF Finished, Calls
  <1>4. QED
    BY <1>1, <1>3

LEMMA FinishedInv ==
  ASSUME NEW c \in Caller, call[c] \in Calls, NEW r \in Results
  PROVE  CallInv(c, Finished(c, r))
  BY FinishedType DEF CallInv, InTx

(* A step preserves the invariant if the callers in C that move end in good   *)
(* records, the rows it writes are good, and it touches neither a row nor a   *)
(* lock that a caller outside C holds.                                        *)
LEMMA Preserve ==
  ASSUME TaskStoreInv, NEW C \in SUBSET Caller,
         call' \in [Caller -> Calls],
         \A c \in C : CallInv(c, call[c])',
         \A d \in Caller \ C : call'[d] = call[d],
         tasks' \in [Task -> Rows],
         \A t \in Task : tasks'[t] # tasks[t] =>
            /\ RowInv(tasks'[t])
            /\ lock[t] \in C \cup {Nobody} \/ tasks[t].status = "unborn",
         lock' \in [Task -> Caller \cup {Nobody}],
         \A t \in Task : lock[t] \in Caller \ C => lock'[t] = lock[t],
         startLog' \in [Task -> Nat],
         calls' \in Nat
  PROVE  TaskStoreInv'
  <1>1. TypeOK'
    BY DEF TypeOK
  <1>2. \A t \in Task : RowInv(tasks'[t])
    BY DEF TaskStoreInv, RowInv
  <1>3. ASSUME NEW d \in Caller PROVE CallInv(d, call[d])'
    <2>1. CASE d \in C
      BY <2>1
    <2>2. CASE d \notin C /\ call[d].pc \in InTx
      <3>1. CallInv(d, call[d]) /\ call'[d] = call[d]
        BY <2>2 DEF TaskStoreInv
      <3>2. PICK t \in Task : t = call[d].t
        BY <2>2, <3>1 DEF CallInv, InTx
      <3>3. lock[t] = d /\ d # Nobody /\ tasks[t].status # "unborn"
        BY <2>2, <3>1, <3>2, NobodyAssumption DEF CallInv, Statuses
      <3>4. lock'[t] = d /\ tasks'[t] = tasks[t]
        BY <2>2, <3>3
      <3>5. QED
        BY <2>2, <3>1, <3>2, <3>4
        DEF CallInv, InTx, RequireAssigneeForInProgress, Blank
    <2>3. CASE d \notin C /\ call[d].pc \notin InTx
      <3>1. CallInv(d, call[d]) /\ call'[d] = call[d]
        BY <2>3 DEF TaskStoreInv
      <3>2. QED
        BY <2>3, <3>1
        DEF CallInv, InTx, RequireAssigneeForInProgress, Blank
    <2>4. QED
      BY <2>1, <2>2, <2>3
  <1>4. QED
    BY <1>1, <1>2, <1>3 DEF TaskStoreInv, RowInv

(* A step of one call that writes nothing, or one row that no transaction holds. *)
LEMMA MoveInv ==
  ASSUME TaskStoreInv, NEW c \in Caller, NEW r, CallInv(c, r), r.pc \notin InTx,
         call' = [call EXCEPT ![c] = r], NoWrite
  PROVE  TaskStoreInv'
  <1>1. call' \in [Caller -> Calls] /\ call'[c] = r
    BY DEF TaskStoreInv, TypeOK, CallInv
  <1>2. CallInv(c, call[c])'
    BY <1>1 DEF CallInv, InTx, RequireAssigneeForInProgress, Blank
  <1>3. tasks' = tasks /\ lock' = lock /\ startLog' = startLog /\ calls' = calls
    BY DEF NoWrite
  <1>4. /\ {c} \in SUBSET Caller
        /\ \A d \in {c} : CallInv(d, call[d])'
        /\ \A d \in Caller \ {c} : call'[d] = call[d]
    BY <1>2 DEF TaskStoreInv, TypeOK
  <1>5. /\ tasks' \in [Task -> Rows] /\ lock' \in [Task -> Caller \cup {Nobody}]
        /\ startLog' \in [Task -> Nat] /\ calls' \in Nat
        /\ \A t \in Task : tasks'[t] # tasks[t] =>
             RowInv(tasks'[t]) /\ (lock[t] \in {c} \cup {Nobody} \/ tasks[t].status = "unborn")
        /\ \A t \in Task : lock[t] \in Caller \ {c} => lock'[t] = lock[t]
    BY <1>3 DEF TaskStoreInv, TypeOK
  <1>6. QED
    BY <1>1, <1>4, <1>5, Preserve

LEMMA WriteInv ==
  ASSUME TaskStoreInv, NEW c \in Caller, NEW r, CallInv(c, r), r.pc \notin InTx,
         call' = [call EXCEPT ![c] = r],
         NEW t \in Task, Unlocked(t), NEW row, RowInv(row), UpdateRow(t, row), OnlyTasks
  PROVE  TaskStoreInv'
  <1>1. call' \in [Caller -> Calls] /\ call'[c] = r
    BY DEF TaskStoreInv, TypeOK, CallInv
  <1>2. CallInv(c, call[c])'
    BY <1>1 DEF CallInv, InTx, RequireAssigneeForInProgress, Blank
  <1>3. lock' = lock /\ startLog' = startLog /\ calls' = calls
    BY DEF OnlyTasks
  <1>4. /\ {c} \in SUBSET Caller
        /\ \A d \in {c} : CallInv(d, call[d])'
        /\ \A d \in Caller \ {c} : call'[d] = call[d]
    BY <1>2 DEF TaskStoreInv, TypeOK
  <1>5. /\ tasks' \in [Task -> Rows]
        /\ \A u \in Task : tasks'[u] # tasks[u] =>
             RowInv(tasks'[u]) /\ (lock[u] \in {c} \cup {Nobody} \/ tasks[u].status = "unborn")
    BY DEF TaskStoreInv, TypeOK, UpdateRow, RowInv, Unlocked
  <1>6. /\ lock' \in [Task -> Caller \cup {Nobody}]
        /\ startLog' \in [Task -> Nat] /\ calls' \in Nat
        /\ \A u \in Task : lock[u] \in Caller \ {c} => lock'[u] = lock[u]
    BY <1>3 DEF TaskStoreInv, TypeOK
  <1>7. QED
    BY <1>1, <1>4, <1>5, <1>6, Preserve

LEMMA ReturnInv ==
  ASSUME TaskStoreInv, NEW c \in Caller, NEW r \in Results, Return(c, r), NoWrite
  PROVE  TaskStoreInv'
  <1>1. CallInv(c, Finished(c, r)) /\ Finished(c, r).pc \notin InTx
    BY FinishedInv, FinishedType DEF TaskStoreInv, TypeOK, InTx
  <1>2. QED
    BY <1>1, MoveInv DEF Return

LEMMA GotoInv ==
  ASSUME TaskStoreInv, NEW c \in Caller, NEW pc \in PCs \ (InTx \cup {"upd_write"}),
         call[c].pc \notin {"idle", "done", "pr_update"}, Goto(c, pc), NoWrite
  PROVE  TaskStoreInv'
  <1> DEFINE r == [call[c] EXCEPT !.pc = pc]
  <1>1. CallInv(c, r) /\ r.pc \notin InTx
    BY DEF TaskStoreInv, CallInv, Calls, InTx
  <1>2. call' = [call EXCEPT ![c] = r]
    BY DEF Goto
  <1>3. QED
    BY <1>1, <1>2, MoveInv

------------------------------------------------------------------------------
(* One lemma per operation *)

LEMMA StartInv ==
  ASSUME TaskStoreInv, NEW c \in Caller, NEW r \in Calls, Start(c, r),
         r.t \in Task \/ r.pc = "pr_update", r.pc \notin InTx \cup {"upd_write"}
  PROVE  TaskStoreInv'
  <1>1. CallInv(c, call[c])' /\ call' \in [Caller -> Calls]
    BY DEF Start, TaskStoreInv, TypeOK, CallInv
  <1>2. /\ {c} \in SUBSET Caller
        /\ \A d \in {c} : CallInv(d, call[d])'
        /\ \A d \in Caller \ {c} : call'[d] = call[d]
    BY <1>1 DEF Start, TaskStoreInv, TypeOK
  <1>3. /\ tasks' \in [Task -> Rows] /\ lock' \in [Task -> Caller \cup {Nobody}]
        /\ startLog' \in [Task -> Nat] /\ calls' \in Nat
        /\ \A t \in Task : tasks'[t] # tasks[t] =>
             RowInv(tasks'[t]) /\ (lock[t] \in {c} \cup {Nobody} \/ tasks[t].status = "unborn")
        /\ \A t \in Task : lock[t] \in Caller \ {c} => lock'[t] = lock[t]
    BY DEF Start, TaskStoreInv, TypeOK
  <1>4. QED
    BY <1>1, <1>2, <1>3, Preserve

LEMMA BeginsInv ==
  ASSUME TaskStoreInv, NEW c \in Caller, Begins(c)
  PROVE  TaskStoreInv'
  <1>1. PICK t \in Task :
          \/ \E s \in Statuses : CallSetTaskStatus(c, t, s) \/ CallUpdateTaskStatus(c, t, s)
          \/ \E p \in Patches, entry \in {"gate", "upd_read"} : CallUpdateTask(c, t, p, entry)
          \/ \E a \in Artifacts \cup {NoArtifact} : CallCompleteTask(c, t, a)
          \/ \E a \in Actor \cup {Keep}, u \in PRUrl \cup {Keep} : CallBeginTask(c, t, a, u)
    BY DEF Begins
  <1>2. ASSUME NEW s \in Statuses, CallSetTaskStatus(c, t, s) PROVE TaskStoreInv'
    <2> DEFINE r == [Idle EXCEPT !.op = "set_task_status", !.pc = "set_read", !.t = t, !.want = s]
    <2>1. r \in Calls /\ r.t \in Task /\ r.pc = "set_read"
      BY RecordTypes DEF Idle, Calls, PCs, OpNames
    <2>2. QED
      BY <1>2, <2>1, StartInv DEF CallSetTaskStatus, InTx
  <1>3. ASSUME NEW s \in Statuses, CallUpdateTaskStatus(c, t, s) PROVE TaskStoreInv'
    <2> DEFINE r == [Idle EXCEPT !.op = "update_task_status", !.pc = "guard_read", !.t = t, !.want = s]
    <2>1. r \in Calls /\ r.t \in Task /\ r.pc = "guard_read"
      BY RecordTypes DEF Idle, Calls, PCs, OpNames
    <2>2. QED
      BY <1>3, <2>1, StartInv DEF CallUpdateTaskStatus, InTx
  <1>4. ASSUME NEW p \in UpdateTaskParams, NEW entry \in {"gate", "upd_read"},
               CallUpdateTask(c, t, p, entry)
        PROVE  TaskStoreInv'
    <2> DEFINE r == [Idle EXCEPT !.op = "update_task", !.pc = entry, !.t = t, !.params = p]
    <2>1. r \in Calls /\ r.t \in Task /\ r.pc = entry
      BY RecordTypes DEF Idle, Calls, PCs, OpNames
    <2>2. QED
      BY <1>4, <2>1, StartInv DEF CallUpdateTask, InTx
  <1>5. ASSUME NEW a \in Artifacts \cup {NoArtifact}, CallCompleteTask(c, t, a) PROVE TaskStoreInv'
    <2> DEFINE r == [Idle EXCEPT !.op = "complete_task", !.pc = "complete", !.t = t, !.art = a]
    <2>1. r \in Calls /\ r.t \in Task /\ r.pc = "complete"
      BY RecordTypes DEF Idle, Calls, PCs, OpNames
    <2>2. QED
      BY <1>5, <2>1, StartInv DEF CallCompleteTask, InTx
  <1>6. ASSUME NEW a \in Actor \cup {Keep}, NEW u \in PRUrl \cup {Keep}, CallBeginTask(c, t, a, u)
        PROVE  TaskStoreInv'
    <2> DEFINE p == [Nil EXCEPT !.assignee = a]
               pc == IF a = Keep THEN "begin_read" ELSE "upd_read"
               r == [Idle EXCEPT !.op = "begin_task", !.t = t, !.linkage = u,
                                 !.pc = pc, !.params = p]
    <2>1. p \in UpdateTaskParams
      BY RecordTypes DEF Nil, UpdateTaskParams
    <2>2. pc \in PCs \ {"idle", "done", "pr_update", "upd_write", "begin_log", "begin_commit"}
      BY DEF PCs
    <2> HIDE DEF p, pc
    <2>3. r \in Calls /\ r.t \in Task /\ r.pc = pc
      BY <2>1, <2>2, RecordTypes DEF Idle, Calls, OpNames
    <2>4. QED
      BY <1>6, <2>2, <2>3, StartInv DEF CallBeginTask, InTx, p, pc
  <1>7. Patches \subseteq UpdateTaskParams
    BY DEF Patches
  <1>8. QED
    BY <1>1, <1>2, <1>3, <1>4, <1>5, <1>6, <1>7

LEMMA CallReconcileInv ==
  ASSUME TaskStoreInv, NEW c \in Caller, NEW matches \in SUBSET Task, CallReconcile(c, matches)
  PROVE  TaskStoreInv'
  <1> DEFINE r == [Idle EXCEPT !.op = "reconcile_merged_prs", !.pc = "pr_update", !.todo = matches]
  <1>1. r \in Calls /\ r.pc = "pr_update"
    BY RecordTypes DEF Idle, Calls, PCs, OpNames
  <1>2. QED
    BY <1>1, StartInv DEF CallReconcile, InTx

(* What a running call knows of its record and of the row it is about. *)
LEMMA Active ==
  ASSUME TaskStoreInv, NEW c \in Caller, call[c].pc \notin {"idle", "done", "pr_update"}
  PROVE  /\ call[c] \in Calls
         /\ call[c].t \in Task
         /\ RowInv(Row(c))
         /\ Row(c) \in Rows
  BY DEF TaskStoreInv, TypeOK, CallInv, Row, RowInv

LEMMA OwnedNamed == \A a \in Assignees : ~Blank(a) => ~TrimmedBlank(a)
  BY NoActorAssumption DEF Blank, TrimmedBlank

LEMMA SetReadInv ==
  ASSUME TaskStoreInv, NEW c \in Caller, SetRead(c)
  PROVE  TaskStoreInv'
  <1>1. CASE Return(c, "not_found") \/ Return(c, "ok")
    BY <1>1, ReturnInv DEF SetRead, Results
  <1>2. CASE Exists(call[c].t) /\ call' = [call EXCEPT ![c].pc = "guard_read", ![c].expected = Row(c).status]
    <2> DEFINE r == [call[c] EXCEPT !.pc = "guard_read", !.expected = Row(c).status]
    <2>1. Row(c).status \in Statuses
      BY <1>2 DEF Exists, Row
    <2>2. CallInv(c, r) /\ r.pc \notin InTx
      BY <2>1, Active, ZenonT(40) DEF SetRead, CallInv, Calls, PCs, InTx
    <2>3. call' = [call EXCEPT ![c] = r] /\ NoWrite
      BY <1>2 DEF SetRead
    <2>4. QED
      BY <2>2, <2>3, MoveInv
  <1>3. QED
    BY <1>1, <1>2 DEF SetRead

LEMMA GuardReadInv ==
  ASSUME TaskStoreInv, NEW c \in Caller, GuardRead(c)
  PROVE  TaskStoreInv'
  <1>1. CASE \E r \in {"not_found", "assignee_required"} : Return(c, r)
    BY <1>1, ReturnInv DEF GuardRead, Results
  <1>2. CASE Goto(c, "guard_write")
    BY <1>2, GotoInv DEF GuardRead, PCs, InTx
  <1>3. QED
    BY <1>1, <1>2 DEF GuardRead

LEMMA GuardWriteInv ==
  ASSUME TaskStoreInv, NEW c \in Caller, GuardWrite(c)
  PROVE  TaskStoreInv'
  <1>1. CASE ~GuardHolds(c)
    BY <1>1, GotoInv DEF GuardWrite, PCs, InTx
  <1>2. CASE GuardHolds(c)
    <2> DEFINE row == [Row(c) EXCEPT !.status = call[c].want]
    <2>1. call[c] \in Calls /\ call[c].t \in Task /\ Row(c) \in Rows
      BY Active DEF GuardWrite
    <2>2. row \in Rows /\ row.status = call[c].want /\ row.assignee = Row(c).assignee
      BY <2>1 DEF Rows, Calls
    <2>3. RowInv(row)
      BY <1>2, <2>1, <2>2, OwnedNamed DEF RowInv, GuardHolds, RequireAssigneeForInProgress, Rows
    <2>4. CallInv(c, Finished(c, "ok")) /\ Finished(c, "ok").pc \notin InTx
      BY <2>1, FinishedInv, FinishedType DEF InTx, Results
    <2>5. QED
      BY <1>2, <2>1, <2>3, <2>4, WriteInv DEF GuardWrite, Return
  <1>3. QED
    BY <1>1, <1>2

LEMMA GuardRereadInv ==
  ASSUME TaskStoreInv, NEW c \in Caller, GuardReread(c)
  PROVE  TaskStoreInv'
  <1>1. RereadResult(c) \in Results
    BY DEF RereadResult, Results
  <1>2. QED
    BY <1>1, ReturnInv DEF GuardReread

LEMMA UpdateGateInv ==
  ASSUME TaskStoreInv, NEW c \in Caller, UpdateGate(c)
  PROVE  TaskStoreInv'
  <1>1. CASE \E r \in {"not_found", "assignee_required"} : Return(c, r)
    BY <1>1, ReturnInv DEF UpdateGate, Results
  <1>2. CASE Goto(c, "upd_read")
    BY <1>2, GotoInv DEF UpdateGate, PCs, InTx
  <1>3. QED
    BY <1>1, <1>2 DEF UpdateGate

(* The merge of typed parameters into a typed row. *)
LEMMA MergedType ==
  ASSUME NEW p \in UpdateTaskParams, NEW row \in Rows
  PROVE  Merged(p, row) \in Rows
  <1> DEFINE st == MergedStatus(p, row)
             as == MergedAssignee(p, row)
             pr == OrKept(p.pr_url, row.pr_url)
  <1>1. st \in Statuses \cup {"unborn", "deleted"}
    BY DEF MergedStatus, OrKept, UpdateTaskParams, Rows
  <1>2. as \in Assignees
    BY DEF MergedAssignee, OrKept, UpdateTaskParams, Rows, Assignees
  <1>3. pr \in PRUrl \cup {NoArtifact}
    BY DEF OrKept, UpdateTaskParams, Rows
  <1>4. Merged(p, row) = [row EXCEPT !.status = st, !.assignee = as, !.pr_url = pr]
    BY DEF Merged, Rows
  <1> HIDE DEF st, as, pr
  <1>5. QED
    BY <1>1, <1>2, <1>3, <1>4 DEF Rows

LEMMA UpdateReadInv ==
  ASSUME TaskStoreInv, NEW c \in Caller, UpdateRead(c)
  PROVE  TaskStoreInv'
  <1> DEFINE merged == Merged(call[c].params, Row(c))
             spent == [Nil EXCEPT !.sha = call[c].params.sha]
  <1>1. CASE \E r \in {"not_found", "assignee_required"} : UpdateFailed(c, r)
    <2>1. \E r \in Results : Return(c, r)
      BY <1>1 DEF UpdateFailed, Results
    <2>2. QED
      BY <2>1, ReturnInv DEF UpdateRead
  <1>2. CASE /\ RequireAssigneeForInProgress(merged.assignee, merged.status)
             /\ call' = [call EXCEPT ![c].pc = "upd_write", ![c].snap = merged, ![c].params = spent]
    <2> DEFINE r == [call[c] EXCEPT !.pc = "upd_write", !.snap = merged, !.params = spent]
    <2>1. call[c] \in Calls /\ call[c].t \in Task /\ Row(c) \in Rows /\ call[c].params \in UpdateTaskParams
      BY Active DEF UpdateRead, Calls
    <2>2. merged \in Rows
      BY <2>1, MergedType
    <2>3. spent \in UpdateTaskParams
      BY <2>1, RecordTypes DEF UpdateTaskParams
    <2>4. call' = [call EXCEPT ![c] = r] /\ NoWrite
      BY <1>2 DEF UpdateRead
    <2>5. RequireAssigneeForInProgress(merged.assignee, merged.status)
      BY <1>2
    <2> HIDE DEF merged, spent
    <2>6. /\ r \in Calls /\ r.t \in Task /\ r.pc = "upd_write" /\ r.snap = merged
      BY <2>1, <2>2, <2>3 DEF Calls, PCs
    <2>7. CallInv(c, r) /\ r.pc \notin InTx
      BY <2>5, <2>6 DEF CallInv, InTx
    <2>8. QED
      BY <2>4, <2>7, MoveInv
  <1>3. QED
    BY <1>1, <1>2 DEF UpdateRead

(* The merged row: typed, and owned if it is in progress. *)
LEMMA WrittenRowInv ==
  ASSUME TaskStoreInv, NEW c \in Caller, call[c].pc = "upd_write"
  PROVE  /\ RowInv(WrittenRow(c))
         /\ WrittenRow(c).status = call[c].snap.status
         /\ WrittenRow(c).assignee = call[c].snap.assignee
         /\ WrittenRow(c).artifact = Row(c).artifact
         /\ Row(c).commit_shas \subseteq WrittenRow(c).commit_shas
  <1> DEFINE merged == call[c].snap
             sha == call[c].params.sha
             shas == IF sha = Keep THEN Row(c).commit_shas ELSE Row(c).commit_shas \cup {sha}
  <1>1. /\ merged \in Rows /\ Row(c) \in Rows /\ sha \in CommitSHA \cup {Keep}
        /\ RequireAssigneeForInProgress(merged.assignee, merged.status)
    BY Active DEF Calls, TaskStoreInv, CallInv, UpdateTaskParams
  <1>2. shas \in SUBSET CommitSHA /\ Row(c).commit_shas \subseteq shas
    BY <1>1 DEF Rows
  <1>3. WrittenRow(c) = [Row(c) EXCEPT !.status = merged.status, !.assignee = merged.assignee,
                                       !.pr_url = merged.pr_url, !.commit_shas = shas]
    BY DEF WrittenRow
  <1> HIDE DEF merged, sha, shas
  <1>4. /\ WrittenRow(c) \in Rows
        /\ WrittenRow(c).status = merged.status /\ WrittenRow(c).assignee = merged.assignee
        /\ WrittenRow(c).artifact = Row(c).artifact /\ WrittenRow(c).commit_shas = shas
    BY <1>1, <1>2, <1>3 DEF Rows
  <1>5. RowInv(WrittenRow(c))
    BY <1>1, <1>4, OwnedNamed DEF RowInv, RequireAssigneeForInProgress, Rows
  <1>6. QED
    BY <1>2, <1>4, <1>5 DEF merged

LEMMA UpdateWriteInv ==
  ASSUME TaskStoreInv, NEW c \in Caller, UpdateWrite(c)
  PROVE  TaskStoreInv'
  <1>0. call[c] \in Calls /\ call[c].t \in Task
    BY Active DEF UpdateWrite
  <1>1. CASE ~Exists(call[c].t)
    <2>1. \E r \in Results : Return(c, r)
      BY <1>1 DEF UpdateWrite, UpdateFailed, Results
    <2>2. QED
      BY <1>1, <2>1, ReturnInv DEF UpdateWrite
  <1>2. CASE Exists(call[c].t) /\ Return(c, "ok")
    <2>1. CallInv(c, Finished(c, "ok")) /\ Finished(c, "ok").pc \notin InTx
      BY <1>0, FinishedInv, FinishedType DEF InTx, Results
    <2>2. QED
      BY <1>0, <1>2, <2>1, WrittenRowInv, WriteInv DEF UpdateWrite, Return
  <1>3. CASE /\ Exists(call[c].t)
             /\ call' = [call EXCEPT ![c].pc = "begin_read", ![c].params = Nil, ![c].snap = Unborn]
    <2> DEFINE r == [call[c] EXCEPT !.pc = "begin_read", !.params = Nil, !.snap = Unborn]
    <2>1. r \in Calls /\ r.t \in Task /\ r.pc = "begin_read"
      BY <1>0, RecordTypes DEF Calls, PCs
    <2>2. CallInv(c, r) /\ r.pc \notin InTx
      BY <2>1 DEF CallInv, InTx
    <2>3. call' = [call EXCEPT ![c] = r]
      BY <1>3
    <2>4. QED
      BY <1>0, <1>3, <2>2, <2>3, WrittenRowInv, WriteInv DEF UpdateWrite
  <1>4. QED
    BY <1>1, <1>2, <1>3 DEF UpdateWrite, AfterUpdate

LEMMA CompletedRowInv ==
  ASSUME NEW row \in Rows, NEW a \in Artifacts \cup {NoArtifact}
  PROVE  RowInv(CompletedRow(row, a)) /\ CompletedRow(row, a) \in Rows
  <1> DEFINE art == IF a = NoArtifact THEN row.artifact ELSE a
  <1>1. art \in Artifacts \cup {NoArtifact}
    BY DEF Rows
  <1>2. CompletedRow(row, a) = [row EXCEPT !.status = "completed", !.artifact = art]
    BY DEF CompletedRow
  <1> HIDE DEF art
  <1>3. QED
    BY <1>1, <1>2 DEF RowInv, Rows, Statuses

LEMMA CompleteTaskInv ==
  ASSUME TaskStoreInv, NEW c \in Caller, CompleteTask(c)
  PROVE  TaskStoreInv'
  <1>0. /\ call[c] \in Calls /\ call[c].t \in Task /\ Row(c) \in Rows
        /\ call[c].art \in Artifacts \cup {NoArtifact}
    BY Active DEF CompleteTask, Calls
  <1>1. CASE ~Exists(call[c].t)
    BY <1>1, ReturnInv DEF CompleteTask, Results
  <1>2. CASE Exists(call[c].t) /\ call[c].art \notin PRUrl \cup CommitSHA
    <2>1. CallInv(c, Finished(c, "ok")) /\ Finished(c, "ok").pc \notin InTx
      BY <1>0, FinishedInv, FinishedType DEF InTx, Results
    <2>2. QED
      BY <1>0, <1>2, <2>1, CompletedRowInv, WriteInv DEF CompleteTask, AfterComplete, Return
  <1>3. CASE Exists(call[c].t) /\ call[c].art \in PRUrl \cup CommitSHA
    <2> DEFINE p == ArtifactParams(call[c].art)
               r == [call[c] EXCEPT !.pc = "upd_read", !.params = p]
    <2>1. p \in UpdateTaskParams
      BY <1>3, RecordTypes DEF ArtifactParams, UpdateTaskParams
    <2>2. r \in Calls /\ r.t \in Task /\ r.pc = "upd_read"
      BY <1>0, <2>1 DEF Calls, PCs
    <2>3. CallInv(c, r) /\ r.pc \notin InTx
      BY <2>2 DEF CallInv, InTx
    <2>4. call' = [call EXCEPT ![c] = r]
      BY <1>3 DEF CompleteTask, AfterComplete
    <2>5. QED
      BY <1>0, <1>3, <2>3, <2>4, CompletedRowInv, WriteInv DEF CompleteTask
  <1>4. QED
    BY <1>1, <1>2, <1>3

(* Where a begun task goes next: back to the caller, or to its pr_url. *)
LEMMA AfterBeginRecord ==
  ASSUME NEW c \in Caller, call[c] \in Calls, call[c].t \in Task, AfterBegin(c)
  PROVE  \E r : CallInv(c, r) /\ r.pc \in {"done", "upd_read"} /\ call' = [call EXCEPT ![c] = r]
  <1>1. CASE call[c].linkage = Keep
    <2>1. CallInv(c, Finished(c, "ok")) /\ Finished(c, "ok").pc = "done"
      BY FinishedInv, FinishedType DEF Results
    <2>2. QED
      BY <1>1, <2>1 DEF AfterBegin, Return
  <1>2. CASE call[c].linkage # Keep
    <2> DEFINE p == [Nil EXCEPT !.pr_url = call[c].linkage]
               r == [call[c] EXCEPT !.pc = "upd_read", !.begun = TRUE, !.params = p]
    <2>1. p \in UpdateTaskParams
      BY <1>2, RecordTypes DEF UpdateTaskParams, Calls
    <2>2. r \in Calls /\ r.t \in Task /\ r.pc = "upd_read"
      BY <2>1 DEF Calls, PCs
    <2>3. CallInv(c, r)
      BY <2>2 DEF CallInv, InTx
    <2>4. call' = [call EXCEPT ![c] = r]
      BY <1>2 DEF AfterBegin
    <2>5. QED
      BY <2>2, <2>3, <2>4
  <1>3. QED
    BY <1>1, <1>2

LEMMA AfterBeginInv ==
  ASSUME TaskStoreInv, NEW c \in Caller, AfterBegin(c), NoWrite,
         call[c].pc \notin {"idle", "done", "pr_update"}
  PROVE  TaskStoreInv'
  <1>1. PICK r : CallInv(c, r) /\ r.pc \in {"done", "upd_read"} /\ call' = [call EXCEPT ![c] = r]
    BY Active, AfterBeginRecord
  <1>2. QED
    BY <1>1, MoveInv DEF InTx

LEMMA BeginReadInv ==
  ASSUME TaskStoreInv, NEW c \in Caller, BeginRead(c)
  PROVE  TaskStoreInv'
  <1>1. CASE \E r \in {"not_found", "assignee_required"} : Return(c, r)
    BY <1>1, ReturnInv DEF BeginRead, Results
  <1>2. CASE Goto(c, "begin_guard")
    BY <1>2, GotoInv DEF BeginRead, PCs, InTx
  <1>3. CASE AfterBegin(c)
    BY <1>3, AfterBeginInv DEF BeginRead
  <1>4. QED
    BY <1>1, <1>2, <1>3 DEF BeginRead

LEMMA BeginGuardedUpdateInv ==
  ASSUME TaskStoreInv, NEW c \in Caller, BeginGuardedUpdate(c)
  PROVE  TaskStoreInv'
  <1>1. CASE ~BeginGuard(c)
    BY <1>1, GotoInv DEF BeginGuardedUpdate, PCs, InTx
  <1>2. CASE BeginGuard(c)
    <2> DEFINE t == call[c].t
               r == [call[c] EXCEPT !.pc = "begin_log"]
    <2>1. /\ call[c] \in Calls /\ t \in Task
          /\ lock[t] = Nobody
      BY Active DEF BeginGuardedUpdate, Unlocked
    <2>2. /\ call' = [call EXCEPT ![c] = r] /\ lock' = [lock EXCEPT ![t] = c]
          /\ tasks' = tasks /\ startLog' = startLog /\ calls' = calls
      BY <1>2 DEF BeginGuardedUpdate, Goto
    <2>3. r \in Calls /\ r.t = t /\ r.pc = "begin_log"
      BY <2>1 DEF Calls, PCs
    <2>4. call'[c] = r /\ call' \in [Caller -> Calls] /\ lock'[t] = c
      BY <2>1, <2>2, <2>3 DEF TaskStoreInv, TypeOK
    <2>5. tasks[t].status \in Statuses \ {"in_progress"} /\ ~Blank(tasks[t].assignee)
      BY <1>2 DEF BeginGuard, Exists, Row
    <2>6. CallInv(c, call[c])'
      BY <2>1, <2>2, <2>3, <2>4, <2>5 DEF CallInv, InTx, Blank
    <2>7. /\ {c} \in SUBSET Caller
          /\ \A d \in {c} : CallInv(d, call[d])'
          /\ \A d \in Caller \ {c} : call'[d] = call[d]
      BY <2>2, <2>6 DEF TaskStoreInv, TypeOK
    <2>8. /\ tasks' \in [Task -> Rows] /\ lock' \in [Task -> Caller \cup {Nobody}]
          /\ startLog' \in [Task -> Nat] /\ calls' \in Nat
          /\ \A u \in Task : tasks'[u] # tasks[u] =>
               RowInv(tasks'[u]) /\ (lock[u] \in {c} \cup {Nobody} \/ tasks[u].status = "unborn")
          /\ \A u \in Task : lock[u] \in Caller \ {c} => lock'[u] = lock[u]
      BY <2>1, <2>2, NobodyAssumption DEF TaskStoreInv, TypeOK
    <2>9. QED
      BY <2>4, <2>7, <2>8, Preserve
  <1>3. QED
    BY <1>1, <1>2

LEMMA BeginResolveInv ==
  ASSUME TaskStoreInv, NEW c \in Caller, BeginResolve(c)
  PROVE  TaskStoreInv'
  <1>1. CASE \E r \in {"not_found", "assignee_required"} : Return(c, r)
    BY <1>1, ReturnInv DEF BeginResolve, Results
  <1>2. CASE AfterBegin(c)
    BY <1>2, AfterBeginInv DEF BeginResolve
  <1>3. QED
    BY <1>1, <1>2 DEF BeginResolve

LEMMA CreateActivityLogInv ==
  ASSUME TaskStoreInv, NEW c \in Caller, CreateActivityLog(c)
  PROVE  TaskStoreInv'
  <1> DEFINE r == [call[c] EXCEPT !.pc = "begin_commit"]
  <1>1. /\ CallInv(c, call[c]) /\ call[c].pc = "begin_log"
        /\ call' = [call EXCEPT ![c] = r] /\ NoWrite
    BY DEF CreateActivityLog, Goto, TaskStoreInv
  <1>2. CallInv(c, r)
    BY <1>1 DEF CallInv, Calls, PCs, InTx
  <1>3. call' \in [Caller -> Calls] /\ call'[c] = r
    BY <1>1, <1>2 DEF TaskStoreInv, TypeOK, CallInv
  <1>4. CallInv(c, call[c])'
    BY <1>1, <1>2, <1>3
    DEF NoWrite, CallInv, InTx, RequireAssigneeForInProgress, Blank
  <1>5. /\ {c} \in SUBSET Caller
        /\ \A d \in {c} : CallInv(d, call[d])'
        /\ \A d \in Caller \ {c} : call'[d] = call[d]
    BY <1>1, <1>4 DEF TaskStoreInv, TypeOK
  <1>6. /\ tasks' \in [Task -> Rows] /\ lock' \in [Task -> Caller \cup {Nobody}]
        /\ startLog' \in [Task -> Nat] /\ calls' \in Nat
        /\ \A u \in Task : tasks'[u] # tasks[u] =>
             RowInv(tasks'[u]) /\ (lock[u] \in {c} \cup {Nobody} \/ tasks[u].status = "unborn")
        /\ \A u \in Task : lock[u] \in Caller \ {c} => lock'[u] = lock[u]
    BY <1>1 DEF NoWrite, TaskStoreInv, TypeOK
  <1>7. QED
    BY <1>3, <1>5, <1>6, Preserve

LEMMA BeginCommitInv ==
  ASSUME TaskStoreInv, NEW c \in Caller, BeginCommit(c)
  PROVE  TaskStoreInv'
  <1> DEFINE t == call[c].t
             row == [Row(c) EXCEPT !.status = "in_progress"]
  <1>1. /\ call[c] \in Calls /\ t \in Task /\ Row(c) \in Rows
        /\ lock[t] = c /\ ~Blank(Row(c).assignee)
    BY Active DEF BeginCommit, TaskStoreInv, CallInv, InTx, Row
  <1>2. RowInv(row)
    BY <1>1, OwnedNamed DEF RowInv, Rows, Statuses
  <1>3. PICK r : CallInv(c, r) /\ r.pc \in {"done", "upd_read"} /\ call' = [call EXCEPT ![c] = r]
    BY <1>1, AfterBeginRecord DEF BeginCommit
  <1>4. call' \in [Caller -> Calls] /\ call'[c] = r
    BY <1>3 DEF TaskStoreInv, TypeOK, CallInv
  <1>5. CallInv(c, call[c])'
    BY <1>3, <1>4
    DEF CallInv, InTx, RequireAssigneeForInProgress, Blank
  <1>6. /\ {c} \in SUBSET Caller
        /\ \A d \in {c} : CallInv(d, call[d])'
        /\ \A d \in Caller \ {c} : call'[d] = call[d]
    BY <1>3, <1>5 DEF TaskStoreInv, TypeOK
  <1>7. /\ tasks' = [tasks EXCEPT ![t] = row] /\ lock' = [lock EXCEPT ![t] = Nobody]
        /\ startLog' = [startLog EXCEPT ![t] = @ + 1] /\ calls' = calls
    BY DEF BeginCommit, UpdateRow
  <1>8. /\ tasks' \in [Task -> Rows]
        /\ \A u \in Task : tasks'[u] # tasks[u] =>
             RowInv(tasks'[u]) /\ (lock[u] \in {c} \cup {Nobody} \/ tasks[u].status = "unborn")
    BY <1>1, <1>2, <1>7 DEF TaskStoreInv, TypeOK, RowInv
  <1>9. /\ lock' \in [Task -> Caller \cup {Nobody}]
        /\ startLog' \in [Task -> Nat] /\ calls' \in Nat
        /\ \A u \in Task : lock[u] \in Caller \ {c} => lock'[u] = lock[u]
    BY <1>1, <1>7 DEF TaskStoreInv, TypeOK
  <1>10. QED
    BY <1>4, <1>6, <1>8, <1>9, Preserve

LEMMA ApplyOnePRMatchInv ==
  ASSUME TaskStoreInv, NEW c \in Caller, NEW t \in Task, NEW u \in PRUrl, ApplyOnePRMatch(c, t, u)
  PROVE  TaskStoreInv'
  <1>1. call[c] \in Calls /\ tasks[t] \in Rows /\ call[c].pc = "pr_update"
    BY DEF ApplyOnePRMatch, TaskStoreInv, TypeOK
  <1>2. CASE OpenForPR(t)
    <2> DEFINE row == [tasks[t] EXCEPT !.status = "completed", !.artifact = u, !.pr_url = u]
               r == [call[c] EXCEPT !.pc = "pr_log", !.t = t, !.todo = @ \ {t}, !.applied = @ \cup {t}]
    <2>1. RowInv(row)
      BY <1>1 DEF RowInv, Rows, Statuses, Artifacts
    <2>2. CallInv(c, r) /\ r.pc \notin InTx
      BY <1>1 DEF CallInv, Calls, PCs, InTx
    <2>3. call' = [call EXCEPT ![c] = r] /\ UpdateRow(t, row) /\ OnlyTasks /\ Unlocked(t)
      BY <1>2 DEF ApplyOnePRMatch
    <2>4. QED
      BY <2>1, <2>2, <2>3, WriteInv
  <1>3. CASE ~OpenForPR(t)
    <2> DEFINE r == [call[c] EXCEPT !.todo = @ \ {t}]
    <2>1. CallInv(c, r) /\ r.pc \notin InTx
      BY <1>1 DEF CallInv, Calls, InTx
    <2>2. call' = [call EXCEPT ![c] = r] /\ NoWrite
      BY <1>3 DEF ApplyOnePRMatch
    <2>3. QED
      BY <2>1, <2>2, MoveInv
  <1>4. QED
    BY <1>2, <1>3

LEMMA PRLogInv ==
  ASSUME TaskStoreInv, NEW c \in Caller, PRLog(c)
  PROVE  TaskStoreInv'
  BY GotoInv DEF PRLog, PCs, InTx

LEMMA PRCommitInv ==
  ASSUME TaskStoreInv, NEW c \in Caller, PRCommit(c)
  PROVE  TaskStoreInv'
  BY ReturnInv DEF PRCommit, Results

LEMMA StoreErrorInv ==
  ASSUME TaskStoreInv, NEW c \in Caller, StoreError(c)
  PROVE  TaskStoreInv'
  <1>1. PICK res \in Results : Return(c, res)
    BY DEF StoreError, UpdateFailed, Results
  <1>2. CallInv(c, Finished(c, res)) /\ Finished(c, res).pc = "done"
    BY FinishedInv, FinishedType DEF TaskStoreInv, TypeOK
  <1>3. call' \in [Caller -> Calls] /\ call'[c] = Finished(c, res)
    BY <1>1, <1>2 DEF Return, TaskStoreInv, TypeOK, CallInv
  <1>4. CallInv(c, call[c])'
    BY <1>2, <1>3 DEF CallInv, InTx
  <1>5. /\ {c} \in SUBSET Caller
        /\ \A d \in {c} : CallInv(d, call[d])'
        /\ \A d \in Caller \ {c} : call'[d] = call[d]
    BY <1>1, <1>4 DEF Return, TaskStoreInv, TypeOK
  <1>6. /\ lock' = [t \in Task |-> IF lock[t] = c THEN Nobody ELSE lock[t]]
        /\ tasks' = tasks /\ startLog' = startLog /\ calls' = calls
    BY DEF StoreError
  <1>7. /\ tasks' \in [Task -> Rows] /\ lock' \in [Task -> Caller \cup {Nobody}]
        /\ startLog' \in [Task -> Nat] /\ calls' \in Nat
        /\ \A u \in Task : tasks'[u] # tasks[u] =>
             RowInv(tasks'[u]) /\ (lock[u] \in {c} \cup {Nobody} \/ tasks[u].status = "unborn")
        /\ \A u \in Task : lock[u] \in Caller \ {c} => lock'[u] = lock[u]
    BY <1>6 DEF TaskStoreInv, TypeOK
  <1>8. QED
    BY <1>3, <1>5, <1>7, Preserve

(* Writes by other components: every row they change is free or not yet born. *)
LEMMA BackgroundWrite ==
  ASSUME TaskStoreInv, OnlyTasks, call' = call, tasks' \in [Task -> Rows],
         \A t \in Task : tasks'[t] # tasks[t] =>
            RowInv(tasks'[t]) /\ (Unlocked(t) \/ tasks[t].status = "unborn")
  PROVE  TaskStoreInv'
  <1>1. /\ {} \in SUBSET Caller
        /\ \A d \in {} : CallInv(d, call[d])'
        /\ \A d \in Caller \ {} : call'[d] = call[d]
        /\ call' \in [Caller -> Calls]
    BY DEF TaskStoreInv, TypeOK
  <1>2. /\ lock' \in [Task -> Caller \cup {Nobody}]
        /\ startLog' \in [Task -> Nat] /\ calls' \in Nat
        /\ \A u \in Task : tasks'[u] # tasks[u] =>
             RowInv(tasks'[u]) /\ (lock[u] \in {} \cup {Nobody} \/ tasks[u].status = "unborn")
        /\ \A u \in Task : lock[u] \in Caller \ {} => lock'[u] = lock[u]
    BY DEF OnlyTasks, TaskStoreInv, TypeOK, Unlocked
  <1>3. QED
    BY <1>1, <1>2, Preserve

LEMMA BackgroundInv ==
  ASSUME TaskStoreInv, Background
  PROVE  TaskStoreInv'
  <1>1. ASSUME NEW t \in Task, NEW a \in Assignees, CreateTask(t, a) PROVE TaskStoreInv'
    <2>1. NewRow(a) \in Rows /\ RowInv(NewRow(a))
      BY DEF NewRow, Rows, Statuses, RowInv
    <2>2. QED
      BY <1>1, <2>1, BackgroundWrite DEF CreateTask, UpdateRow, TaskStoreInv, TypeOK
  <1>2. ASSUME NEW t \in Task, DeleteTaskRow(t) PROVE TaskStoreInv'
    <2> DEFINE row == [Unborn EXCEPT !.status = "deleted"]
    <2>1. row \in Rows /\ RowInv(row)
      BY RecordTypes DEF Rows, RowInv
    <2>2. QED
      BY <1>2, <2>1, BackgroundWrite DEF DeleteTaskRow, UpdateRow, TaskStoreInv, TypeOK
  <1>3. ASSUME NEW ts \in SUBSET Task, NEW a \in Actor \cup {NoActor}, MarkInProgress(ts, a)
        PROVE  TaskStoreInv'
    <2> DEFINE as(t) == IF TrimmedBlank(tasks[t].assignee) THEN a ELSE tasks[t].assignee
               row(t) == [tasks[t] EXCEPT !.status = "in_progress", !.assignee = as(t)]
    <2>1. ASSUME NEW t \in Task, Markable(t, a) PROVE row(t) \in Rows /\ RowInv(row(t))
      <3>1. tasks[t] \in Rows /\ as(t) \in Assignees /\ ~TrimmedBlank(as(t))
        BY <2>1, NoActorAssumption
        DEF TaskStoreInv, TypeOK, Rows, Assignees, Markable, TrimmedBlank, Blank
      <3> HIDE DEF as
      <3>2. QED
        BY <3>1 DEF Rows, RowInv, Statuses
    <2>2. /\ tasks' = [t \in Task |-> IF t \in ts /\ Markable(t, a) THEN row(t) ELSE tasks[t]]
          /\ \A t \in ts : Markable(t, a) => Unlocked(t)
          /\ OnlyTasks /\ call' = call
      BY <1>3 DEF MarkInProgress
    <2> HIDE DEF row
    <2>3. \A t \in Task : tasks[t] \in Rows /\ (Markable(t, a) => row(t) \in Rows /\ RowInv(row(t)))
      BY <2>1 DEF TaskStoreInv, TypeOK
    <2>4. /\ tasks' \in [Task -> Rows]
          /\ \A t \in Task : tasks'[t] # tasks[t] => t \in ts /\ Markable(t, a) /\ tasks'[t] = row(t)
      BY <2>2, <2>3
    <2>5. \A t \in Task : tasks'[t] # tasks[t] => RowInv(tasks'[t]) /\ Unlocked(t)
      BY <2>2, <2>3, <2>4
    <2>6. QED
      BY <2>2, <2>4, <2>5, BackgroundWrite
  <1>4. ASSUME NEW ts \in SUBSET Task, NEW a \in Artifacts \cup {NoArtifact}, MarkCompleted(ts, a)
        PROVE  TaskStoreInv'
    <2>1. \A t \in Task : RowInv(CompletedRow(tasks[t], a)) /\ CompletedRow(tasks[t], a) \in Rows
      BY CompletedRowInv DEF TaskStoreInv, TypeOK
    <2>2. QED
      BY <1>4, <2>1, BackgroundWrite DEF MarkCompleted, TaskStoreInv, TypeOK
  <1>5. QED
    BY <1>1, <1>2, <1>3, <1>4 DEF Background

LEMMA StepInv ==
  ASSUME TaskStoreInv, NEW c \in Caller, Step(c)
  PROVE  TaskStoreInv'
  BY SetReadInv, GuardReadInv, GuardWriteInv, GuardRereadInv, UpdateGateInv, UpdateReadInv,
     UpdateWriteInv, CompleteTaskInv, BeginReadInv, BeginGuardedUpdateInv, BeginResolveInv,
     CreateActivityLogInv, BeginCommitInv, ApplyOnePRMatchInv, PRLogInv, PRCommitInv
  DEF Step

------------------------------------------------------------------------------
(* Theorems *)

LEMMA InitInv == Init => TaskStoreInv
  <1> SUFFICES ASSUME Init PROVE TaskStoreInv
    OBVIOUS
  <1>1. TypeOK
    BY RecordTypes DEF Init, TypeOK
  <1>2. \A t \in Task : RowInv(tasks[t])
    BY RecordTypes DEF Init, RowInv, Unborn, NewRow
  <1>3. \A c \in Caller : CallInv(c, call[c])
    BY RecordTypes DEF Init, CallInv, Idle, InTx
  <1>4. QED
    BY <1>1, <1>2, <1>3 DEF TaskStoreInv

LEMMA NextInv == TaskStoreInv /\ [Next]_vars => TaskStoreInv'
  <1> SUFFICES ASSUME TaskStoreInv, [Next]_vars PROVE TaskStoreInv'
    OBVIOUS
  <1>1. ASSUME NEW c \in Caller,
               \/ Begins(c)
               \/ \E matches \in SUBSET Task : CallReconcile(c, matches)
               \/ Step(c)
               \/ StoreError(c)
        PROVE  TaskStoreInv'
    BY <1>1, BeginsInv, CallReconcileInv, StepInv, StoreErrorInv
  <1>2. CASE Background
    BY <1>2, BackgroundInv
  <1>3. CASE UNCHANGED vars
    BY <1>3 DEF vars, TaskStoreInv, TypeOK, RowInv, CallInv, InTx, RequireAssigneeForInProgress,
      Blank, TrimmedBlank
  <1>4. QED
    BY <1>1, <1>2, <1>3 DEF Next

(* The inductive invariant holds of the specification. *)
THEOREM TaskStoreInvariant == Spec => []TaskStoreInv
  BY InitInv, NextInv, PTL DEF Spec

(* Every variable keeps its type, whatever the interleaving of calls. *)
THEOREM TypeCorrect == Spec => []TypeOK
  <1>1. TaskStoreInv => TypeOK
    BY DEF TaskStoreInv
  <1>2. QED
    BY <1>1, TaskStoreInvariant, PTL

(* startLog is written by BeginCommit and by nothing else. *)
LEMMA OnlyCommitLogs ==
  ASSUME [Next]_vars, NEW t \in Task, startLog'[t] # startLog[t]
  PROVE  \E c \in Caller : BeginCommit(c)
  <1>1. ASSUME NEW c \in Caller, Begins(c) PROVE startLog' = startLog
    BY <1>1 DEF Begins, CallSetTaskStatus, CallUpdateTaskStatus, CallUpdateTask,
       CallCompleteTask, CallBeginTask, Start
  <1>2. ASSUME NEW c \in Caller, NEW matches \in SUBSET Task, CallReconcile(c, matches)
        PROVE  startLog' = startLog
    BY <1>2 DEF CallReconcile, Start
  <1>3. ASSUME NEW c \in Caller, Step(c), ~BeginCommit(c) PROVE startLog' = startLog
    BY <1>3 DEF Step, SetRead, GuardRead, GuardWrite, GuardReread, UpdateGate, UpdateRead,
       UpdateWrite, CompleteTask, BeginRead, BeginGuardedUpdate, BeginResolve,
       CreateActivityLog, ApplyOnePRMatch, PRLog, PRCommit, NoWrite, OnlyTasks
  <1>4. ASSUME NEW c \in Caller, StoreError(c) PROVE startLog' = startLog
    BY <1>4 DEF StoreError
  <1>5. Background => startLog' = startLog
    BY DEF Background, CreateTask, DeleteTaskRow, MarkInProgress, MarkCompleted, OnlyTasks
  <1>6. UNCHANGED vars => startLog' = startLog
    BY DEF vars
  <1>7. QED
    BY <1>1, <1>2, <1>3, <1>4, <1>5, <1>6 DEF Next

(* begin_task logs a work_session_started row only in the step that moves its *)
(* task into in_progress, and one at most, for any number of callers.         *)
THEOREM StartIsLoggedOnce == Spec => StartLoggedOnce
  <1>1. ASSUME TaskStoreInv, [Next]_vars, NEW t \in Task, startLog'[t] # startLog[t]
        PROVE  /\ startLog'[t] = startLog[t] + 1
               /\ tasks[t].status \in Statuses \ {"in_progress"}
               /\ tasks'[t].status = "in_progress"
    <2>1. PICK c \in Caller : BeginCommit(c)
      BY <1>1, OnlyCommitLogs
    <2>2. startLog \in [Task -> Nat] /\ tasks \in [Task -> Rows]
      BY <1>1 DEF TaskStoreInv, TypeOK
    <2>3. call[c].t = t
      BY <1>1, <2>1, <2>2 DEF BeginCommit
    <2>4. tasks[t].status \in Statuses \ {"in_progress"}
      BY <1>1, <2>1, <2>3 DEF BeginCommit, TaskStoreInv, CallInv, InTx
    <2>5. tasks'[t].status = "in_progress"
      BY <2>1, <2>2, <2>3 DEF BeginCommit, UpdateRow, Row, Rows
    <2>6. QED
      BY <2>1, <2>2, <2>3, <2>4, <2>5 DEF BeginCommit
  <1>2. TaskStoreInv /\ [Next]_vars =>
          [\A t \in Task : startLog'[t] # startLog[t] =>
             /\ startLog'[t] = startLog[t] + 1
             /\ tasks[t].status \in Statuses \ {"in_progress"}
             /\ tasks'[t].status = "in_progress"]_vars
    BY <1>1
  <1>3. QED
    BY <1>2, TaskStoreInvariant, PTL DEF Spec, StartLoggedOnce

------------------------------------------------------------------------------
(* What one step does to a row and to a call *)

(* What a step may do to a row: it keeps its commits; its artifact is replaced *)
(* by one that completes it; it loses its owner only to the batch mark's TRIM. *)
ArtifactSupplied(t) ==
  /\ tasks'[t].artifact # NoArtifact
  /\ tasks'[t].status = "completed"
  /\ \/ tasks[t].status \in {"pending", "in_progress"}
     \/ \E c \in Caller : /\ call[c].pc = "complete"
                          /\ call[c].t = t
                          /\ call[c].art = tasks'[t].artifact

MarkedBlank(t) ==
  /\ tasks[t].status = "pending"
  /\ tasks[t].assignee \in WideBlank
  /\ tasks'[t].assignee = tasks[t].assignee

RowKept(t) ==
  /\ Alive(t) =>
       /\ tasks[t].commit_shas \subseteq tasks'[t].commit_shas
       /\ tasks[t].artifact \notin {NoArtifact, tasks'[t].artifact} => ArtifactSupplied(t)
  /\ Unowned(t)' => Unowned(t) \/ MarkedBlank(t)

LEMMA SameRowsKept == ASSUME tasks' = tasks PROVE \A t \in Task : RowKept(t)
  BY DEF RowKept, Unowned, Blank

(* A statement that writes one row, with an owned row that keeps what was there. *)
LEMMA OneRowKept ==
  ASSUME TaskStoreInv, NEW t \in Task, NEW row, UpdateRow(t, row),
         tasks[t].commit_shas \subseteq row.commit_shas,
         row.status = "in_progress" => ~Blank(row.assignee),
         \/ row.artifact = tasks[t].artifact
         \/ /\ row.artifact # NoArtifact /\ row.status = "completed"
            /\ \/ tasks[t].status \in {"pending", "in_progress"}
               \/ \E c \in Caller : /\ call[c].pc = "complete"
                                    /\ call[c].t = t
                                    /\ call[c].art = row.artifact
  PROVE  \A u \in Task : RowKept(u)
  <1>1. tasks'[t] = row /\ \A u \in Task \ {t} : tasks'[u] = tasks[u]
    BY DEF TaskStoreInv, TypeOK, UpdateRow
  <1>2. \A u \in Task \ {t} : RowKept(u)
    BY <1>1 DEF RowKept, Unowned, Blank
  <1>3. RowKept(t)
    BY <1>1 DEF RowKept, Unowned, Blank, ArtifactSupplied
  <1>4. QED
    BY <1>2, <1>3

LEMMA CompletedRowKeeps ==
  ASSUME NEW row \in Rows, NEW a \in Artifacts \cup {NoArtifact}
  PROVE  /\ CompletedRow(row, a).status = "completed"
         /\ CompletedRow(row, a).commit_shas = row.commit_shas
         /\ CompletedRow(row, a).artifact = IF a = NoArtifact THEN row.artifact ELSE a
  BY DEF CompletedRow, Rows

LEMMA StepKeepsRows ==
  ASSUME TaskStoreInv, NEW c \in Caller, Step(c)
  PROVE  \A t \in Task : RowKept(t)
  <1>1. \A t \in Task : tasks[t] \in Rows
    BY DEF TaskStoreInv, TypeOK
  <1>2. call[c].pc \notin {"idle", "done", "pr_update"} => call[c].t \in Task
    BY DEF TaskStoreInv, CallInv
  <1>3. CASE tasks' = tasks
    BY <1>3, SameRowsKept
  <1>4. CASE GuardWrite(c) /\ GuardHolds(c)
    <2> DEFINE row == [Row(c) EXCEPT !.status = call[c].want]
    <2>1. call[c].t \in Task /\ Row(c) = tasks[call[c].t] /\ UpdateRow(call[c].t, row)
      BY <1>2, <1>4 DEF GuardWrite, Row
    <2>2. /\ row.status = call[c].want /\ row.assignee = Row(c).assignee
          /\ row.artifact = Row(c).artifact /\ row.commit_shas = Row(c).commit_shas
      BY <1>1, <2>1 DEF Rows
    <2>3. row.status = "in_progress" => ~Blank(row.assignee)
      BY <1>4, <2>2 DEF GuardHolds, RequireAssigneeForInProgress
    <2> HIDE DEF row
    <2>4. QED
      BY <2>1, <2>2, <2>3, OneRowKept
  <1>5. CASE UpdateWrite(c)
    <2>1. CASE UpdateRow(call[c].t, WrittenRow(c))
      <3>1. /\ call[c].t \in Task /\ Row(c) = tasks[call[c].t]
            /\ RequireAssigneeForInProgress(call[c].snap.assignee, call[c].snap.status)
        BY <1>2, <1>5 DEF UpdateWrite, Row, TaskStoreInv, CallInv
      <3>2. /\ Row(c).commit_shas \subseteq WrittenRow(c).commit_shas
            /\ WrittenRow(c).artifact = Row(c).artifact
            /\ WrittenRow(c).status = "in_progress" => ~Blank(WrittenRow(c).assignee)
        BY <1>5, <3>1, WrittenRowInv DEF UpdateWrite, RequireAssigneeForInProgress
      <3>3. QED
        BY <2>1, <3>1, <3>2, OneRowKept
    <2>2. QED
      BY <1>3, <1>5, <2>1 DEF UpdateWrite, NoWrite
  <1>6. CASE CompleteTask(c)
    <2> DEFINE row == CompletedRow(Row(c), call[c].art)
    <2>1. CASE UpdateRow(call[c].t, row)
      <3>1. /\ call[c].t \in Task /\ Row(c) \in Rows /\ call[c].art \in Artifacts \cup {NoArtifact}
            /\ call[c].pc = "complete"
        BY <1>1, <1>2, <1>6 DEF CompleteTask, Row, TaskStoreInv, TypeOK, Calls
      <3>2. /\ row.status = "completed" /\ row.commit_shas = Row(c).commit_shas
            /\ row.artifact = IF call[c].art = NoArtifact THEN Row(c).artifact ELSE call[c].art
        BY <3>1, CompletedRowKeeps
      <3> HIDE DEF row
      <3>3. QED
        BY <2>1, <3>1, <3>2, OneRowKept DEF Row
    <2>2. QED
      BY <1>3, <1>6, <2>1 DEF CompleteTask, NoWrite
  <1>7. CASE BeginCommit(c)
    <2> DEFINE row == [Row(c) EXCEPT !.status = "in_progress"]
    <2>1. /\ call[c].t \in Task /\ Row(c) \in Rows /\ Row(c) = tasks[call[c].t]
          /\ ~Blank(Row(c).assignee) /\ UpdateRow(call[c].t, row)
      BY <1>1, <1>2, <1>7 DEF BeginCommit, Row, TaskStoreInv, CallInv, InTx
    <2>2. /\ row.assignee = Row(c).assignee /\ row.artifact = Row(c).artifact
          /\ row.commit_shas = Row(c).commit_shas
      BY <2>1 DEF Rows
    <2> HIDE DEF row
    <2>3. QED
      BY <2>1, <2>2, OneRowKept
  <1>8. CASE \E t \in Task, u \in PRUrl : ApplyOnePRMatch(c, t, u)
    <2>1. PICK t \in Task, u \in PRUrl : ApplyOnePRMatch(c, t, u)
      BY <1>8
    <2> DEFINE row == [tasks[t] EXCEPT !.status = "completed", !.artifact = u, !.pr_url = u]
    <2>2. CASE OpenForPR(t) /\ UpdateRow(t, row)
      <3>1. /\ row.commit_shas = tasks[t].commit_shas /\ row.status = "completed"
            /\ row.artifact # NoArtifact
        BY <1>1, NoArtifactAssumption DEF Rows
      <3>2. tasks[t].status \in {"pending", "in_progress"}
        BY <2>2 DEF OpenForPR
      <3> HIDE DEF row
      <3>3. QED
        BY <2>2, <3>1, <3>2, OneRowKept
    <2>3. QED
      BY <1>3, <2>1, <2>2 DEF ApplyOnePRMatch, NoWrite
  <1>9. CASE GuardWrite(c) /\ ~GuardHolds(c)
    BY <1>3, <1>9 DEF GuardWrite, NoWrite
  <1>10. QED
    BY <1>3, <1>4, <1>5, <1>6, <1>7, <1>8, <1>9
    DEF Step, SetRead, GuardRead, GuardReread, UpdateGate, UpdateRead, BeginRead,
        BeginGuardedUpdate, BeginResolve, CreateActivityLog, PRLog, PRCommit, NoWrite

(* The batch mark: a row it starts has an owner, or text that TRIM leaves. *)
LEMMA MarkInProgressKeeps ==
  ASSUME TaskStoreInv, NEW ts \in SUBSET Task, NEW a \in Actor \cup {NoActor}, MarkInProgress(ts, a),
         NEW t \in Task
  PROVE  RowKept(t)
  <1>1. tasks[t] \in Rows
    BY DEF TaskStoreInv, TypeOK
  <1>2. CASE t \in ts /\ Markable(t, a)
    <2> DEFINE as == IF TrimmedBlank(tasks[t].assignee) THEN a ELSE tasks[t].assignee
    <2>1. tasks'[t] = [tasks[t] EXCEPT !.status = "in_progress", !.assignee = as]
      BY <1>2 DEF MarkInProgress
    <2>2. tasks[t].status = "pending" /\ (Blank(as) => as \in WideBlank /\ as = tasks[t].assignee)
      BY <1>1, <1>2 DEF Markable, TrimmedBlank, Blank, Rows, Assignees
    <2> HIDE DEF as
    <2>3. /\ tasks'[t].assignee = as /\ tasks'[t].commit_shas = tasks[t].commit_shas
          /\ tasks'[t].artifact = tasks[t].artifact
      BY <1>1, <2>1 DEF Rows
    <2>4. Unowned(t)' => MarkedBlank(t)
      BY <2>2, <2>3 DEF Unowned, Blank, MarkedBlank
    <2>5. QED
      BY <2>3, <2>4 DEF RowKept
  <1>3. CASE ~(t \in ts /\ Markable(t, a))
    <2>1. tasks'[t] = tasks[t]
      BY <1>3 DEF MarkInProgress
    <2>2. QED
      BY <2>1 DEF RowKept, Unowned, Blank
  <1>4. QED
    BY <1>2, <1>3

LEMMA MarkCompletedKeeps ==
  ASSUME TaskStoreInv, NEW ts \in SUBSET Task, NEW a \in Artifacts \cup {NoArtifact}, MarkCompleted(ts, a),
         NEW t \in Task
  PROVE  RowKept(t)
  <1>1. tasks[t] \in Rows
    BY DEF TaskStoreInv, TypeOK
  <1>2. CASE tasks'[t] = tasks[t]
    BY <1>2 DEF RowKept, Unowned, Blank
  <1>3. CASE tasks'[t] # tasks[t]
    <2>1. tasks'[t] = CompletedRow(tasks[t], a) /\ tasks[t].status \in {"pending", "in_progress"}
      BY <1>3 DEF MarkCompleted, Exists, Statuses
    <2>2. /\ tasks'[t].status = "completed" /\ tasks'[t].commit_shas = tasks[t].commit_shas
          /\ tasks'[t].artifact = IF a = NoArtifact THEN tasks[t].artifact ELSE a
      BY <1>1, <2>1, CompletedRowKeeps
    <2>3. QED
      BY <2>1, <2>2 DEF RowKept, Unowned, ArtifactSupplied
  <1>4. QED
    BY <1>2, <1>3

LEMMA NextKeepsRows ==
  ASSUME TaskStoreInv, [Next]_vars
  PROVE  \A t \in Task : RowKept(t)
  <1>1. \A t \in Task : tasks[t] \in Rows
    BY DEF TaskStoreInv, TypeOK
  <1>2. CASE tasks' = tasks
    BY <1>2, SameRowsKept
  <1>3. ASSUME NEW c \in Caller,
               \/ Begins(c)
               \/ \E matches \in SUBSET Task : CallReconcile(c, matches)
               \/ StoreError(c)
        PROVE  tasks' = tasks
    BY <1>3 DEF Begins, CallSetTaskStatus, CallUpdateTaskStatus, CallUpdateTask, CallCompleteTask,
       CallBeginTask, CallReconcile, Start, StoreError
  <1>4. ASSUME NEW t \in Task, (\E a \in Assignees : CreateTask(t, a)) \/ DeleteTaskRow(t)
        PROVE  \A u \in Task : RowKept(u)
    <2>1. \A u \in Task \ {t} : tasks'[u] = tasks[u]
      BY <1>4 DEF CreateTask, DeleteTaskRow, UpdateRow, TaskStoreInv, TypeOK
    <2>2. ~Alive(t)
      BY <1>1, <1>4 DEF CreateTask, DeleteTaskRow, UpdateRow, Alive, Exists, Statuses, Unborn, NewRow,
         TaskStoreInv, TypeOK
    <2>3. tasks'[t].status \in {"pending", "deleted"}
      <3>1. CASE \E a \in Assignees : CreateTask(t, a)
        <4>1. PICK a \in Assignees : tasks'[t] = NewRow(a)
          BY <3>1 DEF CreateTask, UpdateRow, TaskStoreInv, TypeOK
        <4>2. QED
          BY <4>1 DEF NewRow
      <3>2. CASE DeleteTaskRow(t)
        <4>1. tasks'[t] = [Unborn EXCEPT !.status = "deleted"]
          BY <3>2 DEF DeleteTaskRow, UpdateRow, TaskStoreInv, TypeOK
        <4>2. QED
          BY <4>1 DEF Unborn, NewRow
      <3>3. QED
        BY <1>4, <3>1, <3>2
    <2>4. QED
      BY <2>1, <2>2, <2>3 DEF RowKept, Unowned, Blank
  <1>5. CASE Background
    BY <1>4, <1>5, MarkInProgressKeeps, MarkCompletedKeeps DEF Background
  <1>6. QED
    BY <1>2, <1>3, <1>5, StepKeepsRows DEF Next, vars

(* No task in progress is without an owner but one the batch mark started on a *)
(* stored text that only TrimSpace empties, for any set of such texts.         *)
THEOREM StartsAreOwned == Spec => StartsOwned
  <1>1. TaskStoreInv /\ [Next]_vars =>
          [\A t \in Task : Unowned(t)' =>
             \/ Unowned(t)
             \/ /\ tasks[t].status = "pending"
                /\ tasks[t].assignee \in WideBlank
                /\ tasks'[t].assignee = tasks[t].assignee]_vars
    BY NextKeepsRows DEF RowKept, MarkedBlank
  <1>2. QED
    BY <1>1, TaskStoreInvariant, PTL DEF Spec, StartsOwned

(* Commit ids recorded on a task stay while it exists, however stale the rows *)
(* are that concurrent update_task calls merge and write back.                *)
THEOREM CommitsAreKept == Spec => NoCommitLost
  <1>1. TaskStoreInv /\ [Next]_vars =>
          [\A t \in Task : Alive(t) => tasks[t].commit_shas \subseteq tasks'[t].commit_shas]_vars
    BY NextKeepsRows DEF RowKept
  <1>2. QED
    BY <1>1, TaskStoreInvariant, PTL DEF Spec, NoCommitLost

(* An artifact once recorded is replaced only by one that a completion        *)
(* supplies, the empty text of an HTTP request included, and by nothing else. *)
THEOREM ArtifactIsKept == Spec => ArtifactKept
  <1>1. TaskStoreInv /\ [Next]_vars =>
          [\A t \in Task : Alive(t) /\ tasks[t].artifact \notin {NoArtifact, tasks'[t].artifact} =>
             /\ tasks'[t].artifact # NoArtifact
             /\ tasks'[t].status = "completed"
             /\ \/ tasks[t].status \in {"pending", "in_progress"}
                \/ \E c \in Caller : /\ call[c].pc = "complete"
                                     /\ call[c].t = t
                                     /\ call[c].art = tasks'[t].artifact]_vars
    BY NextKeepsRows DEF RowKept, ArtifactSupplied
  <1>2. QED
    BY <1>1, TaskStoreInvariant, PTL DEF Spec, ArtifactKept

(* Only its own steps move a call. *)
LEMMA OthersKeepCall ==
  ASSUME TaskStoreInv, [Next]_vars, NEW c \in Caller, call'[c] # call[c]
  PROVE  \/ Begins(c)
         \/ \E matches \in SUBSET Task : CallReconcile(c, matches)
         \/ Step(c)
         \/ StoreError(c)
  <1>1. ASSUME NEW d \in Caller \ {c}, Begins(d) PROVE FALSE
    BY <1>1 DEF Begins, CallSetTaskStatus, CallUpdateTaskStatus, CallUpdateTask, CallCompleteTask,
       CallBeginTask, Start, TaskStoreInv, TypeOK
  <1>2. ASSUME NEW d \in Caller \ {c}, NEW matches \in SUBSET Task, CallReconcile(d, matches) PROVE FALSE
    BY <1>2 DEF CallReconcile, Start, TaskStoreInv, TypeOK
  <1>3. ASSUME NEW d \in Caller \ {c}, Step(d) PROVE FALSE
    <2>1. call \in [Caller -> Calls]
      BY DEF TaskStoreInv, TypeOK
    <2>2. ~(SetRead(d) \/ GuardRead(d) \/ GuardWrite(d) \/ GuardReread(d) \/ UpdateGate(d))
      BY <2>1, <1>3 DEF SetRead, GuardRead, GuardWrite, GuardReread, UpdateGate, Return, Goto
    <2>3. ~(UpdateRead(d) \/ UpdateWrite(d) \/ CompleteTask(d))
      BY <2>1, <1>3 DEF UpdateRead, UpdateWrite, CompleteTask, UpdateFailed, AfterUpdate, AfterComplete,
         Return, Goto
    <2>4. ~(BeginRead(d) \/ BeginGuardedUpdate(d) \/ BeginResolve(d) \/ CreateActivityLog(d) \/ BeginCommit(d))
      BY <2>1, <1>3 DEF BeginRead, BeginGuardedUpdate, BeginResolve, CreateActivityLog, BeginCommit,
         AfterBegin, Return, Goto
    <2>5. ~(PRLog(d) \/ PRCommit(d) \/ \E t \in Task, u \in PRUrl : ApplyOnePRMatch(d, t, u))
      BY <2>1, <1>3 DEF PRLog, PRCommit, ApplyOnePRMatch, Return, Goto
    <2>6. QED
      BY <1>3, <2>2, <2>3, <2>4, <2>5 DEF Step
  <1>4. ASSUME NEW d \in Caller \ {c}, StoreError(d) PROVE FALSE
    BY <1>4 DEF StoreError, UpdateFailed, Return, TaskStoreInv, TypeOK
  <1>5. Background => call' = call
    BY DEF Background, CreateTask, DeleteTaskRow, MarkInProgress, MarkCompleted
  <1>6. QED
    BY <1>1, <1>2, <1>3, <1>4, <1>5 DEF Next, vars

(* A step that neither brings set_task_status to its write nor closes a task. *)
Aside(c) ==
  /\ ~(call'[c].op = "set_task_status" /\ call'[c].pc \in {"guard_read", "guard_write"})
  /\ call'[c].applied \subseteq call[c].applied

LEMMA StartAside ==
  ASSUME TaskStoreInv, NEW c \in Caller, NEW r, Start(c, r), r.applied = {},
         ~(r.op = "set_task_status" /\ r.pc \in {"guard_read", "guard_write"})
  PROVE  Aside(c)
  BY DEF Start, Aside, TaskStoreInv, TypeOK

LEMMA BeginsAside ==
  ASSUME TaskStoreInv, NEW c \in Caller,
         Begins(c) \/ \E matches \in SUBSET Task : CallReconcile(c, matches)
  PROVE  Aside(c)
  <1>1. ASSUME NEW t \in Task, NEW s \in Statuses, CallSetTaskStatus(c, t, s) PROVE Aside(c)
    BY <1>1, StartAside DEF CallSetTaskStatus, Idle
  <1>2. ASSUME NEW t \in Task, NEW s \in Statuses, CallUpdateTaskStatus(c, t, s) PROVE Aside(c)
    BY <1>2, StartAside DEF CallUpdateTaskStatus, Idle
  <1>3. ASSUME NEW t \in Task, NEW p, NEW entry \in {"gate", "upd_read"}, CallUpdateTask(c, t, p, entry)
        PROVE  Aside(c)
    BY <1>3, StartAside DEF CallUpdateTask, Idle
  <1>4. ASSUME NEW t \in Task, NEW a, CallCompleteTask(c, t, a) PROVE Aside(c)
    BY <1>4, StartAside DEF CallCompleteTask, Idle
  <1>5. ASSUME NEW t \in Task, NEW a, NEW u, CallBeginTask(c, t, a, u) PROVE Aside(c)
    BY <1>5, StartAside DEF CallBeginTask, Idle
  <1>6. ASSUME NEW matches \in SUBSET Task, CallReconcile(c, matches) PROVE Aside(c)
    BY <1>6, StartAside DEF CallReconcile, Idle
  <1>7. QED
    BY <1>1, <1>2, <1>3, <1>4, <1>5, <1>6 DEF Begins

LEMMA ReturnAside ==
  ASSUME TaskStoreInv, NEW c \in Caller, NEW r, Return(c, r)
  PROVE  Aside(c) /\ call'[c].result = r
  BY DEF Return, Finished, Idle, Aside, TaskStoreInv, TypeOK

LEMMA GotoAside ==
  ASSUME TaskStoreInv, NEW c \in Caller, NEW pc, Goto(c, pc), pc \notin {"guard_read", "guard_write"}
  PROVE  Aside(c) /\ call'[c].pc = pc
  BY DEF Goto, Aside, TaskStoreInv, TypeOK, Calls

LEMMA StepAside ==
  ASSUME TaskStoreInv, NEW c \in Caller, Step(c)
  PROVE  Aside(c) \/ SetRead(c) \/ GuardRead(c) \/ \E t \in Task, u \in PRUrl : ApplyOnePRMatch(c, t, u)
  <1>1. call \in [Caller -> Calls]
    BY DEF TaskStoreInv, TypeOK
  <1>2. CASE GuardWrite(c) \/ GuardReread(c) \/ UpdateGate(c)
    BY <1>2, ReturnAside, GotoAside DEF GuardWrite, GuardReread, UpdateGate
  <1>3. CASE UpdateRead(c)
    <2> DEFINE merged == Merged(call[c].params, Row(c))
               spent == [Nil EXCEPT !.sha = call[c].params.sha]
    <2>1. CASE call' = [call EXCEPT ![c].pc = "upd_write", ![c].snap = merged, ![c].params = spent]
      BY <1>1, <2>1 DEF Aside, Calls
    <2>2. QED
      BY <1>3, <2>1, ReturnAside DEF UpdateRead, UpdateFailed
  <1>4. CASE UpdateWrite(c)
    <2>1. CASE call' = [call EXCEPT ![c].pc = "begin_read", ![c].params = Nil, ![c].snap = Unborn]
      BY <1>1, <2>1 DEF Aside, Calls
    <2>2. QED
      BY <1>4, <2>1, ReturnAside DEF UpdateWrite, UpdateFailed, AfterUpdate
  <1>5. CASE CompleteTask(c)
    <2>1. CASE call' = [call EXCEPT ![c].pc = "upd_read", ![c].params = ArtifactParams(call[c].art)]
      BY <1>1, <2>1 DEF Aside, Calls
    <2>2. QED
      BY <1>5, <2>1, ReturnAside DEF CompleteTask, AfterComplete
  <1>6. ASSUME AfterBegin(c) PROVE Aside(c)
    <2>1. CASE call' = [call EXCEPT ![c].pc = "upd_read", ![c].begun = TRUE,
                                    ![c].params = [Nil EXCEPT !.pr_url = call[c].linkage]]
      BY <1>1, <2>1 DEF Aside, Calls
    <2>2. QED
      BY <1>6, <2>1, ReturnAside DEF AfterBegin
  <1>7. CASE BeginRead(c) \/ BeginGuardedUpdate(c) \/ BeginResolve(c) \/ CreateActivityLog(c) \/ BeginCommit(c)
    BY <1>6, <1>7, ReturnAside, GotoAside
    DEF BeginRead, BeginGuardedUpdate, BeginResolve, CreateActivityLog, BeginCommit
  <1>8. CASE PRLog(c) \/ PRCommit(c)
    BY <1>8, ReturnAside, GotoAside DEF PRLog, PRCommit
  <1>9. QED
    BY <1>2, <1>3, <1>4, <1>5, <1>7, <1>8 DEF Step

(* Who may do it: the two reads of set_task_status, and the PR match. *)
LEMMA NextAside ==
  ASSUME TaskStoreInv, [Next]_vars, NEW c \in Caller, call'[c] # call[c]
  PROVE  Aside(c) \/ SetRead(c) \/ GuardRead(c) \/ \E t \in Task, u \in PRUrl : ApplyOnePRMatch(c, t, u)
  <1>1. CASE StoreError(c)
    BY <1>1, ReturnAside DEF StoreError, UpdateFailed
  <1>2. QED
    BY <1>1, OthersKeepCall, BeginsAside, StepAside

(* A set_task_status about to write holds the status it validated. *)
SetValidated ==
  \A c \in Caller :
    call[c].op = "set_task_status" /\ call[c].pc \in {"guard_read", "guard_write"} =>
      call[c].expected # AnyStatus

LEMMA InitSetValidated == Init => SetValidated
  BY DEF Init, SetValidated, Idle

LEMMA NextSetValidated ==
  ASSUME TaskStoreInv, SetValidated, [Next]_vars
  PROVE  SetValidated'
  <1> SUFFICES ASSUME NEW c \in Caller, call'[c] # call[c], call'[c].op = "set_task_status",
                      call'[c].pc \in {"guard_read", "guard_write"}
               PROVE  call'[c].expected # AnyStatus
    BY DEF SetValidated
  <1>1. call \in [Caller -> Calls] /\ tasks \in [Task -> Rows]
    BY DEF TaskStoreInv, TypeOK
  <1>2. ASSUME NEW r, Return(c, r) PROVE FALSE
    BY <1>2, ReturnAside DEF Aside
  <1>3. CASE SetRead(c)
    <2>1. call' = [call EXCEPT ![c].pc = "guard_read", ![c].expected = Row(c).status] /\ Exists(call[c].t)
      BY <1>2, <1>3 DEF SetRead
    <2>2. call'[c].expected = Row(c).status
      BY <1>1, <2>1 DEF Calls
    <2>3. QED
      BY <2>1, <2>2, AnyStatusAssumption DEF Row, Exists, Statuses
  <1>4. CASE GuardRead(c)
    <2>1. Goto(c, "guard_write")
      BY <1>2, <1>4 DEF GuardRead
    <2>2. call'[c].op = call[c].op /\ call'[c].expected = call[c].expected
      BY <1>1, <2>1 DEF Goto, Calls
    <2>3. QED
      BY <1>4, <2>2 DEF GuardRead, SetValidated
  <1>5. CASE \E t \in Task, u \in PRUrl : ApplyOnePRMatch(c, t, u)
    BY <1>1, <1>5 DEF ApplyOnePRMatch, Calls
  <1>6. QED
    BY <1>3, <1>4, <1>5, NextAside DEF Aside

(* set_task_status writes over the status it validated and over no other, for *)
(* any number of concurrent writers of the row.                               *)
THEOREM SetIsOverValidated == Spec => SetOnlyOverValidated
  <1> DEFINE Overwrites(c) ==
               /\ call[c].op = "set_task_status"
               /\ call[c].pc = "guard_write"
               /\ call'[c].pc = "done" /\ call'[c].result = "ok"
  <1>1. ASSUME TaskStoreInv, SetValidated, [Next]_vars, NEW c \in Caller, Overwrites(c)
        PROVE  tasks[call[c].t].status = call[c].expected
    <2>1. call \in [Caller -> Calls]
      BY <1>1 DEF TaskStoreInv, TypeOK
    <2>2. ~Begins(c) /\ ~ \E matches \in SUBSET Task : CallReconcile(c, matches)
      BY <1>1 DEF Begins, CallSetTaskStatus, CallUpdateTaskStatus, CallUpdateTask, CallCompleteTask,
         CallBeginTask, CallReconcile, Start
    <2>3. ~StoreError(c)
      BY <1>1, <2>1 DEF StoreError, UpdateFailed, Return, Finished, Idle
    <2>4. Step(c)
      BY <1>1, <2>2, <2>3, OthersKeepCall
    <2>5. GuardWrite(c)
      BY <1>1, <2>4 DEF Step, SetRead, GuardRead, GuardReread, UpdateGate, UpdateRead, UpdateWrite,
         CompleteTask, BeginRead, BeginGuardedUpdate, BeginResolve, CreateActivityLog, BeginCommit,
         ApplyOnePRMatch, PRLog, PRCommit
    <2>6. GuardHolds(c)
      <3>1. ~Goto(c, "guard_reread")
        BY <1>1, GotoAside
      <3>2. QED
        BY <2>5, <3>1 DEF GuardWrite
    <2>7. QED
      BY <1>1, <2>6 DEF GuardHolds, SetValidated, Row
  <1>2. TaskStoreInv /\ SetValidated /\ [Next]_vars =>
          [\A c \in Caller : LET t == call[c].t IN
             /\ call[c].op = "set_task_status"
             /\ call[c].pc = "guard_write"
             /\ call'[c].pc = "done" /\ call'[c].result = "ok"
             => tasks[t].status = call[c].expected]_vars
    BY <1>1
  <1>3. TaskStoreInv /\ SetValidated /\ [Next]_vars => SetValidated'
    BY NextSetValidated
  <1>4. QED
    BY <1>2, <1>3, InitSetValidated, TaskStoreInvariant, PTL DEF Spec, SetOnlyOverValidated

(* Every task that reconcile_merged_prs reports as applied it closed itself, *)
(* from an open status, whatever happened to the task since the preview.     *)
THEOREM AppliedIsClosedHere == Spec => AppliedMeansClosedHere
  <1>1. ASSUME TaskStoreInv, [Next]_vars, NEW c \in Caller, NEW t \in call'[c].applied \ call[c].applied
        PROVE  tasks[t].status \in {"pending", "in_progress"} /\ tasks'[t].status = "completed"
    <2>1. call \in [Caller -> Calls] /\ tasks \in [Task -> Rows]
      BY <1>1 DEF TaskStoreInv, TypeOK
    <2>2. call'[c] # call[c] /\ ~Aside(c)
      BY <1>1 DEF Aside
    <2>3. ~SetRead(c) /\ ~GuardRead(c)
      <3>1. ASSUME NEW r, Return(c, r) PROVE FALSE
        BY <1>1, <2>2, <3>1, ReturnAside
      <3>2. ASSUME Goto(c, "guard_write") PROVE FALSE
        BY <1>1, <2>1, <3>2 DEF Goto, Calls
      <3>3. ~SetRead(c)
        BY <1>1, <2>1, <3>1 DEF SetRead, Calls
      <3>4. QED
        BY <3>1, <3>2, <3>3 DEF GuardRead
    <2>4. PICK v \in Task, u \in PRUrl : ApplyOnePRMatch(c, v, u)
      BY <1>1, <2>2, <2>3, NextAside
    <2>5. v = t /\ OpenForPR(v)
      BY <1>1, <2>1, <2>4 DEF ApplyOnePRMatch, Calls
    <2>6. tasks' = [tasks EXCEPT ![v] = [tasks[v] EXCEPT !.status = "completed", !.artifact = u, !.pr_url = u]]
      BY <2>4, <2>5 DEF ApplyOnePRMatch, UpdateRow
    <2>7. QED
      BY <2>1, <2>5, <2>6 DEF OpenForPR, Rows
  <1>2. TaskStoreInv /\ [Next]_vars =>
          [\A c \in Caller : \A t \in call'[c].applied \ call[c].applied :
             /\ tasks[t].status \in {"pending", "in_progress"}
             /\ tasks'[t].status = "completed"]_vars
    BY <1>1
  <1>3. QED
    BY <1>2, TaskStoreInvariant, PTL DEF Spec, AppliedMeansClosedHere

(* Rows are locked by BeginGuardedUpdate, each by the call that holds it then. *)
LEMMA OnlyBeginLocks ==
  ASSUME TaskStoreInv, [Next]_vars, NEW t \in Task, lock'[t] \notin {lock[t], Nobody}
  PROVE  \E c \in Caller : BeginGuardedUpdate(c) /\ lock'[t] = c /\ call[c].t = t /\ call'[c].pc = "begin_log"
                          /\ call'[c].t = t
  <1>1. lock \in [Task -> Caller \cup {Nobody}] /\ call \in [Caller -> Calls]
    BY DEF TaskStoreInv, TypeOK
  <1>2. ASSUME NEW c \in Caller, Begins(c) \/ \E matches \in SUBSET Task : CallReconcile(c, matches)
        PROVE  FALSE
    BY <1>2 DEF Begins, CallSetTaskStatus, CallUpdateTaskStatus, CallUpdateTask, CallCompleteTask,
       CallBeginTask, CallReconcile, Start
  <1>3. ASSUME NEW c \in Caller, BeginCommit(c) \/ StoreError(c) PROVE FALSE
    BY <1>1, <1>3 DEF BeginCommit, StoreError
  <1>4. ASSUME NEW c \in Caller, Step(c), ~BeginCommit(c), ~BeginGuardedUpdate(c) PROVE FALSE
    BY <1>4 DEF Step, SetRead, GuardRead, GuardWrite, GuardReread, UpdateGate, UpdateRead,
       UpdateWrite, CompleteTask, BeginRead, BeginResolve, CreateActivityLog, ApplyOnePRMatch,
       PRLog, PRCommit, NoWrite, OnlyTasks
  <1>5. ~Background /\ ~UNCHANGED vars
    BY DEF Background, CreateTask, DeleteTaskRow, MarkInProgress, MarkCompleted, OnlyTasks, vars
  <1>6. PICK c \in Caller : BeginGuardedUpdate(c)
    BY <1>2, <1>3, <1>4, <1>5 DEF Next
  <1>7. lock' = [lock EXCEPT ![call[c].t] = c] /\ Goto(c, "begin_log")
    BY <1>6 DEF BeginGuardedUpdate, NoWrite
  <1>8. lock'[t] = c /\ call[c].t = t
    BY <1>1, <1>7
  <1>9. call'[c].pc = "begin_log" /\ call'[c].t = call[c].t
    BY <1>1, <1>7 DEF Goto, Calls
  <1>10. QED
    BY <1>6, <1>8, <1>9

(* A lock stays with a call that goes on in its transaction. *)
LEMMA LocksStayInTx ==
  ASSUME TaskStoreInv, LocksInTx, [Next]_vars, NEW t \in Task, lock'[t] = lock[t], lock[t] # Nobody
  PROVE  call'[lock[t]].pc \in InTx /\ call'[lock[t]].t = t
  <1>1. lock \in [Task -> Caller \cup {Nobody}] /\ call \in [Caller -> Calls]
    BY DEF TaskStoreInv, TypeOK
  <1>2. PICK c \in Caller : lock[t] = c
    BY <1>1
  <1>3. call[c].pc \in InTx /\ call[c].t = t
    BY <1>2 DEF LocksInTx
  <1>4. CASE call'[c] = call[c]
    BY <1>2, <1>3, <1>4
  <1>5. CASE call'[c] # call[c]
    <2>1. ~Begins(c) /\ ~\E matches \in SUBSET Task : CallReconcile(c, matches)
      BY <1>3 DEF Begins, CallSetTaskStatus, CallUpdateTaskStatus, CallUpdateTask, CallCompleteTask,
         CallBeginTask, CallReconcile, Start, InTx
    <2>2. ~StoreError(c) /\ ~BeginCommit(c)
      BY <1>1, <1>2, <1>3 DEF StoreError, BeginCommit
    <2>3. Step(c)
      BY <1>5, <2>1, <2>2, OthersKeepCall
    <2>4. CreateActivityLog(c)
      BY <1>3, <2>2, <2>3 DEF Step, SetRead, GuardRead, GuardWrite, GuardReread, UpdateGate, UpdateRead,
         UpdateWrite, CompleteTask, BeginRead, BeginGuardedUpdate, BeginResolve, ApplyOnePRMatch,
         PRLog, PRCommit, InTx
    <2>5. call'[c].pc = "begin_commit" /\ call'[c].t = t
      BY <1>1, <1>3, <2>4 DEF CreateActivityLog, Goto, Calls
    <2>6. QED
      BY <1>2, <2>5 DEF InTx
  <1>6. QED
    BY <1>4, <1>5

(* Who holds a row waits for none: waits for rows have no cycle, and no lock *)
(* outlives the transaction that took it.                                    *)
THEOREM LocksAreInTx == Spec => []LocksInTx
  <1>1. Init => LocksInTx
    BY DEF Init, LocksInTx
  <1>2. ASSUME TaskStoreInv, LocksInTx, [Next]_vars PROVE LocksInTx'
    <2>1. SUFFICES ASSUME NEW t \in Task, lock'[t] # Nobody
                   PROVE  call'[lock'[t]].pc \in InTx /\ call'[lock'[t]].t = t
      BY DEF LocksInTx, InTx
    <2>2. CASE lock'[t] = lock[t]
      BY <1>2, <2>1, <2>2, LocksStayInTx
    <2>3. CASE lock'[t] # lock[t]
      BY <1>2, <2>1, <2>3, OnlyBeginLocks DEF InTx
    <2>4. QED
      BY <2>2, <2>3
  <1>3. TaskStoreInv /\ LocksInTx /\ [Next]_vars => LocksInTx'
    BY <1>2
  <1>4. QED
    BY <1>1, <1>3, TaskStoreInvariant, PTL DEF Spec

=============================================================================
