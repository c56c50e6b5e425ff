------------------------------- MODULE Deletion -------------------------------
(***************************************************************************)
(* delete_task, delete_project and restore_project on Postgres: the        *)
(* two-step confirmation of deletion_confirm.go, whose tokens live in the  *)
(* server's memory, and the READ COMMITTED transactions that move rows to  *)
(* deletion_tombstones and back, statement by statement.  Other calls      *)
(* create tasks and move them between projects all the while.              *)
(*                                                                         *)
(* The rows that refer to a task or a project are not represented.  The    *)
(* cleanups that update them show as the point between the snapshot and    *)
(* the deletion where Postgres may pick the transaction as the victim of a *)
(* deadlock over such rows.                                                *)
(***************************************************************************)
EXTENDS Naturals, FiniteSets

CONSTANTS
  Caller,      \* concurrent tool calls
  Project,     \* project ids
  Task,        \* task ids, numbers: FOR UPDATE takes the rows in id order
  MaxPending,  \* maxPendingDeletions
  Retries,     \* deleteDeadlockRetries
  None,        \* no key, no project
  MaxCalls     \* bound on the number of calls started

ASSUME TaskAssumption == Task \subseteq Nat
ASSUME KeyAssumption == Project \cap Task = {}
ASSUME MaxPendingAssumption == MaxPending \in Nat
ASSUME RetriesAssumption == Retries \in Nat
ASSUME MaxCallsAssumption == MaxCalls \in Nat

VARIABLES
  projects,    \* the committed rows of projects
  home,        \* per task, its project_id, or why it has no row
  tombs,       \* the committed rows of deletion_tombstones, by group
  pending,     \* deleteTokens: per key, the record stored under it
  issued,      \* tokens handed out so far: a token is its number
  expired,     \* the keys whose record is older than 60 seconds
  spent,       \* the tokens that let a delete start
  now,         \* the last clock value read for deleted_at
  horizon,     \* tombstones older than this are out of the retention window
  call,        \* per caller, the call it is executing
  calls        \* calls started so far

tokenVars == <<pending, issued, expired, spent>>
rowVars == <<projects, home, tombs>>
timeVars == <<now, horizon>>
vars == <<rowVars, tokenVars, timeVars, call, calls>>

Loose == "loose"        \* project_id IS NULL
Unborn == "unborn"      \* not created yet
Gone == "gone"          \* deleted

Places == Project \cup {Loose}
ASSUME PlaceAssumption == Project \cap {Loose, Unborn, Gone} = {}

(* taskDeletionKey and projectDeletionKey: disjoint name spaces. *)
Key == Project \cup Task
ASSUME NoneAssumption == None \notin Key

(* A group is what one delete wrote: the rows share deletion_id and          *)
(* deleted_at, and the clock gives every delete another deleted_at.          *)
Groups == [at : Nat, project : Project \cup {None}, tasks : SUBSET Task]
NoGroup == [at |-> 0, project |-> None, tasks |-> {}]

Records == [token : Nat, expected : SUBSET Task]
NoRecord == [token |-> 0, expected |-> {}]

PCs == {"idle", "read", "list", "issue", "store", "load", "drop", "spend", "begin", "precheck",
        "scan", "lock", "snapshot", "rows", "row", "commit", "find", "found"}

Calls == [pc      : PCs,
          key     : Key \cup {None},
          rec     : Records,                    \* what Load returned
          sweep   : Key \cup {None},            \* an expired entry Range has reached
          seen    : SUBSET Task,                \* the task ids read by the preview
          at      : Nat,                        \* deletedAt
          cutoff  : Nat,                        \* deletedAt - DeletionTombstoneRetention
          scan    : SUBSET Task,                \* rows LockTaskRows has yet to lock
          locked  : SUBSET Task,                \* rows this transaction holds
          group   : Groups,                     \* the snapshot, or the group to restore
          took    : BOOLEAN,                    \* this transaction deleted the project row
          tries   : Nat]                        \* deadlock retries made

Idle == [pc |-> "idle", key |-> None, rec |-> NoRecord, sweep |-> None, seen |-> {},
         at |-> 0, cutoff |-> 0, scan |-> {}, locked |-> {}, group |-> NoGroup,
         took |-> FALSE, tries |-> 0]

Init ==
  /\ projects = Project
  /\ home \in [Task -> Places \cup {Unborn}]
  /\ tombs = {}
  /\ pending = [k \in Key |-> NoRecord]
  /\ issued = 0
  /\ expired = {}
  /\ spent = {}
  /\ now = 0
  /\ horizon = 0
  /\ call = [c \in Caller |-> Idle]
  /\ calls = 0

------------------------------------------------------------------------------
(* Shared steps *)

Live(t) == home[t] \in Places
Under(p) == {t \in Task : home[t] = p}             \* projectTaskIDs

HeldByOther(c, t) == \E d \in Caller \ {c} : t \in call[d].locked

(* A transaction that deleted the project row, or holds a group to restore it. *)
TakenByOther(c, p) == \E d \in Caller \ {c} : call[d].took /\ call[d].key = p
Restoring(g) == \E d \in Caller : call[d].pc = "found" /\ call[d].group = g

Goto(c, pc) == call' = [call EXCEPT ![c].pc = pc]
Return(c) == call' = [call EXCEPT ![c] = Idle]     \* releases whatever it holds

Start(c, record) ==
  /\ call[c].pc = "idle"
  /\ calls < MaxCalls
  /\ calls' = calls + 1
  /\ call' = [call EXCEPT ![c] = record]
  /\ UNCHANGED <<rowVars, tokenVars, timeVars>>

NoWrite == UNCHANGED <<rowVars, tokenVars, timeVars, calls>>

------------------------------------------------------------------------------
(* Step 1: the preview, which issues a token *)

CallPreview(c, k) == Start(c, [Idle EXCEPT !.pc = "read", !.key = k])

(* GetTaskByID or GetProjectByID: a missing row ends the call. *)
PreviewRead(c) ==
  /\ call[c].pc = "read"
  /\ \/ call[c].key \in projects /\ Goto(c, "list")
     \/ call[c].key \in Task /\ Live(call[c].key) /\ Goto(c, "issue")
     \/ call[c].key \in Project \ projects /\ Return(c)
     \/ call[c].key \in Task /\ ~Live(call[c].key) /\ Return(c)
  /\ NoWrite

PreviewList(c) ==
  /\ call[c].pc = "list"
  /\ call' = [call EXCEPT ![c].pc = "issue", ![c].seen = Under(call[c].key)]
  /\ NoWrite

Stored(k) == pending[k] # NoRecord

(* A record enters the map, or NoRecord replaces it. *)
Put(k, rec) ==
  /\ pending' = [pending EXCEPT ![k] = rec]
  /\ expired' = expired \ {k}

(* issuePendingDeletion first removes expired records.  Range hands it a key *)
(* and the record it saw; the Delete that follows names only the key.        *)
IssueSweep(c) ==
  /\ call[c].pc = "issue" /\ call[c].sweep = None
  /\ \E k \in expired : call' = [call EXCEPT ![c].sweep = k]
  /\ NoWrite

IssueSweepDelete(c) ==
  /\ call[c].pc = "issue" /\ call[c].sweep # None
  /\ Put(call[c].sweep, NoRecord)
  /\ call' = [call EXCEPT ![c].sweep = None]
  /\ UNCHANGED <<rowVars, issued, spent, timeVars, calls>>

SameKind(j, k) == (j \in Project) = (k \in Project)
InFlight(k) == {j \in Key : SameKind(j, k) /\ Stored(j)}

(* Range has ended, with its count of the records that stay. *)
IssueCount(c) ==
  /\ call[c].pc = "issue" /\ call[c].sweep = None
  /\ expired = {}
  /\ IF Cardinality(InFlight(call[c].key)) < MaxPending THEN Goto(c, "store") ELSE Return(c)
  /\ NoWrite

(* Store: whatever is there by now is replaced. *)
IssueStore(c) ==
  /\ call[c].pc = "store"
  /\ issued' = issued + 1
  /\ Put(call[c].key, [token |-> issued + 1, expected |-> call[c].seen])
  /\ Return(c)
  /\ UNCHANGED <<rowVars, spent, timeVars, calls>>

------------------------------------------------------------------------------
(* Step 2: spendPendingDeletion *)

CallConfirm(c, k) == Start(c, [Idle EXCEPT !.pc = "load", !.key = k])

(* Load and the checks of the loaded record.  The supplied token may be any  *)
(* text and the caller in any session: either comparison may fail.  An       *)
(* expired or a mismatched record is consumed, one of another session not.   *)
LoadToken(c) ==
  LET k == call[c].key
      Goes(pc) == call' = [call EXCEPT ![c].pc = pc, ![c].rec = pending[k]]
  IN
  /\ call[c].pc = "load"
  /\ \/ ~Stored(k) /\ Return(c)
     \/ Stored(k) /\ Goes("drop")                      \* mismatch, or expired
     \/ Stored(k) /\ k \notin expired /\ Return(c)     \* another session
     \/ Stored(k) /\ k \notin expired /\ Goes("spend")
  /\ NoWrite

(* CompareAndDelete: another session's fresh record under the key stays. *)
CompareAndDelete(c) ==
  IF pending[call[c].key] = call[c].rec
  THEN Put(call[c].key, NoRecord)
  ELSE UNCHANGED <<pending, expired>>

DropToken(c) ==
  /\ call[c].pc = "drop"
  /\ CompareAndDelete(c)
  /\ Return(c)
  /\ UNCHANGED <<rowVars, issued, spent, timeVars, calls>>

(* Mutant: the key is deleted whatever is stored under it. *)
MutSpendUnconditional(c) ==
  /\ call[c].pc = "spend"
  /\ Put(call[c].key, NoRecord)
  /\ Goto(c, "begin")
  /\ spent' = spent \cup {call[c].rec.token}
  /\ UNCHANGED <<rowVars, issued, timeVars, calls>>

SpendToken(c) ==
  /\ call[c].pc = "spend"
  /\ CompareAndDelete(c)
  /\ IF pending[call[c].key] = call[c].rec
     THEN Goto(c, "begin") /\ spent' = spent \cup {call[c].rec.token}
     ELSE Return(c) /\ UNCHANGED spent
  /\ UNCHANGED <<rowVars, issued, timeVars, calls>>

------------------------------------------------------------------------------
(* The delete transactions.  A statement that meets a row another            *)
(* transaction holds waits, then looks at the row again.                     *)

Kind(c) == IF call[c].key \in Project THEN "project" ELSE "task"

(* deletedAt is read before BeginTx, again on every retry.  No two reads of  *)
(* the clock tie here; Postgres keeps microseconds, so two deletes may share *)
(* a deleted_at, and their groups are told apart by deletion_id.  Only that  *)
(* TombstoneLedger gives every group a new time rests on it.                 *)
BeginTx(c) ==
  /\ call[c].pc = "begin"
  /\ now' = now + 1
  /\ call' = [call EXCEPT ![c].pc = "precheck", ![c].at = now + 1, ![c].cutoff = horizon]
  /\ UNCHANGED <<rowVars, tokenVars, horizon, calls>>

(* delete_project reads whether the project exists, delete_task locks its    *)
(* row; a missing row is a no-op.                                            *)
Precheck(c) ==
  LET k == call[c].key IN
  /\ call[c].pc = "precheck"
  /\ \/ k \in projects /\ Goto(c, "scan")
     \/ k \in Project \ projects /\ Return(c)
     \/ /\ k \in Task /\ Live(k) /\ ~HeldByOther(c, k)
        /\ call' = [call EXCEPT ![c].pc = "snapshot", ![c].locked = {k}]
     \/ k \in Task /\ ~Live(k) /\ Return(c)
  /\ NoWrite

(* LockTaskRows: SELECT ... ORDER BY id FOR UPDATE finds its rows first and  *)
(* locks them one by one, skipping a row that no longer matches.             *)
LockScan(c) ==
  /\ call[c].pc = "scan"
  /\ call' = [call EXCEPT ![c].pc = "lock", ![c].scan = Under(call[c].key)]
  /\ NoWrite

NextRow(c) == {t \in call[c].scan : \A u \in call[c].scan : t <= u}

(* Mutant: a row that was waited for is taken as it was found. *)
MutLockRowUnchecked(c) ==
  /\ call[c].pc = "lock"
  /\ \E t \in NextRow(c) :
       /\ ~HeldByOther(c, t)
       /\ call' = [call EXCEPT ![c].scan = @ \ {t}, ![c].locked = @ \cup {t}]
  /\ NoWrite

LockRow(c) ==
  /\ call[c].pc = "lock"
  /\ \E t \in NextRow(c) :
       /\ ~HeldByOther(c, t)
       /\ call' = [call EXCEPT ![c].scan = @ \ {t},
                               ![c].locked = IF home[t] = call[c].key THEN @ \cup {t} ELSE @]
  /\ NoWrite

(* Mutant: the preview's task set is not compared. *)
MutLockDoneAnySet(c) ==
  /\ call[c].pc = "lock" /\ call[c].scan = {}
  /\ Goto(c, "snapshot")
  /\ NoWrite

(* The set the preview showed, or ErrProjectTasksChanged. *)
LockDone(c) ==
  /\ call[c].pc = "lock" /\ call[c].scan = {}
  /\ IF call[c].locked = call[c].rec.expected THEN Goto(c, "snapshot") ELSE Return(c)
  /\ NoWrite

(* SnapshotProjectAndTasks, SnapshotTask.  The prune of old groups in the    *)
(* same transaction waits for a restore that holds one.                      *)
Snapshot(c) ==
  /\ call[c].pc = "snapshot"
  /\ \A g \in tombs : g.at < call[c].cutoff => ~Restoring(g)
  /\ call' = [call EXCEPT ![c].pc = "rows",
                ![c].group = [at |-> call[c].at,
                              project |-> IF call[c].key \in projects THEN call[c].key ELSE None,
                              tasks |-> call[c].locked]]
  /\ NoWrite

(* Mutant: the rows that are deleted are not compared with the locked ones. *)
MutDeleteRowsAnySet(c) ==
  /\ call[c].pc = "rows"
  /\ IF Kind(c) = "task" THEN Goto(c, "commit")
     ELSE /\ \A t \in Under(call[c].key) : ~HeldByOther(c, t)
          /\ call' = [call EXCEPT ![c].pc = "row", ![c].locked = Under(call[c].key)]
  /\ NoWrite

(* DeleteTaskRows must remove exactly the locked rows; the rows it removes   *)
(* stay in `locked' until the commit.                                        *)
DeleteTaskRows(c) ==
  /\ call[c].pc = "rows"
  /\ \/ Kind(c) = "task" /\ Goto(c, "commit")
     \/ /\ Kind(c) = "project"
        /\ \A t \in Under(call[c].key) : ~HeldByOther(c, t)
        /\ IF Under(call[c].key) = call[c].locked
           THEN call' = [call EXCEPT ![c].pc = "row", ![c].locked = Under(call[c].key)]
           ELSE Return(c)
  /\ NoWrite

(* No row to delete is no error. *)
DeleteProjectRow(c) ==
  /\ call[c].pc = "row"
  /\ ~TakenByOther(c, call[c].key)
  /\ call' = [call EXCEPT ![c].pc = "commit", ![c].took = call[c].key \in projects]
  /\ NoWrite

(* The audit row and the commit.  A snapshot that copied no row is no group. *)
Commit(c) ==
  LET g == call[c].group IN
  /\ call[c].pc = "commit"
  /\ projects' = IF call[c].took THEN projects \ {call[c].key} ELSE projects
  /\ home' = [t \in Task |-> IF t \in call[c].locked THEN Gone ELSE home[t]]
  /\ tombs' = {h \in tombs : h.at >= call[c].cutoff}
                \cup {h \in {g} : h.project # None \/ h.tasks # {}}
  /\ Return(c)
  /\ UNCHANGED <<tokenVars, timeVars, calls>>

(* 40P01, over task rows or rows that refer to them: retryDeadlockVictim. *)
DeadlockVictim(c) ==
  /\ call[c].pc \in {"lock", "snapshot", "rows"}
  /\ IF call[c].tries < Retries
     THEN call' = [call EXCEPT ![c] = [Idle EXCEPT !.pc = "begin", !.key = call[c].key,
                                         !.rec = call[c].rec, !.tries = call[c].tries + 1]]
     ELSE Return(c)
  /\ NoWrite

------------------------------------------------------------------------------
(* restore_project *)

CallRestore(c, p) == Start(c, [Idle EXCEPT !.pc = "find", !.key = p])

Restorable(p) == {g \in tombs : g.project = p /\ g.at >= horizon}
Latest(p) == {g \in Restorable(p) : \A h \in Restorable(p) : h.at <= g.at}

(* findAndLockRestorableGroup waits for the latest group and holds it. *)
RestoreFind(c) ==
  /\ call[c].pc = "find"
  /\ \/ Restorable(call[c].key) = {} /\ Return(c)
     \/ \E g \in Latest(call[c].key) :
          /\ ~Restoring(g)
          /\ call' = [call EXCEPT ![c].pc = "found", ![c].group = g]
  /\ NoWrite

(* Mutant: the group is not consumed. *)
MutConsumed(g) == tombs

Consumed(g) == tombs \ {g}

(* The conflict check, the two INSERTs, which refuse an id in use, the       *)
(* consumption of the group and the commit.                                  *)
RestoreWrite(c) ==
  LET g == call[c].group
      free == call[c].key \notin projects /\ \A t \in g.tasks : ~Live(t)
  IN
  /\ call[c].pc = "found"
  /\ IF free
     THEN /\ projects' = projects \cup {call[c].key}
          /\ home' = [t \in Task |-> IF t \in g.tasks THEN call[c].key ELSE home[t]]
          /\ tombs' = Consumed(g)
     ELSE UNCHANGED rowVars
  /\ Return(c)
  /\ UNCHANGED <<tokenVars, timeVars, calls>>

(* A statement fails: the deferred Rollback.  A token that was spent stays so. *)
StoreError(c) ==
  /\ call[c].pc \in PCs \ {"idle", "issue", "store", "load", "drop", "spend"}
  /\ Return(c)
  /\ NoWrite

------------------------------------------------------------------------------
(* What happens around the calls *)

(* CreateTask does not ask whether the project exists. *)
CreateTask(t, h) ==
  /\ home[t] = Unborn
  /\ home' = [home EXCEPT ![t] = h]
  /\ UNCHANGED <<projects, tombs, tokenVars, timeVars, call, calls>>

(* update_task: the project was seen to exist by an earlier statement. *)
MoveTask(t, h) ==
  /\ Live(t)
  /\ \A c \in Caller : t \notin call[c].locked
  /\ home' = [home EXCEPT ![t] = h]
  /\ UNCHANGED <<projects, tombs, tokenVars, timeVars, call, calls>>

ExpireToken(k) ==
  /\ Stored(k)
  /\ expired' = expired \cup {k}
  /\ UNCHANGED <<rowVars, pending, issued, spent, timeVars, call, calls>>

(* Thirty days pass between a delete and the end of its retention window. *)
Age(n) ==
  /\ horizon < n /\ n <= now + 1
  /\ \A c \in Caller : call[c].at > 0 => n <= call[c].at
  /\ horizon' = n
  /\ UNCHANGED <<rowVars, tokenVars, now, call, calls>>

(* The scheduler's pruner. *)
PruneDeletionTombstones ==
  /\ \E g \in tombs : g.at < horizon
  /\ \A g \in tombs : g.at < horizon => ~Restoring(g)
  /\ tombs' = {g \in tombs : g.at >= horizon}
  /\ UNCHANGED <<projects, home, tokenVars, timeVars, call, calls>>

Begins(c) ==
  \/ \E k \in Key : CallPreview(c, k) \/ CallConfirm(c, k)
  \/ \E p \in Project : CallRestore(c, p)

Step(c) ==
  \/ PreviewRead(c) \/ PreviewList(c)
  \/ IssueSweep(c) \/ IssueSweepDelete(c) \/ IssueCount(c) \/ IssueStore(c)
  \/ LoadToken(c) \/ DropToken(c) \/ SpendToken(c)
  \/ BeginTx(c) \/ Precheck(c) \/ LockScan(c) \/ LockRow(c) \/ LockDone(c)
  \/ Snapshot(c) \/ DeleteTaskRows(c) \/ DeleteProjectRow(c) \/ Commit(c)
  \/ DeadlockVictim(c)
  \/ RestoreFind(c) \/ RestoreWrite(c)
  \/ StoreError(c)

Background ==
  \/ \E t \in Task, h \in Places : CreateTask(t, h) \/ MoveTask(t, h)
  \/ \E k \in Key : ExpireToken(k)
  \/ \E n \in 1..now + 1 : Age(n)
  \/ PruneDeletionTombstones

Next == Background \/ \E c \in Caller : Begins(c) \/ Step(c)

Spec == Init /\ [][Next]_vars

------------------------------------------------------------------------------
(* Properties *)

(* The types of the variables. *)
TypeOK ==
  /\ projects \subseteq Project
  /\ home \in [Task -> Places \cup {Unborn, Gone}]
  /\ tombs \subseteq Groups
  /\ pending \in [Key -> Records]
  /\ issued \in Nat
  /\ expired \subseteq Key
  /\ spent \subseteq Nat
  /\ now \in Nat
  /\ horizon \in Nat
  /\ call \in [Caller -> Calls]
  /\ calls \in Nat

Buried(t) == \E g \in tombs : t \in g.tasks

(* A deleted task is in one group at most and a task that exists in none, so *)
(* the INSERT of restore_project never meets a task id in use: no delete     *)
(* snapshots a row another delete removes, whatever waits for whom.          *)
OneTombstonePerTask ==
  /\ \A g \in tombs : \A t \in g.tasks : home[t] = Gone
  /\ \A g, h \in tombs : g.tasks \cap h.tasks # {} => g = h

(* A token lets at most one delete start: what is stored has not been spent, *)
(* and no two keys store one token.                                          *)
TokenInv ==
  /\ \A n \in spent : n <= issued
  /\ \A k \in Key : Stored(k) => pending[k].token \in 1..issued /\ pending[k].token \notin spent
  /\ \A j, k \in Key : j # k /\ Stored(j) => pending[j].token # pending[k].token

InDelete(r) == r.pc \in {"begin", "precheck", "scan", "lock", "snapshot", "rows", "row", "commit"}
InTx(r) == r.pc \in {"snapshot", "rows", "row", "commit"}
Confirmed(r) == IF r.key \in Project THEN r.rec.expected ELSE {r.key}

(* What a call knows.  A delete's token is spent; its locks cover rows that  *)
(* exist; past the lock step it holds exactly what was confirmed, and past   *)
(* the snapshot it has copied exactly what it holds.  The group a restore    *)
(* holds is still there.                                                     *)
CallInv(r) ==
  /\ r.pc # "idle" => r.key \in Key
  /\ r.pc \in {"drop", "spend"} => r.rec.token > 0
  /\ InDelete(r) => r.rec.token \in spent
  /\ r.pc \in {"scan", "lock", "row", "find", "found"} => r.key \in Project
  /\ r.locked # {} => r.pc = "lock" \/ InTx(r)
  /\ \A t \in r.locked : IF r.key \in Project THEN home[t] = r.key ELSE t = r.key /\ Live(t)
  /\ InTx(r) => r.locked = Confirmed(r)
  /\ r.pc \in {"rows", "row", "commit"} => r.group.tasks = r.locked
  /\ r.cutoff <= horizon
  /\ r.pc = "found" => r.group \in tombs

(* What two calls may not both have: a locked row, a group to restore, or a  *)
(* group one restores and the other prunes.                                  *)
PairInv(r, s) ==
  /\ r.locked \cap s.locked = {}
  /\ r.pc = "found" /\ s.pc = "found" => r.group # s.group
  /\ r.pc = "found" /\ s.pc \in {"rows", "row", "commit"} => r.group.at >= s.cutoff

StateInv ==
  /\ TypeOK
  /\ OneTombstonePerTask
  /\ TokenInv
  /\ \A c \in Caller : CallInv(call[c])
  /\ \A c, d \in Caller : c # d => PairInv(call[c], call[d])

(* A delete's time is its own, and nothing retention has dropped is younger. *)
(* Its group carries that time, and the project only if it is the deleted    *)
(* one; a restore holds a group of its project.                              *)
TimeHolds(r) ==
  /\ r.at <= now
  /\ r.at > 0 => horizon <= r.at /\ \A g \in tombs : g.at # r.at
  /\ InDelete(r) /\ r.pc # "begin" => r.at > 0
  /\ r.pc \in {"rows", "row", "commit"} => r.group.at = r.at /\ r.group.project \in {None, r.key}
  /\ r.pc = "found" => r.group.project = r.key

TimeInv ==
  /\ horizon <= now + 1
  /\ \A g \in tombs : g.at <= now
  /\ \A c \in Caller : TimeHolds(call[c])
  /\ \A c, d \in Caller : c # d /\ call[c].at > 0 => call[c].at # call[d].at

DeletionInv == StateInv /\ TimeInv

(* A delete removes the tasks its preview showed, all of them and no other,  *)
(* although tasks come and go between the preview, the confirmation, the     *)
(* lock and the deletion.                                                    *)
PreviewBinds ==
  [][LET removed == {t \in Task : Live(t) /\ home'[t] = Gone} IN
     removed # {} => \E c \in Caller :
       /\ call[c].pc = "commit" /\ call[c].rec.token \in spent
       /\ removed = Confirmed(call[c])]_vars

(* No deleted task is lost: the step that deletes it puts it in a group, and *)
(* it leaves the group by being restored or when the retention has ended.    *)
KeptOrRestored ==
  [][\A t \in Task :
       /\ Live(t) /\ home'[t] = Gone => Buried(t)'
       /\ Buried(t) /\ ~Buried(t)' =>
            Live(t)' \/ \E g \in tombs : t \in g.tasks /\ g.at < horizon]_vars

(* A token starts one delete at most, however many confirmations load its    *)
(* record at the same time.                                                  *)
SpentOnce ==
  [][\A c \in Caller :
       call[c].pc = "spend" /\ call'[c].pc = "begin" => call[c].rec.token \notin spent]_vars

Ledger == INSTANCE TombstoneLedger WITH Place <- Places

(* The tasks and the groups of tombstones behave as TombstoneLedger says,    *)
(* however the statements of deletes, restores and prunes interleave.        *)
LedgerKept == Ledger!Spec

=============================================================================
