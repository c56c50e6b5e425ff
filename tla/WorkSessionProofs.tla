--------------------------- MODULE WorkSessionProofs ---------------------------
(***************************************************************************)
(* Proofs about WorkSession, for every set of callers, repos and tasks and *)
(* any number of sessions and calls.                                       *)
(***************************************************************************)
EXTENDS WorkSession, TLAPS

LEMMA IdleType == Idle \in Calls
  BY BoundsAssumption, RepoAssumption DEF Idle, Calls

LEMMA InitIInv == Init => IInv
  <1> SUFFICES ASSUME Init PROVE IInv
    OBVIOUS
  <1>1. TypeOK
    <2>1. Idle.repo \in Repo
      BY RepoAssumption DEF Idle
    <2>2. QED
      BY <2>1, IdleType, BoundsAssumption DEF Init, TypeOK, Sessions, Tasks
  <1>2. \A s \in Session : sessions[s].status = "none" /\ marked[s] = 0
    BY DEF Init
  <1>3. \A c \in Caller : call[c].pc = "idle" /\ call[c].s = 0
    BY DEF Init, Idle
  <1>4. OneActive
    BY <1>2 DEF OneActive, Active
  <1>5. MarkedOnce
    BY <1>2, <1>3 DEF MarkedOnce, Finishing
  <1>6. GapHasEvidence /\ AnswerLinked /\ CallHolds
    BY <1>3 DEF Init, GapHasEvidence, AnswerLinked, CallHolds
  <1>7. QED
    BY <1>1, <1>4, <1>5, <1>6 DEF IInv

------------------------------------------------------------------------------
(* What no step undoes: a session that exists, one that is completed, and the *)
(* links of a task that has not been deleted.                                 *)
Grown ==
  /\ \A s \in Session : sessions[s].status # "none" => sessions'[s].status # "none"
  /\ \A s \in Session : sessions[s].status = "completed" => sessions'[s].status = "completed"
  /\ \A t \in Task : tasks'[t].life = "first" => tasks[t].life = "first"
  /\ \A s \in Session, t \in Task :
       tasks'[t].life = "first" /\ <<s, t>> \in links => <<s, t>> \in links'

LEMMA EvidenceKept ==
  ASSUME Grown, NEW t \in Task, Evidence(t) PROVE Evidence(t)'
  BY DEF Grown, Evidence

(* A step that starts a call or leaves the calls of others alone. *)
LEMMA StepInv ==
  ASSUME IInv, TypeOK', Grown, OneActive', NEW c \in Caller, NEW r \in Calls,
         call' = [call EXCEPT ![c] = r],
         marked' = marked,
         \A t \in gaps' : t \in Task /\ Evidence(t)',
         r.pc \in {"mark", "link", "finish", "linked", "complete"} => r.s # 0,
         r.s # 0 /\ r.pc \in {"idle", "mark", "link"} => sessions'[r.s].status # "none",
         r.s # 0 /\ r.pc \in {"idle", "mark"} =>
           \A t \in r.todo : tasks'[t].life = "first" => <<r.s, t>> \in links',
         r.pc = "complete" => r.todo \cap r.deferred = {},
         r.pc = "upsert" => \A t \in r.todo : Evidence(t)',
         r.pc \in {"linked", "complete"} =>
           /\ sessions'[r.s].status = "completed" /\ marked[r.s] = 0
           /\ \A d \in Caller \ {c} : Finishing(d) => call[d].s # r.s
  PROVE  IInv'
  <1> USE DEF IInv
  <1>1. call'[c] = r /\ \A d \in Caller \ {c} : call'[d] = call[d]
    BY DEF TypeOK
  <1>2. MarkedOnce'
    <2>1. \A s \in Session : marked'[s] <= 1 /\ (marked'[s] = 1 => sessions'[s].status = "completed")
      BY DEF MarkedOnce, Grown
    <2>2. ASSUME NEW d \in Caller, Finishing(d)'
          PROVE  /\ call'[d].s # 0
                 /\ sessions'[call'[d].s].status = "completed" /\ marked'[call'[d].s] = 0
                 /\ \A e \in Caller \ {d} : Finishing(e)' => call'[e].s # call'[d].s
      <3>1. CASE d = c
        BY <1>1, <2>2, <3>1 DEF Finishing
      <3>2. CASE d # c
        <4>1. Finishing(d) /\ call'[d] = call[d]
          BY <1>1, <2>2, <3>2 DEF Finishing
        <4>2. call[d].s \in Session
          BY <4>1, BoundsAssumption DEF MarkedOnce, TypeOK, Calls, Session
        <4>3. sessions'[call[d].s].status = "completed" /\ marked[call[d].s] = 0
          BY <4>1, <4>2 DEF MarkedOnce, Grown
        <4>4. ASSUME NEW e \in Caller \ {d}, Finishing(e)' PROVE call'[e].s # call[d].s
          <5>1. CASE e = c
            BY <1>1, <4>1, <4>4, <5>1 DEF Finishing
          <5>2. CASE e # c
            BY <1>1, <4>1, <4>4, <5>2 DEF Finishing, MarkedOnce
          <5>3. QED
            BY <5>1, <5>2
        <4>5. QED
          BY <4>1, <4>2, <4>3, <4>4, BoundsAssumption DEF Session
      <3>3. QED
        BY <3>1, <3>2
    <2>3. QED
      BY <2>1, <2>2 DEF MarkedOnce
  <1>3. GapHasEvidence'
    <2>1. ASSUME NEW d \in Caller, call'[d].pc = "upsert", NEW t \in call'[d].todo PROVE Evidence(t)'
      <3>1. CASE d = c
        BY <1>1, <2>1, <3>1
      <3>2. CASE d # c
        <4>1. call'[d] = call[d] /\ t \in Task
          BY <1>1, <2>1, <3>2 DEF TypeOK, Calls
        <4>2. Evidence(t)
          BY <2>1, <4>1 DEF GapHasEvidence
        <4>3. QED
          BY <4>1, <4>2, EvidenceKept
      <3>3. QED
        BY <3>1, <3>2
    <2>2. QED
      BY <2>1 DEF GapHasEvidence
  <1>4. ASSUME NEW d \in Caller \ {c}
        PROVE  /\ call'[d] = call[d] /\ call[d] \in Calls
               /\ call[d].s # 0 => call[d].s \in Session
    BY <1>1, BoundsAssumption DEF TypeOK, Calls, Session
  <1>5. AnswerLinked'
    <2>1. ASSUME NEW d \in Caller, call'[d].pc = "idle", call'[d].s # 0
          PROVE  /\ sessions'[call'[d].s].status # "none"
                 /\ \A t \in call'[d].todo : tasks'[t].life = "first" => <<call'[d].s, t>> \in links'
      <3>1. CASE d = c
        BY <1>1, <2>1, <3>1
      <3>2. CASE d # c
        <4>1. call[d].todo \subseteq Task /\ call[d].s \in Session /\ call[d].pc = "idle"
          BY <1>4, <2>1, <3>2 DEF Calls
        <4>2. sessions[call[d].s].status # "none"
          BY <4>1, <1>4, <2>1, <3>2 DEF AnswerLinked
        <4>3. \A t \in call[d].todo : tasks[t].life = "first" => <<call[d].s, t>> \in links
          BY <4>1, <1>4, <2>1, <3>2 DEF AnswerLinked
        <4>4. QED
          BY <4>1, <4>2, <4>3, <1>4, <3>2 DEF Grown
      <3>3. QED
        BY <3>1, <3>2
    <2>2. QED
      BY <2>1 DEF AnswerLinked
  <1>6. CallHolds'
    <2>1. ASSUME NEW d \in Caller
          PROVE  /\ call'[d].pc \in {"mark", "link", "finish", "linked", "complete"} => call'[d].s # 0
                 /\ call'[d].pc \in {"mark", "link"} => sessions'[call'[d].s].status # "none"
                 /\ call'[d].pc = "mark" =>
                      \A t \in call'[d].todo : tasks'[t].life = "first" => <<call'[d].s, t>> \in links'
                 /\ call'[d].pc = "complete" => call'[d].todo \cap call'[d].deferred = {}
      <3>1. CASE d = c
        BY <1>1, <3>1
      <3>2. CASE d # c
        <4>1. call[d].todo \subseteq Task
          BY <1>4, <3>2 DEF Calls
        <4>2. QED
          BY <4>1, <1>4, <3>2 DEF CallHolds, Grown
      <3>3. QED
        BY <3>1, <3>2
    <2>2. QED
      BY <2>1 DEF CallHolds
  <1>7. QED
    BY <1>2, <1>3, <1>5, <1>6

(* A step that changes no row. *)
LEMMA Quiet ==
  ASSUME IInv, NEW c \in Caller, NEW r \in Calls,
         call' = [call EXCEPT ![c] = r],
         UNCHANGED <<sessions, links, tasks, gaps, marked>>, calls' \in 0..MaxCalls,
         r.pc \in {"mark", "link", "finish", "linked", "complete"} => r.s # 0,
         r.s # 0 /\ r.pc \in {"idle", "mark", "link"} => sessions[r.s].status # "none",
         r.s # 0 /\ r.pc \in {"idle", "mark"} =>
           \A t \in r.todo : tasks[t].life = "first" => <<r.s, t>> \in links,
         r.pc = "complete" => r.todo \cap r.deferred = {},
         r.pc = "upsert" => \A t \in r.todo : Evidence(t),
         r.pc \in {"linked", "complete"} =>
           /\ sessions[r.s].status = "completed" /\ marked[r.s] = 0
           /\ \A d \in Caller \ {c} : Finishing(d) => call[d].s # r.s
  PROVE  IInv'
  <1>1. TypeOK'
    BY DEF IInv, TypeOK
  <1>2. Grown
    BY DEF Grown
  <1>3. OneActive'
    BY DEF IInv, OneActive, Active
  <1>4. \A t \in gaps' : t \in Task /\ Evidence(t)'
    BY DEF IInv, TypeOK, GapHasEvidence, Evidence
  <1>5. r.pc = "upsert" => \A t \in r.todo : Evidence(t)'
    BY DEF Evidence
  <1>6. QED
    BY <1>1, <1>2, <1>3, <1>4, <1>5, StepInv

LEMMA StartsInv == ASSUME IInv, NEW c \in Caller, Starts(c) PROVE IInv'
  <1>1. ASSUME NEW r \in Calls, Begin(c, r), r.pc \in {"create", "assign", "begin", "finish", "scan"},
               r.pc = "finish" => r.s # 0
        PROVE  IInv'
    <2>1. calls' \in 0..MaxCalls
      BY <1>1, BoundsAssumption DEF Begin, IInv, TypeOK
    <2>2. QED
      BY <1>1, <2>1, Quiet DEF Begin
  <1>2. CASE StartWork(c)
    <2>1. PICK repo \in Repo, ts \in SUBSET Task, o \in BOOLEAN :
            Begin(c, [Idle EXCEPT !.pc = "create", !.kind = "start", !.repo = repo, !.todo = ts, !.owner = o])
      BY <1>2 DEF StartWork
    <2>2. QED
      BY <2>1, <1>1, IdleType DEF Calls
  <1>3. CASE BeginTask(c)
    <2>1. PICK repo \in Repo, t \in Task, o \in BOOLEAN :
            Begin(c, [Idle EXCEPT !.pc = IF o THEN "assign" ELSE "begin", !.kind = "begin",
                                  !.repo = repo, !.todo = {t}, !.owner = o])
      BY <1>3 DEF BeginTask
    <2>2. QED
      BY <2>1, <1>1, IdleType DEF Calls
  <1>4. CASE FinishWork(c)
    <2>1. PICK s \in Session, done \in SUBSET Task, later \in SUBSET Task, all \in BOOLEAN :
            Begin(c, [Idle EXCEPT !.pc = "finish", !.kind = "finish", !.s = s, !.todo = done,
                                  !.deferred = later, !.all = all])
      BY <1>4 DEF FinishWork
    <2>2. s \in 0..MaxSessions /\ s # 0
      BY BoundsAssumption DEF Session
    <2>3. QED
      BY <2>1, <2>2, <1>1, IdleType DEF Calls
  <1>5. CASE DetectGaps(c)
    BY <1>1, <1>5, IdleType DEF DetectGaps, Calls
  <1>6. QED
    BY <1>2, <1>3, <1>4, <1>5 DEF Starts

(* What a step does to the calls. *)
LEMMA Moves ==
  ASSUME IInv, NEW c \in Caller
  PROVE  /\ call[c] \in Calls
         /\ \A pc : Goto(c, pc) => call' = [call EXCEPT ![c] = [call[c] EXCEPT !.pc = pc]]
         /\ \A ts : ts # {} => (Resolved(c, ts) => call' = [call EXCEPT ![c] = [call[c] EXCEPT !.pc = "complete", !.todo = ts]])
         /\ \A ts : ts # {} => (Found(c, ts) => call' = [call EXCEPT ![c] = [call[c] EXCEPT !.pc = "upsert", !.todo = ts]])
         /\ Resolved(c, {}) => Return(c)
         /\ Found(c, {}) => Return(c)
  <1>1. call[c] \in Calls /\ call \in [Caller -> Calls]
    BY DEF IInv, TypeOK
  <1>2. QED
    BY <1>1 DEF Goto, Resolved, Found

LEMMA ReturnInv ==
  ASSUME IInv, NEW c \in Caller, Return(c), UNCHANGED <<sessions, links, tasks, gaps, marked, calls>>
  PROVE  IInv'
  <1> DEFINE r == [Idle EXCEPT !.kind = call[c].kind]
  <1>1. r \in Calls /\ r.pc = "idle" /\ r.s = 0
    BY IdleType, Moves DEF Calls, Idle
  <1>2. call' = [call EXCEPT ![c] = r] /\ calls' \in 0..MaxCalls
    BY DEF Return, IInv, TypeOK
  <1> HIDE DEF r
  <1>3. QED
    BY <1>1, <1>2, Quiet

LEMMA AbortInv == ASSUME IInv, NEW c \in Caller, Abort(c) PROVE IInv'
  <1>1. Idle.pc = "idle" /\ Idle.s = 0 /\ calls' \in 0..MaxCalls
    BY DEF Idle, Abort, IInv, TypeOK
  <1>2. QED
    BY <1>1, IdleType, Quiet DEF Abort

LEMMA ReadsInv ==
  ASSUME IInv, NEW c \in Caller, GetActive(c) \/ ReadLinked(c) \/ Scan(c) PROVE IInv'
  <1>1. call[c] \in Calls /\ calls' \in 0..MaxCalls
    BY Moves DEF GetActive, ReadLinked, Scan, IInv, TypeOK
  <1>2. CASE GetActive(c)
    <2>1. CASE \E s \in Session : Active(s, call[c].repo) /\ call' = [call EXCEPT ![c].pc = "link", ![c].s = s]
      <3>1. PICK s \in Session : Active(s, call[c].repo) /\ call' = [call EXCEPT ![c].pc = "link", ![c].s = s]
        BY <2>1
      <3>2. s \in 0..MaxSessions /\ s # 0 /\ sessions[s].status # "none"
        BY <3>1, BoundsAssumption DEF Session, Active
      <3>3. PICK r : r = [call[c] EXCEPT !.pc = "link", !.s = s]
        OBVIOUS
      <3>4. r \in Calls /\ r.pc = "link" /\ r.s = s
        BY <1>1, <3>2, <3>3 DEF Calls
      <3>5. call' = [call EXCEPT ![c] = r]
        BY <3>1, <3>3 DEF IInv, TypeOK
      <3>6. QED
        BY <1>1, <1>2, <3>2, <3>4, <3>5, Quiet DEF GetActive
    <2>2. CASE Return(c)
      BY <1>2, <2>2, ReturnInv DEF GetActive
    <2>3. QED
      BY <1>2, <2>1, <2>2 DEF GetActive
  <1>3. CASE ReadLinked(c)
    <2>1. CASE Return(c)
      BY <1>3, <2>1, ReturnInv DEF ReadLinked
    <2>2. CASE Resolved(c, LinkedTo(c)) /\ LinkedTo(c) # {}
      <3>1. PICK r : r = [call[c] EXCEPT !.pc = "complete", !.todo = LinkedTo(c)]
        OBVIOUS
      <3>2. LinkedTo(c) \subseteq Task /\ LinkedTo(c) \cap call[c].deferred = {}
        BY DEF LinkedTo
      <3>3. /\ r \in Calls /\ r.pc = "complete" /\ r.s = call[c].s
            /\ r.todo \cap r.deferred = {}
        BY <1>1, <3>1, <3>2 DEF Calls
      <3>4. call' = [call EXCEPT ![c] = r]
        BY <2>2, <3>1, Moves
      <3>5. Finishing(c)
        BY <1>3 DEF ReadLinked, Finishing
      <3>6. /\ r.s # 0 /\ sessions[r.s].status = "completed" /\ marked[r.s] = 0
            /\ \A d \in Caller \ {c} : Finishing(d) => call[d].s # r.s
        BY <3>3, <3>5 DEF IInv, MarkedOnce
      <3>7. QED
        BY <1>1, <1>3, <3>3, <3>4, <3>6, Quiet DEF ReadLinked
    <2>3. QED
      BY <1>3, <2>1, <2>2, Moves DEF ReadLinked
  <1>4. CASE Scan(c)
    <2> DEFINE ts == {t \in Task : Gap(t)}
    <2>1. CASE ts = {}
      BY <1>4, <2>1, ReturnInv, Moves DEF Scan
    <2>2. CASE ts # {}
      <3>1. PICK r : r = [call[c] EXCEPT !.pc = "upsert", !.todo = ts]
        OBVIOUS
      <3>2. r \in Calls /\ r.pc = "upsert" /\ r.todo = ts
        BY <1>1, <3>1 DEF Calls
      <3>3. call' = [call EXCEPT ![c] = r]
        BY <1>4, <2>2, <3>1, Moves DEF Scan
      <3>4. \A t \in r.todo : Evidence(t)
        BY <3>2 DEF Gap, Evidence
      <3>5. QED
        BY <1>1, <1>4, <3>2, <3>3, <3>4, Quiet DEF Scan
    <2>3. QED
      BY <2>1, <2>2
  <1>5. QED
    BY <1>2, <1>3, <1>4

------------------------------------------------------------------------------
(* Steps of no call. *)
LEMMA WorldInv ==
  ASSUME IInv, TypeOK', Grown, OneActive', UNCHANGED <<call, marked>>,
         \A t \in gaps' : t \in Task /\ Evidence(t)'
  PROVE  IInv'
  <1> USE DEF IInv
  <1>1. \A c \in Caller : /\ call[c] \in Calls /\ call'[c] = call[c]
                          /\ call[c].todo \subseteq Task
                          /\ call[c].s # 0 => call[c].s \in Session
    BY BoundsAssumption DEF TypeOK, Calls, Session
  <1>2. MarkedOnce'
    <2>1. \A s \in Session : marked'[s] <= 1 /\ (marked'[s] = 1 => sessions'[s].status = "completed")
      BY DEF MarkedOnce, Grown
    <2>2. ASSUME NEW d \in Caller, Finishing(d)'
          PROVE  /\ call'[d].s # 0
                 /\ sessions'[call'[d].s].status = "completed" /\ marked'[call'[d].s] = 0
                 /\ \A e \in Caller \ {d} : Finishing(e)' => call'[e].s # call'[d].s
      BY <1>1, <2>2 DEF MarkedOnce, Finishing, Grown
    <2>3. QED
      BY <2>1, <2>2 DEF MarkedOnce
  <1>3. GapHasEvidence'
    <2>1. ASSUME NEW d \in Caller, call'[d].pc = "upsert", NEW t \in call'[d].todo PROVE Evidence(t)'
      <3>1. t \in Task /\ Evidence(t)
        BY <1>1, <2>1 DEF GapHasEvidence
      <3>2. QED
        BY <3>1, EvidenceKept
    <2>2. QED
      BY <2>1 DEF GapHasEvidence
  <1>4. AnswerLinked'
    BY <1>1 DEF AnswerLinked, Grown
  <1>5. CallHolds'
    BY <1>1 DEF CallHolds, Grown
  <1>6. QED
    BY <1>2, <1>3, <1>4, <1>5

(* The candidates keep their evidence when none is added. *)
LEMMA GapsKept ==
  ASSUME IInv, Grown, gaps' \subseteq gaps
  PROVE  \A t \in gaps' : t \in Task /\ Evidence(t)'
  <1>1. ASSUME NEW t \in gaps' PROVE t \in Task /\ Evidence(t)'
    <2>1. t \in Task /\ Evidence(t)
      BY DEF IInv, TypeOK, GapHasEvidence
    <2>2. QED
      BY <2>1, EvidenceKept
  <1>2. QED
    BY <1>1

LEMMA CheckpointInv == ASSUME IInv, NEW s \in Session, Checkpoint(s) PROVE IInv'
  <1>1. sessions' = [sessions EXCEPT ![s].status = "checkpointed"] /\ Unfinished(s)
        /\ UNCHANGED <<links, tasks, gaps, marked, call, calls>>
    BY DEF Checkpoint
  <1>2. TypeOK'
    BY <1>1 DEF IInv, TypeOK, Sessions
  <1>3. Grown /\ OneActive'
    BY <1>1 DEF IInv, TypeOK, Sessions, Grown, Unfinished, OneActive, Active
  <1>4. QED
    BY <1>1, <1>2, <1>3, WorldInv, GapsKept

LEMMA TaskInv ==
  ASSUME IInv, NEW t \in Task, WriteTask(t) \/ DeleteTask(t) \/ RestoreTask(t) PROVE IInv'
  <1>1. /\ tasks' \in [Task -> Tasks]
        /\ links' \subseteq links /\ gaps' \subseteq gaps
        /\ UNCHANGED <<sessions, marked, call, calls>>
        /\ \A s \in Session, u \in Task : tasks'[u].life = "first" =>
             tasks[u].life = "first" /\ (<<s, u>> \in links => <<s, u>> \in links')
    <2>1. CASE WriteTask(t)
      BY <2>1 DEF WriteTask, IInv, TypeOK
    <2>2. CASE DeleteTask(t)
      BY <2>2 DEF DeleteTask, IInv, TypeOK, Tasks
    <2>3. CASE RestoreTask(t)
      BY <2>3 DEF RestoreTask, IInv, TypeOK, Tasks
    <2>4. QED
      BY <2>1, <2>2, <2>3
  <1>2. \A u \in Task : tasks'[u].life = "first" => tasks[u].life = "first"
    <2>1. CASE WriteTask(t)
      BY <2>1 DEF WriteTask, IInv, TypeOK
    <2>2. CASE DeleteTask(t)
      BY <2>2 DEF DeleteTask, IInv, TypeOK, Tasks
    <2>3. CASE RestoreTask(t)
      BY <2>3 DEF RestoreTask, IInv, TypeOK, Tasks
    <2>4. QED
      BY <2>1, <2>2, <2>3
  <1>3. TypeOK'
    BY <1>1 DEF IInv, TypeOK
  <1>4. Grown
    BY <1>1, <1>2 DEF Grown
  <1>5. OneActive'
    BY <1>1 DEF IInv, OneActive, Active
  <1>6. QED
    BY <1>1, <1>3, <1>4, <1>5, WorldInv, GapsKept

------------------------------------------------------------------------------
(* Statements of a call. *)
LEMMA TaskWriteInv ==
  ASSUME IInv, NEW c \in Caller, NEW r \in Calls,
         call' = [call EXCEPT ![c] = r],
         tasks' \in [Task -> Tasks], \A t \in Task : tasks'[t].life = tasks[t].life,
         UNCHANGED <<sessions, links, gaps, marked, calls>>,
         r.pc \in {"idle", "begin", "create"},
         r.s # 0 /\ r.pc = "idle" =>
           sessions[r.s].status # "none" /\ \A t \in r.todo : tasks[t].life = "first" => <<r.s, t>> \in links
  PROVE  IInv'
  <1>1. TypeOK'
    BY DEF IInv, TypeOK
  <1>2. Grown /\ OneActive'
    BY DEF Grown, IInv, OneActive, Active
  <1>3. r.s # 0 /\ r.pc = "idle" =>
          sessions'[r.s].status # "none" /\ \A t \in r.todo : tasks'[t].life = "first" => <<r.s, t>> \in links'
    <2>1. r.todo \subseteq Task
      BY DEF Calls
    <2>2. QED
      BY <2>1
  <1>4. \A t \in gaps' : t \in Task /\ Evidence(t)'
    BY <1>2, GapsKept
  <1>5. r.pc = "idle" \/ r.pc = "begin" \/ r.pc = "create"
    OBVIOUS
  <1>6. QED
    BY <1>1, <1>2, <1>3, <1>4, <1>5, StepInv

LEMMA BeginsInv ==
  ASSUME IInv, NEW c \in Caller, PersistAssignee(c) \/ BeginOwned(c) PROVE IInv'
  <1>1. call[c] \in Calls
    BY Moves
  <1>2. ASSUME NEW pc \in {"begin", "create"}, Goto(c, pc), NEW t \in Task,
               tasks' = [tasks EXCEPT ![t].owned = TRUE] \/ tasks' = [tasks EXCEPT ![t].status = "in_progress"],
               UNCHANGED <<sessions, links, gaps, marked, calls>>
        PROVE  IInv'
    <2>1. PICK r : r = [call[c] EXCEPT !.pc = pc]
      OBVIOUS
    <2>2. r \in Calls /\ r.pc = pc /\ call' = [call EXCEPT ![c] = r]
      BY <1>1, <1>2, <2>1, Moves DEF Calls
    <2>3. tasks' \in [Task -> Tasks] /\ \A u \in Task : tasks'[u].life = tasks[u].life
      <3>1. CASE tasks' = [tasks EXCEPT ![t].owned = TRUE]
        BY <3>1 DEF IInv, TypeOK, Tasks
      <3>2. CASE tasks' = [tasks EXCEPT ![t].status = "in_progress"]
        BY <3>2 DEF IInv, TypeOK, Tasks
      <3>3. QED
        BY <1>2, <3>1, <3>2
    <2>4. QED
      BY <1>2, <2>2, <2>3, TaskWriteInv
  <1>3. call[c].todo \subseteq Task
    BY <1>1 DEF Calls
  <1>4. CASE PersistAssignee(c)
    BY <1>2, <1>3, <1>4, ReturnInv DEF PersistAssignee
  <1>5. CASE BeginOwned(c)
    BY <1>2, <1>3, <1>5, ReturnInv DEF BeginOwned
  <1>6. QED
    BY <1>4, <1>5

LEMMA CreateInv == ASSUME IInv, NEW c \in Caller, Create(c) PROVE IInv'
  <1>1. call[c] \in Calls /\ calls' \in 0..MaxCalls /\ UNCHANGED <<tasks, gaps, marked, calls>>
    BY Moves DEF Create, IInv, TypeOK
  <1>2. CASE \E s \in Session :
               /\ Free(call[c].repo) /\ sessions[s].status = "none"
               /\ sessions' = [sessions EXCEPT ![s] = [status |-> "in_progress", repo |-> call[c].repo]]
               /\ links' = Linked(s, call[c].todo)
               /\ IF call[c].todo = {} THEN Return(c)
                  ELSE call' = [call EXCEPT ![c].pc = "mark", ![c].s = s]
    <2>1. PICK s \in Session :
            /\ Free(call[c].repo) /\ sessions[s].status = "none"
            /\ sessions' = [sessions EXCEPT ![s] = [status |-> "in_progress", repo |-> call[c].repo]]
            /\ links' = Linked(s, call[c].todo)
            /\ IF call[c].todo = {} THEN Return(c)
               ELSE call' = [call EXCEPT ![c].pc = "mark", ![c].s = s]
      BY <1>2
    <2>2. s \in 0..MaxSessions /\ s # 0 /\ call[c].todo \subseteq Task /\ call[c].repo \in Repo
      BY <1>1, BoundsAssumption DEF Session, Calls
    <2>3. links' \subseteq Session \X Task /\ links \subseteq links'
          /\ \A t \in call[c].todo : <<s, t>> \in links'
      BY <2>1, <2>2 DEF Linked, IInv, TypeOK
    <2>4. sessions' \in [Session -> Sessions]
      BY <2>1, <2>2 DEF IInv, TypeOK, Sessions
    <2>5. Grown
      BY <1>1, <2>1, <2>3 DEF Grown, IInv, TypeOK
    <2>6. OneActive'
      BY <2>1, <2>2 DEF IInv, TypeOK, Sessions, OneActive, Active, Free
    <2>7. PICK r : r = IF call[c].todo = {} THEN [Idle EXCEPT !.kind = call[c].kind]
                       ELSE [call[c] EXCEPT !.pc = "mark", !.s = s]
      OBVIOUS
    <2>8. /\ r \in Calls /\ call' = [call EXCEPT ![c] = r]
          /\ (r.pc = "idle" /\ r.s = 0) \/ (r.pc = "mark" /\ r.s = s /\ r.todo = call[c].todo)
      <3>1. CASE call[c].todo = {}
        BY <1>1, <2>1, <2>7, <3>1, IdleType DEF Return, Calls, Idle
      <3>2. CASE call[c].todo # {}
        BY <1>1, <2>1, <2>2, <2>7, <3>2 DEF Calls, IInv, TypeOK
      <3>3. QED
        BY <3>1, <3>2
    <2>9. TypeOK'
      BY <1>1, <2>3, <2>4, <2>8 DEF IInv, TypeOK
    <2>10. sessions'[s].status # "none"
      BY <2>1 DEF IInv, TypeOK
    <2>11. \A t \in gaps' : t \in Task /\ Evidence(t)'
      BY <1>1, <2>5, GapsKept
    <2>12. CASE r.pc = "idle" /\ r.s = 0
      BY <1>1, <2>5, <2>6, <2>8, <2>9, <2>11, <2>12, StepInv
    <2>13. CASE r.pc = "mark" /\ r.s = s /\ r.todo = call[c].todo
      BY <1>1, <2>2, <2>3, <2>5, <2>6, <2>8, <2>9, <2>10, <2>11, <2>13, StepInv
    <2>14. QED
      BY <2>8, <2>12, <2>13
  <1>3. CASE Return(c) /\ UNCHANGED <<sessions, links>>
    BY <1>1, <1>3, ReturnInv
  <1>4. CASE Goto(c, "active") /\ UNCHANGED <<sessions, links>>
    <2>1. PICK r : r = [call[c] EXCEPT !.pc = "active"]
      OBVIOUS
    <2>2. r \in Calls /\ r.pc = "active" /\ call' = [call EXCEPT ![c] = r]
      BY <1>1, <1>4, <2>1, Moves DEF Calls
    <2>3. QED
      BY <1>1, <1>4, <2>2, Quiet
  <1>5. QED
    BY <1>2, <1>3, <1>4 DEF Create

LEMMA MarkInProgressInv == ASSUME IInv, NEW c \in Caller, MarkInProgress(c) PROVE IInv'
  <1>1. call[c] \in Calls /\ call[c].pc = "mark" /\ UNCHANGED <<sessions, links, gaps, marked, calls>>
    BY Moves DEF MarkInProgress
  <1>2. tasks' \in [Task -> Tasks] /\ \A t \in Task : tasks'[t].life = tasks[t].life
    <2>1. call[c].owner \in BOOLEAN /\ tasks \in [Task -> Tasks]
      BY <1>1 DEF Calls, IInv, TypeOK
    <2>2. ASSUME NEW t \in Task
          PROVE  LET u == [tasks[t] EXCEPT !.status = "in_progress", !.owned = @ \/ call[c].owner]
                 IN  u \in Tasks /\ u.life = tasks[t].life
      <3>1. tasks[t] \in Tasks /\ (tasks[t].owned \/ call[c].owner) \in BOOLEAN
        BY <2>1 DEF Tasks
      <3>2. QED
        BY <3>1 DEF Tasks
    <2>3. QED
      BY <2>1, <2>2 DEF MarkInProgress
  <1>3. PICK r : r = [call[c] EXCEPT !.pc = "idle", !.s = call[c].s]
    OBVIOUS
  <1>4. /\ r \in Calls /\ r.pc = "idle" /\ r.s = call[c].s /\ r.todo = call[c].todo
        /\ call' = [call EXCEPT ![c] = r]
    BY <1>1, <1>3 DEF MarkInProgress, ReturnSession, Calls
  <1>5. sessions[r.s].status # "none" /\ \A t \in r.todo : tasks[t].life = "first" => <<r.s, t>> \in links
    BY <1>1, <1>4 DEF IInv, CallHolds
  <1>6. QED
    BY <1>1, <1>2, <1>4, <1>5, TaskWriteInv

LEMMA LinkTaskInv == ASSUME IInv, NEW c \in Caller, LinkTask(c) PROVE IInv'
  <1>1. call[c] \in Calls /\ call[c].pc = "link" /\ UNCHANGED <<sessions, tasks, gaps, marked, calls>>
    BY Moves DEF LinkTask
  <1>2. call[c].s # 0 /\ sessions[call[c].s].status # "none"
    BY <1>1 DEF IInv, CallHolds
  <1>3. call[c].s \in Session /\ call[c].todo \subseteq Task
    BY <1>1, <1>2, BoundsAssumption DEF Calls, Session
  <1>4. links' \subseteq Session \X Task /\ links \subseteq links'
        /\ \A t \in call[c].todo : <<call[c].s, t>> \in links'
    BY <1>3 DEF LinkTask, Linked, IInv, TypeOK
  <1>5. PICK r : r = [call[c] EXCEPT !.pc = "idle", !.s = call[c].s]
    OBVIOUS
  <1>6. /\ r \in Calls /\ r.pc = "idle" /\ r.s = call[c].s /\ r.todo = call[c].todo
        /\ call' = [call EXCEPT ![c] = r]
    BY <1>1, <1>5 DEF LinkTask, ReturnSession, Calls
  <1>7. TypeOK'
    BY <1>1, <1>4, <1>6 DEF IInv, TypeOK
  <1>8. Grown /\ OneActive'
    BY <1>1, <1>4 DEF Grown, IInv, OneActive, Active
  <1>9. \A t \in gaps' : t \in Task /\ Evidence(t)'
    BY <1>1, <1>8, GapsKept
  <1>10. QED
    BY <1>1, <1>2, <1>4, <1>6, <1>7, <1>8, <1>9, StepInv

LEMMA FinishInv == ASSUME IInv, NEW c \in Caller, Finish(c) PROVE IInv'
  <1>1. call[c] \in Calls /\ call[c].pc = "finish" /\ UNCHANGED <<links, tasks, gaps, marked, calls>>
    BY Moves DEF Finish
  <1>2. PICK s : s = call[c].s
    OBVIOUS
  <1>3. s # 0 /\ s \in Session
    BY <1>1, <1>2, BoundsAssumption DEF IInv, CallHolds, Calls, Session
  <1>4. CASE Unfinished(s) /\ sessions' = [sessions EXCEPT ![s].status = "completed"]
    <2>1. sessions' \in [Session -> Sessions] /\ sessions'[s].status = "completed"
      BY <1>3, <1>4 DEF IInv, TypeOK, Sessions
    <2>2. Grown /\ OneActive'
      BY <1>1, <1>3, <1>4 DEF IInv, TypeOK, Sessions, Grown, OneActive, Active
    <2>3. marked[s] = 0
      BY <1>3, <1>4 DEF IInv, TypeOK, MarkedOnce, Unfinished
    <2>4. \A d \in Caller \ {c} : Finishing(d) => call[d].s # s
      BY <1>4 DEF IInv, MarkedOnce, Unfinished
    <2>5. \A t \in gaps' : t \in Task /\ Evidence(t)'
      BY <1>1, <2>2, GapsKept
    <2>6. ASSUME NEW r \in Calls, call' = [call EXCEPT ![c] = r],
                 \/ r.pc = "idle" /\ r.s = 0
                 \/ r.pc = "linked" /\ r.s = s
                 \/ r.pc = "complete" /\ r.s = s /\ r.todo \cap r.deferred = {}
          PROVE  IInv'
      <3>1. TypeOK'
        BY <1>1, <2>1, <2>6 DEF IInv, TypeOK
      <3>2. CASE r.pc = "idle" /\ r.s = 0
        BY <1>1, <2>2, <2>5, <2>6, <3>1, <3>2, StepInv
      <3>3. CASE r.pc = "linked" /\ r.s = s
        BY <1>1, <1>3, <2>1, <2>2, <2>3, <2>4, <2>5, <2>6, <3>1, <3>3, StepInv
      <3>4. CASE r.pc = "complete" /\ r.s = s /\ r.todo \cap r.deferred = {}
        BY <1>1, <1>3, <2>1, <2>2, <2>3, <2>4, <2>5, <2>6, <3>1, <3>4, StepInv
      <3>5. QED
        BY <2>6, <3>2, <3>3, <3>4
    <2>7. CASE Goto(c, "linked")
      <3>1. PICK r : r = [call[c] EXCEPT !.pc = "linked"]
        OBVIOUS
      <3>2. r \in Calls /\ r.pc = "linked" /\ r.s = s /\ call' = [call EXCEPT ![c] = r]
        BY <1>1, <1>2, <2>7, <3>1, Moves DEF Calls
      <3>3. QED
        BY <2>6, <3>2
    <2>8. CASE Return(c)
      <3>1. PICK r : r = [Idle EXCEPT !.kind = call[c].kind]
        OBVIOUS
      <3>2. r \in Calls /\ r.pc = "idle" /\ r.s = 0 /\ call' = [call EXCEPT ![c] = r]
        BY <1>1, <2>8, <3>1, IdleType DEF Return, Calls, Idle
      <3>3. QED
        BY <2>6, <3>2
    <2> DEFINE ts == call[c].todo \ call[c].deferred
    <2>9. CASE Resolved(c, ts) /\ ts # {}
      <3>1. PICK r : r = [call[c] EXCEPT !.pc = "complete", !.todo = ts]
        OBVIOUS
      <3>2. /\ r \in Calls /\ r.pc = "complete" /\ r.s = s /\ r.todo \cap r.deferred = {}
        BY <1>1, <1>2, <3>1 DEF Calls
      <3>3. call' = [call EXCEPT ![c] = r]
        BY <2>9, <3>1, Moves
      <3>4. QED
        BY <2>6, <3>2, <3>3
    <2>10. Goto(c, "linked") \/ Resolved(c, ts)
      BY <1>2, <1>4 DEF Finish, Unfinished
    <2>11. QED
      BY <2>7, <2>8, <2>9, <2>10, Moves
  <1>5. CASE Return(c) /\ UNCHANGED sessions
    BY <1>1, <1>5, ReturnInv
  <1>6. QED
    BY <1>2, <1>4, <1>5 DEF Finish

LEMMA MarkCompletedInv == ASSUME IInv, NEW c \in Caller, MarkCompleted(c) PROVE IInv'
  <1> USE DEF IInv
  <1>1. call[c] \in Calls /\ call[c].pc = "complete" /\ UNCHANGED <<sessions, links, gaps, calls>>
    BY Moves DEF MarkCompleted
  <1>2. PICK s : s = call[c].s
    OBVIOUS
  <1>3. /\ Finishing(c) /\ s \in Session /\ sessions[s].status = "completed" /\ marked[s] = 0
        /\ \A d \in Caller \ {c} : Finishing(d) => call[d].s # s
    BY <1>1, <1>2, BoundsAssumption DEF Finishing, MarkedOnce, Calls, Session
  <1>4. marked' = [marked EXCEPT ![s] = 1]
    BY <1>2, <1>3 DEF MarkCompleted, TypeOK
  <1>5. tasks' \in [Task -> Tasks] /\ \A t \in Task : tasks'[t].life = tasks[t].life
    BY DEF MarkCompleted, TypeOK, Tasks
  <1>6. PICK r : r = [Idle EXCEPT !.kind = call[c].kind]
    OBVIOUS
  <1>7. call' = [call EXCEPT ![c] = r]
    BY <1>6 DEF MarkCompleted, Return
  <1>8. r \in Calls /\ r.pc = "idle" /\ r.s = 0 /\ call' = [call EXCEPT ![c] = r]
    BY <1>1, <1>6, <1>7, IdleType DEF Calls, Idle
  <1>9. call'[c] = r /\ \A d \in Caller \ {c} : call'[d] = call[d]
    BY <1>8 DEF TypeOK
  <1>10. TypeOK'
    BY <1>1, <1>4, <1>5, <1>8 DEF TypeOK
  <1>11. Grown /\ OneActive'
    BY <1>1, <1>5 DEF Grown, OneActive, Active
  <1>12. MarkedOnce'
    <2>1. \A q \in Session : marked'[q] <= 1 /\ (marked'[q] = 1 => sessions'[q].status = "completed")
      BY <1>1, <1>3, <1>4 DEF MarkedOnce, TypeOK
    <2>2. ASSUME NEW d \in Caller, Finishing(d)'
          PROVE  /\ call'[d].s # 0
                 /\ sessions'[call'[d].s].status = "completed" /\ marked'[call'[d].s] = 0
                 /\ \A e \in Caller \ {d} : Finishing(e)' => call'[e].s # call'[d].s
      <3>1. d # c /\ call'[d] = call[d] /\ Finishing(d)
        BY <1>8, <1>9, <2>2 DEF Finishing
      <3>2. call[d].s # s /\ call[d].s # 0 /\ call[d].s \in Session
        BY <1>3, <3>1, BoundsAssumption DEF MarkedOnce, TypeOK, Calls, Session
      <3>3. sessions'[call[d].s].status = "completed" /\ marked'[call[d].s] = 0
        BY <1>1, <1>4, <3>1, <3>2 DEF MarkedOnce, TypeOK
      <3>4. \A e \in Caller \ {d} : Finishing(e)' => e # c /\ Finishing(e) /\ call'[e] = call[e]
        BY <1>8, <1>9 DEF Finishing
      <3>5. QED
        BY <3>1, <3>2, <3>3, <3>4 DEF MarkedOnce
    <2>3. QED
      BY <2>1, <2>2 DEF MarkedOnce
  <1>13. GapHasEvidence'
    <2>1. \A t \in gaps' : Evidence(t)'
      BY <1>1, <1>11, GapsKept
    <2>2. ASSUME NEW d \in Caller, call'[d].pc = "upsert", NEW t \in call'[d].todo PROVE Evidence(t)'
      <3>1. call'[d] = call[d] /\ t \in Task /\ Evidence(t)
        BY <1>8, <1>9, <2>2 DEF GapHasEvidence, TypeOK, Calls
      <3>2. QED
        BY <1>11, <3>1, EvidenceKept
    <2>3. QED
      BY <2>1, <2>2 DEF GapHasEvidence
  <1>14. \A d \in Caller : call[d].todo \subseteq Task
    BY DEF TypeOK, Calls
  <1>15. AnswerLinked' /\ CallHolds'
    BY <1>1, <1>5, <1>8, <1>9, <1>14 DEF AnswerLinked, CallHolds
  <1>16. QED
    BY <1>10, <1>11, <1>12, <1>13, <1>15

LEMMA UpsertInv == ASSUME IInv, NEW c \in Caller, Upsert(c) PROVE IInv'
  <1>1. call[c] \in Calls /\ call[c].pc = "upsert" /\ UNCHANGED <<sessions, links, tasks, marked, calls>>
    BY Moves DEF Upsert
  <1>2. PICK t \in call[c].todo : gaps' = gaps \cup {t} /\ Found(c, call[c].todo \ {t})
    BY DEF Upsert
  <1>3. \A u \in call[c].todo : u \in Task /\ Evidence(u)
    BY <1>1 DEF IInv, GapHasEvidence, Calls
  <1>4. Grown /\ OneActive'
    BY <1>1 DEF Grown, IInv, OneActive, Active
  <1>5. \A u \in gaps' : u \in Task /\ Evidence(u)'
    <2>1. \A u \in gaps' : u \in Task /\ Evidence(u)
      BY <1>2, <1>3 DEF IInv, TypeOK, GapHasEvidence
    <2>2. QED
      BY <1>1, <2>1 DEF Evidence
  <1> DEFINE ts == call[c].todo \ {t}
  <1>6. ASSUME NEW r \in Calls, call' = [call EXCEPT ![c] = r],
               \/ r.pc = "idle" /\ r.s = 0
               \/ r.pc = "upsert" /\ r.todo = ts
        PROVE  IInv'
    <2>1. TypeOK'
      BY <1>1, <1>5, <1>6 DEF IInv, TypeOK
    <2>2. r.pc = "upsert" => \A u \in r.todo : Evidence(u)'
      BY <1>1, <1>3, <1>6 DEF Evidence
    <2>3. QED
      BY <1>1, <1>4, <1>5, <1>6, <2>1, <2>2, StepInv
  <1>7. CASE ts = {}
    <2>1. PICK r : r = [Idle EXCEPT !.kind = call[c].kind]
      OBVIOUS
    <2>2. r \in Calls /\ r.pc = "idle" /\ r.s = 0 /\ call' = [call EXCEPT ![c] = r]
      BY <1>1, <1>2, <1>7, <2>1, IdleType, Moves, ZenonT(40) DEF Return, Calls, Idle
    <2>3. QED
      BY <1>6, <2>2
  <1>8. CASE ts # {}
    <2>1. PICK r : r = [call[c] EXCEPT !.pc = "upsert", !.todo = ts]
      OBVIOUS
    <2>2. r \in Calls /\ r.pc = "upsert" /\ r.todo = ts
      BY <1>1, <2>1 DEF Calls
    <2>3. call' = [call EXCEPT ![c] = r]
      BY <1>2, <1>8, <2>1, Moves
    <2>4. QED
      BY <1>6, <2>2, <2>3
  <1>9. QED
    BY <1>7, <1>8

------------------------------------------------------------------------------
LEMMA NextInv == ASSUME IInv, Next PROVE IInv'
  <1>1. ASSUME NEW c \in Caller, Step(c) PROVE IInv'
    BY <1>1, BeginsInv, CreateInv, MarkInProgressInv, ReadsInv, LinkTaskInv, FinishInv, MarkCompletedInv,
       UpsertInv DEF Step
  <1>2. QED
    BY <1>1, StartsInv, AbortInv, CheckpointInv, TaskInv DEF Next

LEMMA StutterInv == ASSUME IInv, UNCHANGED vars PROVE IInv'
  <1>1. TypeOK' /\ OneActive' /\ AnswerLinked' /\ CallHolds'
    BY DEF vars, IInv, TypeOK, OneActive, Active, AnswerLinked, CallHolds
  <1>2. MarkedOnce'
    BY DEF vars, IInv, MarkedOnce, Finishing
  <1>3. GapHasEvidence'
    BY DEF vars, IInv, GapHasEvidence, Evidence
  <1>4. QED
    BY <1>1, <1>2, <1>3 DEF IInv

(* The inductive invariant: the properties below and what a call between two  *)
(* statements relies on.                                                      *)
THEOREM Invariant == Spec => []IInv
  BY InitIInv, NextInv, StutterInv, PTL DEF Spec

(* Every variable keeps its type. *)
THEOREM TypeCorrect == Spec => []TypeOK
  <1>1. IInv => TypeOK
    BY DEF IInv
  <1>2. QED
    BY <1>1, Invariant, PTL

(* A repo never has two sessions in progress. *)
THEOREM OneActiveSession == Spec => []OneActive
  <1>1. IInv => OneActive
    BY DEF IInv
  <1>2. QED
    BY <1>1, Invariant, PTL

(* Of the finish_work calls that race for a session one completes its tasks. *)
THEOREM TasksMarkedOnce == Spec => []MarkedOnce
  <1>1. IInv => MarkedOnce
    BY DEF IInv
  <1>2. QED
    BY <1>1, Invariant, PTL

(* A completion candidate is backed by a completed session of its task. *)
THEOREM CandidatesHaveEvidence == Spec => []GapHasEvidence
  <1>1. IInv => GapHasEvidence
    BY DEF IInv
  <1>2. QED
    BY <1>1, Invariant, PTL

(* The session a call answers with exists and holds its task. *)
THEOREM AnswersAreLinked == Spec => []AnswerLinked
  <1>1. IInv => AnswerLinked
    BY DEF IInv
  <1>2. QED
    BY <1>1, Invariant, PTL

(* Marks touch open tasks only, and no deferred one. *)
THEOREM MarksTouchOpenTasks == Spec => MarksOpenOnly
  <1>1. ASSUME IInv, Next, NEW c \in Caller, NEW t \in Task,
               call[c].pc \in {"mark", "complete"}, call'[c].pc = "idle", tasks'[t] # tasks[t]
        PROVE  /\ Alive(t) /\ tasks[t].status \in {"pending", "in_progress"}
               /\ call[c].pc = "complete" => t \notin call[c].deferred
    <2>1. call \in [Caller -> Calls] /\ tasks \in [Task -> Tasks]
      BY <1>1 DEF IInv, TypeOK
    <2>2. MarkInProgress(c) \/ MarkCompleted(c)
      <3>1. call' # call
        BY <1>1
      <3>2. ASSUME NEW d \in Caller, Starts(d) \/ Step(d) \/ Abort(d), d # c PROVE FALSE
        <4>1. call'[c] = call[c]
          BY <2>1, <3>2 DEF Starts, StartWork, BeginTask, FinishWork, DetectGaps, Begin, Step, PersistAssignee,
             BeginOwned, Create, MarkInProgress, GetActive, LinkTask, Finish, ReadLinked, MarkCompleted, Scan, Upsert,
             Abort, Goto, Return, ReturnSession, Resolved, Found
        <4>2. QED
          BY <1>1, <4>1
      <3>3. Starts(c) \/ Step(c) \/ Abort(c)
        BY <1>1, <3>1, <3>2 DEF Next, Checkpoint, WriteTask, DeleteTask, RestoreTask
      <3>4. QED
        BY <1>1, <3>3 DEF Starts, StartWork, BeginTask, FinishWork, DetectGaps, Begin, Step, PersistAssignee,
           BeginOwned, Create, GetActive, LinkTask, Finish, ReadLinked, Scan, Upsert, Abort
    <2>3. CASE MarkInProgress(c)
      <3>1. Markable(t, call[c].owner)
        BY <1>1, <2>1, <2>3 DEF MarkInProgress
      <3>2. call[c].pc # "complete"
        BY <2>3 DEF MarkInProgress
      <3>3. QED
        BY <3>1, <3>2 DEF Markable
    <2>4. CASE MarkCompleted(c)
      <3>1. t \in call[c].todo /\ Completable(t)
        BY <1>1, <2>1, <2>4 DEF MarkCompleted
      <3>2. call[c].todo \cap call[c].deferred = {}
        BY <1>1, <2>4 DEF MarkCompleted, IInv, CallHolds
      <3>3. QED
        BY <2>1, <3>1, <3>2 DEF Completable, Tasks
    <2>5. QED
      BY <2>2, <2>3, <2>4
  <1>2. IInv /\ [Next]_vars =>
          [\A c \in Caller, t \in Task :
             /\ call[c].pc \in {"mark", "complete"} /\ call'[c].pc = "idle" /\ tasks'[t] # tasks[t]
             => /\ Alive(t) /\ tasks[t].status \in {"pending", "in_progress"}
                /\ call[c].pc = "complete" => t \notin call[c].deferred]_vars
    BY <1>1
  <1>3. QED
    BY <1>2, Invariant, PTL DEF Spec, MarksOpenOnly
==============================================================================
