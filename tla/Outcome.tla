-------------------------------- MODULE Outcome --------------------------------
(***************************************************************************)
(* The outcome rows of one entity: record_outcome and the automatic        *)
(* outcome of finish_work, which converge in RecordExecutionResult, the    *)
(* draft that complete_task seeds, and the retention job.  A call is a     *)
(* read, a decision in Go and one SQL statement; nothing holds a lock      *)
(* between the read and the statement.                                     *)
(*                                                                         *)
(* A row is known by its created_at, NOW() at the start of its INSERT,     *)
(* which another statement may overtake before the row is visible.  The    *)
(* notes are the segments that FinalizeDraft joins with blank lines.  A    *)
(* call supplies at most one segment and one rule; metrics and the work    *)
(* session, merged like the rules, and the cap on the length of the notes  *)
(* are not represented.                                                    *)
(***************************************************************************)
EXTENDS Naturals, FiniteSets, Sequences

CONSTANTS
  Caller,      \* concurrent tool calls
  Terminal,    \* the results other than "unknown"
  Negative,    \* negativeFinalResults: those finish_work records by itself
  Segment,     \* texts of notes
  Rule,        \* behavior rule ids
  NoSegment, NoRule,
  RuleCap,     \* MaxRelatedRuleIDsTotal
  Attempts,    \* maxFinalizeDraftRetries
  MaxRows,     \* bound on the INSERTs begun
  MaxCalls     \* bound on the number of calls started

ASSUME TerminalAssumption == {"unknown", "none"} \cap Terminal = {} /\ Negative \subseteq Terminal
ASSUME RuleCapAssumption == RuleCap \in Nat \ {0}
ASSUME AttemptsAssumption == Attempts \in Nat \ {0}
ASSUME BoundsAssumption == MaxRows \in Nat /\ MaxCalls \in Nat

VARIABLES
  rows,        \* the committed rows, by created_at
  clock,       \* the last created_at given out
  handed,      \* per row, the positions of its notes handed to launchAtomize
  call,        \* per caller, the call it is executing
  calls        \* calls started so far

vars == <<rows, clock, handed, call, calls>>

Stamp == 1..MaxRows

Notes == Seq([text : Segment, by : {"record", "finish"}])

Rows == [result     : Terminal \cup {"unknown"},
         notes      : Notes,
         rules      : SUBSET Rule,
         supersedes : 0..MaxRows]           \* 0: NULL
NoRow == [result |-> "none", notes |-> <<>>, rules |-> {}, supersedes |-> 0]

Calls == [pc     : {"idle", "resolve", "finalize", "stamp", "insert", "hand"},
          kind   : {"record", "finish", "seed"},
          result : Terminal \cup {"unknown"},
          text   : Segment \cup {NoSegment},
          rule   : Rule \cup {NoRule},
          tries  : Nat,                     \* attempts lost to another finalizer
          latest : 0..MaxRows,              \* the row found, then the row written
          seen   : Rows \cup {NoRow},       \* that row as it was read
          at     : 0..MaxRows,              \* created_at of the INSERT under way
          from   : Nat, to : Nat]           \* Len of previousNotes and of o.Notes

Idle == [pc |-> "idle", kind |-> "seed", result |-> "unknown", text |-> NoSegment,
         rule |-> NoRule, tries |-> 0, latest |-> 0, seen |-> NoRow, at |-> 0,
         from |-> 0, to |-> 0]

Init ==
  /\ rows = [s \in Stamp |-> NoRow]
  /\ clock = 0
  /\ handed = [s \in Stamp |-> {}]
  /\ call = [c \in Caller |-> Idle]
  /\ calls = 0

Live(s) == rows[s] # NoRow
Open(o) == o.result = "unknown"

(* ORDER BY created_at DESC LIMIT 1 *)
IsLatest(s) == Live(s) /\ \A q \in Stamp : q > s => ~Live(q)

(* CapRelatedRuleIDs of the union: no rule linked already is dropped. *)
AddRule(rules, rule) ==
  IF rule = NoRule \/ Cardinality(rules) >= RuleCap THEN rules ELSE rules \cup {rule}

(* Mutant: an absent note is joined like any other. *)
MutAddNoteAbsent(notes, p) == Append(notes, [text |-> p.text, by |-> p.kind])

AddNote(notes, p) ==
  IF p.text = NoSegment THEN notes ELSE Append(notes, [text |-> p.text, by |-> p.kind])

------------------------------------------------------------------------------
(* What the decisions of RecordExecutionResult compare *)

HasNewNote(o, p) == p.text # NoSegment /\ \A i \in 1..Len(o.notes) : o.notes[i].text # p.text
HasNewRule(o, p) == p.rule # NoRule /\ p.rule \notin o.rules

SameNotes(o, p) ==
  \/ p.text = NoSegment /\ o.notes = <<>>
  \/ Len(o.notes) = 1 /\ o.notes[1].text = p.text

(* ActionDraftPreserved or ActionReplayedIdempotent: nothing to write. *)
Replay(o, p) ==
  /\ p.result = o.result
  /\ Open(o) => ~HasNewNote(o, p)
  /\ ~Open(o) => SameNotes(o, p)
  /\ ~HasNewRule(o, p)

------------------------------------------------------------------------------
(* Calls *)

Start(c, record) ==
  /\ call[c].pc = "idle"
  /\ calls < MaxCalls
  /\ calls' = calls + 1
  /\ call' = [call EXCEPT ![c] = record]
  /\ UNCHANGED <<rows, clock, handed>>

RecordOutcome(c) ==
  \E r \in Terminal \cup {"unknown"}, t \in Segment \cup {NoSegment}, u \in Rule \cup {NoRule} :
    Start(c, [Idle EXCEPT !.pc = "resolve", !.kind = "record", !.result = r, !.text = t, !.rule = u])

(* autoCreateOutcomeOnFailure: the summary of the session, no rules. *)
FinishWork(c) ==
  \E r \in Negative, t \in Segment :
    Start(c, [Idle EXCEPT !.pc = "resolve", !.kind = "finish", !.result = r, !.text = t])

SeedDraft(c) == Start(c, [Idle EXCEPT !.pc = "resolve"])

Return(c) == call' = [call EXCEPT ![c] = Idle]

(* GetLatestForEntity, and what is done about the row it returns. *)
Resolve(c) ==
  LET Goes(pc, s, o) == call' = [call EXCEPT ![c].pc = pc, ![c].latest = s, ![c].seen = o]
      Done(o) == call[c].kind = "seed" \/ Replay(o, call[c])
  IN
  /\ call[c].pc = "resolve"
  /\ \/ (\A s \in Stamp : ~Live(s)) /\ Goes("stamp", 0, NoRow)
     \/ \E s \in Stamp : IsLatest(s) /\ Done(rows[s]) /\ Return(c)
     \/ \E s \in Stamp : IsLatest(s) /\ ~Done(rows[s]) /\ Open(rows[s]) /\ Goes("finalize", s, rows[s])
     \/ \E s \in Stamp : IsLatest(s) /\ ~Done(rows[s]) /\ ~Open(rows[s]) /\ Goes("stamp", s, rows[s])
  /\ UNCHANGED <<rows, clock, handed, calls>>

(* Back in the tool handler: only record_outcome atomizes. *)
Wrote(c, s, from, to) ==
  IF call[c].kind = "record"
  THEN call' = [call EXCEPT ![c] = [Idle EXCEPT !.pc = "hand", !.latest = s, !.from = from, !.to = to]]
  ELSE Return(c)

(* Mutant: the merge is computed from the row as it was read. *)
MutFinalizedSeen(o, p) ==
  [o EXCEPT !.result = p.result, !.notes = AddNote(p.seen.notes, p), !.rules = AddRule(p.seen.rules, p.rule)]

(* The SET clause of FinalizeDraft, over the row as the UPDATE finds it. *)
Finalized(o, p) ==
  [o EXCEPT !.result = p.result, !.notes = AddNote(@, p), !.rules = AddRule(@, p.rule)]

(* Mutant: no WHERE result = 'unknown'. *)
MutCanFinalize(o) == o # NoRow

CanFinalize(o) == Open(o)

(* Mutant: a lost race tries the same row again, without resolving it anew. *)
MutLostRace(c) == UNCHANGED call

(* ErrDraftAlreadyFinalized: the loop resolves again, a bounded number of times. *)
LostRace(c) ==
  IF call[c].tries + 1 < Attempts
  THEN call' = [call EXCEPT ![c].pc = "resolve", ![c].tries = @ + 1]
  ELSE Return(c)

FinalizeDraft(c) ==
  LET p == call[c]
      s == p.latest
  IN
  /\ p.pc = "finalize"
  /\ \/ /\ CanFinalize(rows[s])
        /\ rows' = [rows EXCEPT ![s] = Finalized(@, p)]
        /\ Wrote(c, s, Len(p.seen.notes), Len(Finalized(rows[s], p).notes))
     \/ ~CanFinalize(rows[s]) /\ LostRace(c) /\ UNCHANGED rows
  /\ UNCHANGED <<clock, handed, calls>>

(* An INSERT begins, of CreateOutcome or of SeedDraft: NOW(). *)
BeginInsert(c) ==
  /\ call[c].pc = "stamp"
  /\ clock < MaxRows
  /\ clock' = clock + 1
  /\ call' = [call EXCEPT ![c].pc = "insert", ![c].at = clock + 1]
  /\ UNCHANGED <<rows, handed, calls>>

(* Mutant: a superseding row carries the rules of its own call only. *)
MutNewRowOwnRules(p) ==
  [result |-> p.result, notes |-> AddNote(<<>>, p), rules |-> AddRule({}, p.rule), supersedes |-> p.latest]

(* The row inserted: a first one, or one that supersedes a closed row and    *)
(* inherits its rules.                                                       *)
NewRow(p) ==
  [result |-> p.result, notes |-> AddNote(<<>>, p), rules |-> AddRule(p.seen.rules, p.rule),
   supersedes |-> p.latest]

(* Mutant: previousNotes of a superseding row is the notes of the row it     *)
(* supersedes, so equal notes are not handed over.                           *)
MutPreviousNotes(p) == IF p.latest # 0 /\ SameNotes(p.seen, p) THEN Len(p.seen.notes) ELSE 0

PreviousNotes(p) == 0

(* idx_outcomes_one_open_draft: a second draft is an error, and for          *)
(* SeedDraft, whose INSERT does nothing ON CONFLICT, the end of the call.    *)
Insert(c) ==
  LET p == call[c] IN
  /\ p.pc = "insert"
  /\ \/ /\ Open(p) => \A s \in Stamp : ~Open(rows[s])
        /\ rows' = [rows EXCEPT ![p.at] = NewRow(p)]
        /\ Wrote(c, p.at, PreviousNotes(p), Len(NewRow(p).notes))
     \/ Open(p) /\ (\E s \in Stamp : Open(rows[s])) /\ Return(c) /\ UNCHANGED rows
  /\ UNCHANGED <<clock, handed, calls>>

(* notesDelta: what follows previousNotes in o.Notes. *)
Delta(p) == (p.from + 1)..p.to

HandOver(c) ==
  /\ call[c].pc = "hand"
  /\ handed' = [handed EXCEPT ![call[c].latest] = @ \cup Delta(call[c])]
  /\ Return(c)
  /\ UNCHANGED <<rows, clock, calls>>

(* Mutant: retention spares the rows that something supersedes. *)
MutPruned(s, cutoff) == s <= cutoff /\ \A q \in Stamp : rows[q].supersedes # s

Pruned(s, cutoff) == s <= cutoff

(* PruneOlderThan *)
Prune ==
  /\ \E cutoff \in 1..clock : rows' = [s \in Stamp |-> IF Pruned(s, cutoff) THEN NoRow ELSE rows[s]]
  /\ UNCHANGED <<clock, handed, call, calls>>

Step(c) == Resolve(c) \/ FinalizeDraft(c) \/ BeginInsert(c) \/ Insert(c) \/ HandOver(c)

Next ==
  \/ \E c \in Caller : RecordOutcome(c) \/ FinishWork(c) \/ SeedDraft(c) \/ Step(c)
  \/ Prune

Spec == Init /\ [][Next]_vars

(* The scheduler of the runtime and the database serve every started call. *)
FairSpec == Spec /\ \A c \in Caller : WF_vars(Step(c))

------------------------------------------------------------------------------
(* Properties *)

TypeOK ==
  /\ rows \in [Stamp -> Rows \cup {NoRow}]
  /\ clock \in 0..MaxRows
  /\ handed \in [Stamp -> SUBSET Nat]
  /\ call \in [Caller -> Calls]
  /\ \A c \in Caller : call[c].kind = "seed" => call[c].text = NoSegment
  /\ calls \in 0..MaxCalls

(* The index holds: no two rows of the entity are drafts at once.            *)
OneDraft == \A q, s \in Stamp : Open(rows[q]) /\ Open(rows[s]) => q = s

(* A row that supersedes another is the younger, and while both are kept     *)
(* the other is closed and every rule it votes for is among its own.         *)
Inherits ==
  \A s \in Stamp : LET q == rows[s].supersedes IN
    /\ Live(s) => s <= clock /\ q < s
    /\ q # 0 /\ Live(q) => ~Open(rows[q]) /\ rows[q].rules \subseteq rows[s].rules

(* A call about to insert holds a closed row it has read, unchanged since    *)
(* unless it has been pruned, or no row.                                     *)
Superseding(p) ==
  /\ p.latest = 0 => p.seen = NoRow
  /\ p.latest # 0 => p.seen # NoRow /\ ~Open(p.seen) /\ rows[p.latest] \in {p.seen, NoRow}

(* The created_at it has drawn is its own: no row has it or names it, no     *)
(* other call has read or drawn it.                                          *)
OwnStamp(c) ==
  LET a == call[c].at IN
  /\ a <= clock /\ call[c].latest < a /\ ~Live(a)
  /\ \A s \in Stamp : rows[s].supersedes # a
  /\ \A d \in Caller : call[d].latest # a /\ (d # c /\ call[d].pc = "insert" => call[d].at # a)

(* A call about to finalize has read a draft that may have grown, been       *)
(* closed or been pruned since.                                              *)
Finalizing(p) ==
  /\ p.latest # 0
  /\ Live(p.latest) => Len(p.seen.notes) <= Len(rows[p.latest].notes)

CallsHold ==
  \A c \in Caller :
    /\ call[c].latest <= clock
    /\ call[c].pc \in {"stamp", "insert"} => Superseding(call[c])
    /\ call[c].pc = "insert" => OwnStamp(c)
    /\ call[c].pc = "finalize" => Finalizing(call[c])
    /\ call[c].pc = "hand" => call[c].latest # 0

OutcomeInv == OneDraft /\ Inherits /\ CallsHold

(* A note that a record_outcome call has stored has been handed to           *)
(* launchAtomize, or is about to be: by the call that stored it, or by a     *)
(* call that read the draft before and wrote after (handleRecordOutcome,     *)
(* tools_outcome.go).  What launchAtomize does with it is Background's: it   *)
(* may skip it, without an atomizer or with every slot taken.                *)
EveryNoteAtomized ==
  \A s \in Stamp : \A i \in 1..Len(rows[s].notes) :
    rows[s].notes[i].by = "record" =>
      \/ i \in handed[s]
      \/ \E c \in Caller : call[c].pc = "hand" /\ call[c].latest = s /\ i \in Delta(call[c])

(* A closed row is never rewritten, whatever calls still hold it as the      *)
(* draft they read; only retention removes it.                               *)
ClosedRowsKept ==
  [][\A s \in Stamp : Live(s) /\ ~Open(rows[s]) => rows'[s] \in {rows[s], NoRow}]_vars

(* What calls have added to a draft stays in it, in its order, whatever      *)
(* they had read of it (the EvalPlanQual hazard FinalizeDraft documents).    *)
DraftOnlyGrows ==
  [][\A s \in Stamp : Open(rows[s]) /\ rows'[s] # NoRow =>
       /\ Len(rows[s].notes) <= Len(rows'[s].notes)
       /\ \A i \in 1..Len(rows[s].notes) : rows'[s].notes[i] = rows[s].notes[i]
       /\ rows[s].rules \subseteq rows'[s].rules]_vars

(* A row that governance has stopped counting, because a row supersedes it,  *)
(* is not counted again as long as it is kept (behavior_governance.go).      *)
Superseded(s) == \E q \in Stamp : rows[q].supersedes = s
SupersededForGood ==
  [][\A s \in Stamp : Live(s) /\ Superseded(s) => rows'[s] = NoRow \/ Superseded(s)']_vars

(* Every call returns: the retries of RecordExecutionResult are bounded.     *)
EveryCallReturns == \A c \in Caller : []<>(call[c].pc = "idle")

(* The rows are a ledger as OutcomeLedger promises it.                       *)
Ledger == INSTANCE OutcomeLedger
LedgerKept == Ledger!Spec
==============================================================================
