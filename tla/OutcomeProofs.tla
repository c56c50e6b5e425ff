----------------------------- MODULE OutcomeProofs -----------------------------
(***************************************************************************)
(* Proofs about Outcome, for every set of callers, results, segments and   *)
(* rules, any cap, any number of attempts and any number of calls.         *)
(***************************************************************************)
EXTENDS Outcome, TLAPS

LEMMA NoRowIsNoRow == \A o \in Rows : o # NoRow
  BY TerminalAssumption DEF Rows, NoRow

LEMMA IdleType == Idle \in Calls
  BY BoundsAssumption DEF Idle, Calls

LEMMA StampType == Stamp \subseteq Nat \ {0}
  BY BoundsAssumption DEF Stamp

(* What the operators that build rows return. *)
LEMMA AddRuleKeeps ==
  ASSUME NEW rules \in SUBSET Rule, NEW rule \in Rule \cup {NoRule}
  PROVE  AddRule(rules, rule) \in SUBSET Rule /\ rules \subseteq AddRule(rules, rule)
  BY DEF AddRule

LEMMA AddNoteAppends ==
  ASSUME NEW notes \in Notes, NEW p \in Calls, p.kind = "seed" => p.text = NoSegment
  PROVE  /\ AddNote(notes, p) \in Notes
         /\ Len(AddNote(notes, p)) \in {Len(notes), Len(notes) + 1}
         /\ \A i \in 1..Len(notes) : AddNote(notes, p)[i] = notes[i]
  <1>1. CASE p.text = NoSegment
    BY <1>1 DEF AddNote, Notes
  <1>2. CASE p.text # NoSegment
    <2>1. p.text \in Segment /\ p.kind \in {"record", "finish"}
      BY <1>2 DEF Calls
    <2> DEFINE n == [text |-> p.text, by |-> p.kind]
    <2>2. n \in [text : Segment, by : {"record", "finish"}]
      BY <2>1
    <2>3. AddNote(notes, p) = Append(notes, n)
      BY <1>2 DEF AddNote
    <2> HIDE DEF n
    <2>4. QED
      BY <2>2, <2>3 DEF Notes
  <1>3. QED
    BY <1>1, <1>2

LEMMA FinalizedGrows ==
  ASSUME NEW o \in Rows, NEW p \in Calls, p.kind = "seed" => p.text = NoSegment
  PROVE  /\ Finalized(o, p) \in Rows
         /\ Len(o.notes) <= Len(Finalized(o, p).notes)
         /\ \A i \in 1..Len(o.notes) : Finalized(o, p).notes[i] = o.notes[i]
         /\ Len(Finalized(o, p).notes) <= Len(o.notes) + 1
         /\ o.rules \subseteq Finalized(o, p).rules
         /\ Finalized(o, p).supersedes = o.supersedes
  <1>1. o.notes \in Notes /\ o.rules \in SUBSET Rule /\ p.rule \in Rule \cup {NoRule}
    BY DEF Rows, Calls
  <1>2. /\ AddNote(o.notes, p) \in Notes
        /\ Len(AddNote(o.notes, p)) \in {Len(o.notes), Len(o.notes) + 1}
        /\ \A i \in 1..Len(o.notes) : AddNote(o.notes, p)[i] = o.notes[i]
    BY <1>1, AddNoteAppends
  <1>3. AddRule(o.rules, p.rule) \in SUBSET Rule /\ o.rules \subseteq AddRule(o.rules, p.rule)
    BY <1>1, AddRuleKeeps
  <1> DEFINE n == AddNote(o.notes, p)
             u == AddRule(o.rules, p.rule)
  <1>4. Finalized(o, p) = [o EXCEPT !.result = p.result, !.notes = n, !.rules = u]
    BY DEF Finalized
  <1>5. p.result \in Terminal \cup {"unknown"} /\ Len(o.notes) \in Nat
    BY <1>1 DEF Calls, Notes
  <1>6. n \in Notes /\ u \in SUBSET Rule
    BY <1>2, <1>3
  <1> HIDE DEF n, u
  <1>7. /\ Finalized(o, p) \in Rows /\ Finalized(o, p).supersedes = o.supersedes
        /\ Finalized(o, p).notes = n /\ Finalized(o, p).rules = u
    BY <1>4, <1>5, <1>6 DEF Rows
  <1>8. Len(n) \in {Len(o.notes), Len(o.notes) + 1} /\ (\A i \in 1..Len(o.notes) : n[i] = o.notes[i])
        /\ o.rules \subseteq u
    BY <1>2, <1>3 DEF n, u
  <1>9. QED
    BY <1>5, <1>7, <1>8

LEMMA NewRowType ==
  ASSUME NEW p \in Calls, p.kind = "seed" => p.text = NoSegment
  PROVE  /\ NewRow(p) \in Rows
         /\ NewRow(p).supersedes = p.latest
         /\ p.seen.rules \subseteq NewRow(p).rules
         /\ Len(NewRow(p).notes) <= 1
         /\ NewRow(p).result = p.result
  <1>1. p.seen.rules \in SUBSET Rule /\ p.rule \in Rule \cup {NoRule}
    BY DEF Rows, Calls, NoRow
  <1>2. << >> \in Notes /\ Len(<< >>) = 0
    BY DEF Notes
  <1>3. AddNote(<< >>, p) \in Notes /\ Len(AddNote(<< >>, p)) \in {0, 1}
    <2>1. ASSUME NEW e \in Notes, Len(e) = 0
          PROVE  AddNote(e, p) \in Notes /\ Len(AddNote(e, p)) \in {0, 1}
      <3>1. Len(AddNote(e, p)) \in {Len(e), Len(e) + 1} /\ AddNote(e, p) \in Notes
        BY AddNoteAppends
      <3>2. QED
        BY <2>1, <3>1
    <2>2. QED
      BY <1>2, <2>1
  <1>4. AddRule(p.seen.rules, p.rule) \in SUBSET Rule /\ p.seen.rules \subseteq AddRule(p.seen.rules, p.rule)
    BY <1>1, AddRuleKeeps
  <1>5. p.latest \in 0..MaxRows /\ p.result \in Terminal \cup {"unknown"}
    BY DEF Calls
  <1> DEFINE n == AddNote(<< >>, p)
             u == AddRule(p.seen.rules, p.rule)
  <1>6. NewRow(p) = [result |-> p.result, notes |-> n, rules |-> u, supersedes |-> p.latest]
    BY DEF NewRow
  <1>7. n \in Notes /\ Len(n) <= 1 /\ u \in SUBSET Rule /\ p.seen.rules \subseteq u
    BY <1>3, <1>4
  <1> HIDE DEF n, u
  <1>8. QED
    BY <1>5, <1>6, <1>7 DEF Rows

------------------------------------------------------------------------------
(* Type correctness *)

LEMMA Running ==
  ASSUME TypeOK, NEW c \in Caller
  PROVE  /\ call[c] \in Calls
         /\ call[c].kind = "seed" => call[c].text = NoSegment
         /\ call[c].latest \in 0..MaxRows
  BY DEF TypeOK, Calls

(* A step that moves one call to r and keeps the type of the rows. *)
LEMMA TypeMove ==
  ASSUME TypeOK, NEW c \in Caller, NEW r \in Calls, r.kind = "seed" => r.text = NoSegment,
         call' = [call EXCEPT ![c] = r],
         rows' \in [Stamp -> Rows \cup {NoRow}], clock' \in 0..MaxRows,
         handed' \in [Stamp -> SUBSET Nat], calls' \in 0..MaxCalls
  PROVE  TypeOK'
  BY DEF TypeOK

------------------------------------------------------------------------------
(* The inductive invariant *)

IInv == TypeOK /\ OutcomeInv /\ EveryNoteAtomized

LEMMA InitIInv == Init => IInv
  <1> SUFFICES ASSUME Init PROVE IInv
    OBVIOUS
  <1>1. TypeOK
    BY IdleType, BoundsAssumption DEF Init, TypeOK, Idle
  <1>2. OneDraft /\ Inherits /\ EveryNoteAtomized
    BY DEF Init, OneDraft, Inherits, EveryNoteAtomized, Open, Live, NoRow
  <1>3. CallsHold
    BY DEF Init, CallsHold, Idle
  <1>4. QED
    BY <1>1, <1>2, <1>3 DEF IInv, OutcomeInv

(* A call moves, no row changes. *)
LEMMA Quiet ==
  ASSUME IInv, NEW c \in Caller, NEW r \in Calls, r.kind = "seed" => r.text = NoSegment,
         call' = [call EXCEPT ![c] = r], rows' = rows,
         clock' \in 0..MaxRows, clock <= clock', calls' \in 0..MaxCalls,
         handed' \in [Stamp -> SUBSET Nat], \A s \in Stamp : handed[s] \subseteq handed'[s],
         r.pc \in {"stamp", "insert"} => Superseding(r)',
         r.pc = "insert" => OwnStamp(c)',
         r.pc = "finalize" => Finalizing(r)',
         r.pc # "hand",
         r.latest = 0 \/ Live(r.latest) \/ r.latest = call[c].latest,
         call[c].pc = "hand" => Delta(call[c]) \subseteq handed'[call[c].latest]
  PROVE  IInv'
  <1>1. TypeOK /\ call' \in [Caller -> Calls] /\ call'[c] = r /\ clock \in 0..MaxRows
        /\ \A d \in Caller \ {c} : call'[d] = call[d]
    BY DEF IInv, TypeOK
  <1>2. TypeOK'
    BY <1>1, TypeMove DEF TypeOK
  <1>3. OneDraft' /\ Inherits'
    BY <1>1, BoundsAssumption DEF IInv, OutcomeInv, OneDraft, Inherits, Live, Open, Stamp, TypeOK
  <1>4. ASSUME NEW d \in Caller \ {c}, call[d].pc = "insert" PROVE OwnStamp(d)'
    <2>1. OwnStamp(d) /\ call[d].at \in Nat /\ call[d].latest \in Nat
      BY <1>4, <1>1, BoundsAssumption DEF IInv, OutcomeInv, CallsHold, Calls
    <2>2. r.latest # call[d].at
      BY <2>1 DEF OwnStamp
    <2>3. r.pc = "insert" => r.at # call[d].at
      BY <1>1, <1>4 DEF OwnStamp
    <2>4. call[d].at <= clock'
      BY <2>1, <1>1, BoundsAssumption DEF OwnStamp
    <2>5. QED
      BY <1>1, <2>1, <2>2, <2>3, <2>4 DEF OwnStamp, Live
  <1>5. ASSUME NEW d \in Caller \ {c}
        PROVE  /\ call[d].pc \in {"stamp", "insert"} => Superseding(call[d])'
               /\ call[d].pc = "finalize" => Finalizing(call[d])'
               /\ call[d].pc = "hand" => call[d].latest # 0
               /\ call[d].latest <= clock'
    <2>1. call[d].latest \in Nat /\ clock \in Nat /\ clock' \in Nat /\ call'[d] = call[d]
      BY <1>1, BoundsAssumption DEF Calls
    <2>2. QED
      BY <1>1, <2>1 DEF IInv, OutcomeInv, CallsHold, Superseding, Finalizing, Live
  <1>6. CallsHold'
    <2>0. r.latest <= clock'
      <3>1. r.latest \in 0..MaxRows /\ clock \in Nat /\ clock' \in Nat
        BY <1>1, BoundsAssumption DEF Calls
      <3>2. CASE r.latest # 0 /\ Live(r.latest)
        <4>1. r.latest \in Stamp
          BY <3>1, <3>2, BoundsAssumption DEF Stamp
        <4>2. QED
          BY <3>1, <3>2, <4>1 DEF IInv, OutcomeInv, Inherits
      <3>3. CASE r.latest = call[c].latest
        BY <3>1, <3>3 DEF IInv, OutcomeInv, CallsHold
      <3>4. QED
        BY <3>1, <3>2, <3>3
    <2>1. ASSUME NEW d \in Caller
          PROVE  (/\ call[d].pc \in {"stamp", "insert"} => Superseding(call[d])
                  /\ call[d].pc = "insert" => OwnStamp(d)
                  /\ call[d].pc = "finalize" => Finalizing(call[d])
                  /\ call[d].pc = "hand" => call[d].latest # 0
                /\ call[d].latest <= clock)'
      <3>1. CASE d = c
        BY <2>0, <3>1, <1>1 DEF Superseding, Finalizing, Live
      <3>2. CASE d # c
        BY <3>2, <1>1, <1>4, <1>5 DEF Superseding, Finalizing, Live
      <3>3. QED
        BY <3>1, <3>2
    <2>2. QED
      BY <2>1 DEF CallsHold
  <1>7. EveryNoteAtomized'
    <2>1. ASSUME NEW s \in Stamp, NEW i \in 1..Len(rows[s].notes), rows[s].notes[i].by = "record"
          PROVE  \/ i \in handed'[s]
                 \/ \E d \in Caller : call'[d].pc = "hand" /\ call'[d].latest = s /\ i \in Delta(call'[d])
      <3>1. CASE i \in handed[s]
        BY <3>1
      <3>2. CASE \E d \in Caller : call[d].pc = "hand" /\ call[d].latest = s /\ i \in Delta(call[d])
        BY <3>2, <1>1
      <3>3. QED
        BY <2>1, <3>1, <3>2 DEF IInv, EveryNoteAtomized
    <2>2. QED
      BY <2>1 DEF EveryNoteAtomized, Delta
  <1>8. QED
    BY <1>2, <1>3, <1>6, <1>7 DEF IInv, OutcomeInv

(* The draft s becomes o. *)
Grows(s, o) ==
  /\ Open(rows[s])
  /\ Len(rows[s].notes) <= Len(o.notes)
  /\ \A i \in 1..Len(rows[s].notes) : o.notes[i] = rows[s].notes[i]
  /\ rows[s].rules \subseteq o.rules
  /\ o.supersedes = rows[s].supersedes

(* The call c inserts o at the created_at it has drawn. *)
Adds(c, s, o) ==
  /\ call[c].pc = "insert" /\ s = call[c].at
  /\ Open(o) => \A q \in Stamp : ~Open(rows[q])
  /\ o.supersedes = call[c].latest
  /\ call[c].seen.rules \subseteq o.rules

(* One row changes, and the call that changed it returns to its handler. *)
LEMMA Write ==
  ASSUME IInv, NEW c \in Caller, NEW r \in Calls, r.kind = "seed" => r.text = NoSegment,
         call' = [call EXCEPT ![c] = r], r.pc \in {"hand", "idle"},
         NEW s \in Stamp, NEW o \in Rows, rows' = [rows EXCEPT ![s] = o],
         UNCHANGED <<clock, handed, calls>>,
         call[c].pc # "hand", s <= clock, r.latest \in {0, s}, r.pc = "hand" => r.latest = s,
         Grows(s, o) \/ Adds(c, s, o),
         \A i \in 1..Len(o.notes) : o.notes[i].by = "record" =>
           \/ i \in 1..Len(rows[s].notes) /\ o.notes[i] = rows[s].notes[i]
           \/ r.pc = "hand" /\ i \in Delta(r)
  PROVE  IInv'
  <1>1. /\ TypeOK /\ call' \in [Caller -> Calls] /\ call'[c] = r /\ clock \in Nat
        /\ \A d \in Caller \ {c} : call'[d] = call[d]
        /\ rows'[s] = o /\ \A q \in Stamp \ {s} : rows'[q] = rows[q]
        /\ rows' \in [Stamp -> Rows \cup {NoRow}]
    BY BoundsAssumption DEF IInv, TypeOK
  <1>2. TypeOK'
    BY <1>1, TypeMove DEF TypeOK
  <1>3. OneDraft /\ Inherits /\ CallsHold /\ o # NoRow
    BY NoRowIsNoRow DEF IInv, OutcomeInv
  <1>4. Adds(c, s, o) => OwnStamp(c) /\ Superseding(call[c]) /\ ~Live(s) /\ ~Open(rows[s])
    BY <1>3, TerminalAssumption DEF Adds, CallsHold, OwnStamp, Live, Open, NoRow
  <1>5. Grows(s, o) => Live(s)
    BY DEF Grows, Live, Open, NoRow
  <1>6. OneDraft'
    <2>1. ASSUME NEW q \in Stamp, NEW t \in Stamp, Open(rows'[q]), Open(rows'[t]) PROVE q = t
      <3>1. CASE Grows(s, o)
        <4>1. Open(rows[q]) /\ Open(rows[t])
          BY <2>1, <3>1, <1>1 DEF Grows
        <4>2. QED
          BY <4>1, <1>3 DEF OneDraft
      <3>2. CASE Adds(c, s, o)
        BY <2>1, <3>2, <1>1, <1>3 DEF Adds, OneDraft
      <3>3. QED
        BY <3>1, <3>2
    <2>2. QED
      BY <2>1 DEF OneDraft, Open
  <1>7. Inherits'
    <2>1. ASSUME NEW t \in Stamp, rows'[t] # NoRow
          PROVE  /\ t <= clock /\ rows'[t].supersedes < t
                 /\ (rows'[t].supersedes # 0 /\ rows'[rows'[t].supersedes] # NoRow) =>
                      /\ ~Open(rows'[rows'[t].supersedes])
                      /\ rows'[rows'[t].supersedes].rules \subseteq rows'[t].rules
      <3>0. rows'[t].supersedes \in 0..MaxRows /\ t \in Nat
        BY <2>1, <1>1, StampType DEF Rows
      <3>1. CASE Grows(s, o)
        <4>1. rows[t] # NoRow /\ rows'[t].supersedes = rows[t].supersedes /\ rows[t].rules \subseteq rows'[t].rules
          BY <2>1, <3>1, <1>1, <1>5 DEF Grows, Live
        <4>2. t <= clock /\ rows[t].supersedes < t
          BY <4>1, <1>3 DEF Inherits, Live
        <4>3. ASSUME rows[t].supersedes # 0, rows'[rows[t].supersedes] # NoRow
              PROVE  /\ ~Open(rows'[rows[t].supersedes])
                     /\ rows'[rows[t].supersedes].rules \subseteq rows'[t].rules
          <5>1. rows[t].supersedes \in Stamp
            BY <4>1, <4>2, <4>3, <3>0, BoundsAssumption DEF Stamp
          <5>2. rows[rows[t].supersedes] # NoRow
            BY <4>3, <5>1, <1>1, <1>5, <3>1 DEF Live
          <5>3. ~Open(rows[rows[t].supersedes]) /\ rows[rows[t].supersedes].rules \subseteq rows[t].rules
            BY <5>2, <4>1, <4>3, <1>3 DEF Inherits, Live
          <5>4. rows[t].supersedes # s
            BY <5>3, <3>1 DEF Grows
          <5>5. QED
            BY <5>1, <5>3, <5>4, <4>1, <1>1
        <4>4. QED
          BY <4>1, <4>2, <4>3
      <3>2. CASE Adds(c, s, o) /\ t = s
        <4>1. rows'[t].supersedes = call[c].latest /\ call[c].latest < s /\ call[c].seen.rules \subseteq o.rules
          BY <3>2, <1>1, <1>4 DEF Adds, OwnStamp
        <4>2. ASSUME call[c].latest # 0, rows'[call[c].latest] # NoRow
              PROVE  /\ ~Open(rows'[call[c].latest])
                     /\ rows'[call[c].latest].rules \subseteq o.rules
          <5>1. call[c].latest \in Stamp /\ call[c].latest # s
            BY <4>1, <4>2, <3>0, <3>2, BoundsAssumption DEF Stamp
          <5>2. rows'[call[c].latest] = call[c].seen /\ ~Open(call[c].seen)
            BY <5>1, <4>2, <1>1, <1>4, <3>2 DEF Superseding
          <5>3. QED
            BY <5>2, <4>1
        <4>3. QED
          BY <4>1, <4>2, <3>2, <1>1
      <3>3. CASE Adds(c, s, o) /\ t # s
        <4>1. rows'[t] = rows[t] /\ rows[t].supersedes # s
          BY <3>3, <1>1, <1>4 DEF Adds, OwnStamp
        <4>2. t <= clock /\ rows[t].supersedes < t
          BY <2>1, <4>1, <1>3 DEF Inherits, Live
        <4>3. rows[t].supersedes # 0 => rows'[rows[t].supersedes] = rows[rows[t].supersedes]
          BY <4>1, <4>2, <3>0, <1>1, BoundsAssumption DEF Stamp
        <4>4. QED
          BY <4>1, <4>2, <4>3, <2>1, <1>3 DEF Inherits, Live
      <3>4. QED
        BY <3>1, <3>2, <3>3
    <2>2. QED
      <3>1. ASSUME NEW t \in Stamp, rows'[t] = NoRow
            PROVE rows'[t].supersedes = 0
        BY <3>1 DEF NoRow
      <3>2. QED
        BY <2>1, <3>1 DEF Inherits, Live, Open
  <1>8. ASSUME NEW d \in Caller \ {c}
        PROVE  (/\ call[d].pc \in {"stamp", "insert"} => Superseding(call[d])
                /\ call[d].pc = "insert" => OwnStamp(d)
                /\ call[d].pc = "finalize" => Finalizing(call[d])
                /\ call[d].pc = "hand" => call[d].latest # 0
                /\ call[d].latest <= clock)'
    <2>0. call'[d] = call[d] /\ call[d] \in Calls /\ clock' = clock
      BY <1>1, Running
    <2>1. call[d].latest \in 0..MaxRows /\ call[d].at \in 0..MaxRows
      BY <2>0 DEF Calls
    <2>2. Adds(c, s, o) => call[d].latest # s
      BY <1>4 DEF Adds, OwnStamp
    <2>3. ASSUME call[d].pc \in {"stamp", "insert"} PROVE Superseding(call[d])'
      <3>1. Superseding(call[d])
        BY <2>3, <1>3 DEF CallsHold
      <3>2. ASSUME call[d].latest # 0 PROVE rows'[call[d].latest] \in {call[d].seen, NoRow}
        <4>1. call[d].latest \in Stamp
          BY <3>2, <2>1, BoundsAssumption DEF Stamp
        <4>2. call[d].latest # s
          BY <3>1, <3>2, <2>2 DEF Superseding, Grows, Open, NoRow
        <4>3. QED
          BY <3>1, <3>2, <4>1, <4>2, <1>1 DEF Superseding
      <3>3. QED
        BY <2>0, <3>1, <3>2 DEF Superseding
    <2>4. ASSUME call[d].pc = "insert" PROVE OwnStamp(d)'
      <3>1. OwnStamp(d)
        BY <2>4, <1>3 DEF CallsHold
      <3>2. call[d].at # s
        BY <3>1, <1>4, <1>5, <2>4 DEF OwnStamp, Adds
      <3>3. call[d].at \in Stamp
        BY <3>1, <2>1, BoundsAssumption DEF OwnStamp, Stamp
      <3>4. ~Live(call[d].at)'
        BY <3>1, <3>2, <3>3, <2>0, <1>1 DEF OwnStamp, Live
      <3>5. ASSUME NEW t \in Stamp PROVE rows'[t].supersedes # call[d].at
        <4>1. Grows(s, o) => o.supersedes # call[d].at
          BY <3>1 DEF Grows, OwnStamp
        <4>2. Adds(c, s, o) => o.supersedes # call[d].at
          BY <3>1 DEF Adds, OwnStamp
        <4>3. QED
          BY <3>1, <4>1, <4>2, <1>1 DEF OwnStamp
      <3>6. ASSUME NEW e \in Caller
            PROVE  call'[e].latest # call[d].at /\ (e # d /\ call'[e].pc = "insert" => call'[e].at # call[d].at)
        <4>1. CASE e = c
          <5>1. call'[e] = r /\ r.latest # call[d].at /\ r.pc # "insert"
            BY <4>1, <1>1, <3>1, <3>2, <2>1, BoundsAssumption DEF OwnStamp
          <5>2. QED
            BY <5>1
        <4>2. CASE e # c
          BY <4>2, <1>1, <3>1 DEF OwnStamp
        <4>3. QED
          BY <4>1, <4>2
      <3>7. QED
        BY <2>0, <3>1, <3>4, <3>5, <3>6 DEF OwnStamp
    <2>5. ASSUME call[d].pc = "finalize" PROVE Finalizing(call[d])'
      <3>1. Finalizing(call[d]) /\ call[d].latest \in Stamp
        BY <2>5, <2>1, <1>3, BoundsAssumption DEF CallsHold, Finalizing, Stamp
      <3>2. CASE call[d].latest # s
        BY <3>1, <3>2, <2>0, <1>1 DEF Finalizing, Live
      <3>3. CASE call[d].latest = s
        <4>1. Grows(s, o) /\ Live(s)
          BY <3>3, <2>2, <1>5
        <4>2. Len(call[d].seen.notes) <= Len(rows[s].notes) /\ Len(rows[s].notes) <= Len(o.notes)
          BY <4>1, <3>1, <3>3 DEF Finalizing, Grows
        <4>3. /\ Len(call[d].seen.notes) \in Nat /\ Len(o.notes) \in Nat /\ Len(rows[s].notes) \in Nat
          <5>1. rows[s] \in Rows \cup {NoRow} /\ call[d].seen \in Rows \cup {NoRow}
            BY <1>1, <2>0 DEF TypeOK, Calls
          <5>2. QED
            BY <5>1 DEF Rows, Notes, NoRow
        <4>4. QED
          BY <3>1, <3>3, <4>2, <4>3, <2>0, <1>1 DEF Finalizing, Live
      <3>4. QED
        BY <3>2, <3>3
    <2>6. QED
      BY <2>0, <2>3, <2>4, <2>5, <1>3 DEF CallsHold
  <1>9. CallsHold'
    <2>1. ~(call'[c].pc \in {"stamp", "insert", "finalize"})
      BY <1>1
    <2>2. call'[c].latest <= clock' /\ (call'[c].pc = "hand" => call'[c].latest # 0)
      BY <1>1, BoundsAssumption DEF Stamp
    <2>3. QED
      BY <1>8, <2>1, <2>2 DEF CallsHold
  <1>10. EveryNoteAtomized'
    <2>1. ASSUME NEW t \in Stamp, NEW i \in 1..Len(rows'[t].notes), rows'[t].notes[i].by = "record"
          PROVE  \/ i \in handed'[t]
                 \/ \E d \in Caller : call'[d].pc = "hand" /\ call'[d].latest = t /\ i \in Delta(call'[d])
      <3>1. CASE i \in 1..Len(rows[t].notes) /\ rows'[t].notes[i] = rows[t].notes[i]
        <4>1. \/ i \in handed[t]
              \/ \E d \in Caller : call[d].pc = "hand" /\ call[d].latest = t /\ i \in Delta(call[d])
          BY <2>1, <3>1 DEF IInv, EveryNoteAtomized
        <4>2. QED
          BY <4>1, <1>1
      <3>2. CASE ~(i \in 1..Len(rows[t].notes) /\ rows'[t].notes[i] = rows[t].notes[i])
        <4>1. t = s
          BY <2>1, <3>2, <1>1
        <4>2. r.pc = "hand" /\ i \in Delta(r)
          BY <2>1, <3>2, <4>1, <1>1
        <4>3. QED
          BY <4>1, <4>2, <1>1
      <3>3. QED
        BY <3>1, <3>2
    <2>2. QED
      BY <2>1 DEF EveryNoteAtomized, Delta
  <1>11. QED
    BY <1>2, <1>6, <1>7, <1>9, <1>10 DEF IInv, OutcomeInv

LEMMA PruneInv == ASSUME IInv, Prune PROVE IInv'
  <1>1. PICK cutoff \in 1..clock : rows' = [s \in Stamp |-> IF s <= cutoff THEN NoRow ELSE rows[s]]
    BY DEF Prune, Pruned
  <1>2. /\ TypeOK /\ OneDraft /\ Inherits /\ CallsHold /\ UNCHANGED <<clock, handed, call, calls>>
        /\ clock \in Nat /\ \A d \in Caller : call[d] \in Calls
    BY BoundsAssumption DEF IInv, OutcomeInv, TypeOK, Prune
  <1>3. \A s \in Stamp : rows'[s] \in {rows[s], NoRow} /\ (s > cutoff => rows'[s] = rows[s])
                         /\ (s <= cutoff => rows'[s] = NoRow)
    BY <1>1, StampType
  <1>4. TypeOK'
    BY <1>1, <1>2 DEF TypeOK
  <1>5. NoRow.supersedes = 0 /\ NoRow.notes = << >> /\ ~Open(NoRow)
    BY DEF NoRow, Open
  <1>6. OneDraft'
    BY <1>2, <1>3, <1>5 DEF OneDraft, Open
  <1>7. Inherits'
    <2>1. ASSUME NEW s \in Stamp, rows'[s] # NoRow
          PROVE  /\ s <= clock /\ rows'[s].supersedes < s
                 /\ (rows'[s].supersedes # 0 /\ rows'[rows'[s].supersedes] # NoRow) =>
                      /\ ~Open(rows'[rows'[s].supersedes])
                      /\ rows'[rows'[s].supersedes].rules \subseteq rows'[s].rules
      <3>1. rows'[s] = rows[s] /\ rows[s] # NoRow /\ rows[s].supersedes \in 0..MaxRows
        BY <2>1, <1>2, <1>3 DEF TypeOK, Rows
      <3>2. s <= clock /\ rows[s].supersedes < s
        BY <3>1, <1>2 DEF Inherits, Live
      <3>3. rows[s].supersedes # 0 => rows[s].supersedes \in Stamp
        BY <3>1, BoundsAssumption DEF Stamp
      <3>4. QED
        BY <3>1, <3>2, <3>3, <1>2, <1>3 DEF Inherits, Live
    <2>2. ASSUME NEW s \in Stamp, rows'[s] = NoRow PROVE rows'[s].supersedes = 0
      BY <2>2, <1>5
    <2>3. QED
      BY <2>1, <2>2, <1>2 DEF Inherits, Live, Open
  <1>8. CallsHold'
    <2>1. ASSUME NEW d \in Caller
          PROVE  (/\ call[d].pc \in {"stamp", "insert"} => Superseding(call[d])
                  /\ call[d].pc = "insert" => OwnStamp(d)
                  /\ call[d].pc = "finalize" => Finalizing(call[d])
                  /\ call[d].pc = "hand" => call[d].latest # 0
                /\ call[d].latest <= clock)'
      <3>1. call[d].latest \in 0..MaxRows /\ call[d].at \in 0..MaxRows
        BY <1>2 DEF Calls
      <3>2. call[d].latest # 0 => rows'[call[d].latest] \in {rows[call[d].latest], NoRow}
        BY <3>1, <1>3, BoundsAssumption DEF Stamp
      <3>3. call[d].pc \in {"stamp", "insert"} => Superseding(call[d])'
        BY <3>2, <1>2 DEF CallsHold, Superseding
      <3>4. call[d].pc = "finalize" => Finalizing(call[d])'
        BY <3>1, <3>2, <1>2 DEF CallsHold, Finalizing, Live
      <3>5. ASSUME call[d].pc = "insert" PROVE OwnStamp(d)'
        <4>1. OwnStamp(d) /\ call[d].at \in Stamp /\ call[d].at # 0
          BY <3>1, <3>5, <1>2, BoundsAssumption DEF CallsHold, OwnStamp, Stamp
        <4>2. ~Live(call[d].at)'
          BY <4>1, <1>2, <1>3 DEF OwnStamp, Live
        <4>3. \A s \in Stamp : rows'[s].supersedes # call[d].at
          BY <4>1, <1>3, <1>5 DEF OwnStamp
        <4>4. QED
          BY <4>1, <4>2, <4>3, <1>2 DEF OwnStamp
      <3>6. QED
        BY <3>3, <3>4, <3>5, <1>2 DEF CallsHold
    <2>2. QED
      BY <2>1 DEF CallsHold
  <1>9. EveryNoteAtomized'
    <2>1. ASSUME NEW s \in Stamp, NEW i \in 1..Len(rows'[s].notes), rows'[s].notes[i].by = "record"
          PROVE  \/ i \in handed[s]
                 \/ \E d \in Caller : call[d].pc = "hand" /\ call[d].latest = s /\ i \in Delta(call[d])
      <3>1. rows'[s] # NoRow
        BY <2>1, <1>5
      <3>2. rows'[s] = rows[s]
        BY <3>1, <1>3
      <3>3. QED
        BY <2>1, <3>2 DEF IInv, EveryNoteAtomized
    <2>2. QED
      BY <2>1, <1>2 DEF EveryNoteAtomized, Delta
  <1>10. QED
    BY <1>4, <1>6, <1>7, <1>8, <1>9 DEF IInv, OutcomeInv

LEMMA StartInv ==
  ASSUME IInv, NEW c \in Caller, NEW r \in Calls, Start(c, r),
         r.pc = "resolve", r.latest = 0, r.kind = "seed" => r.text = NoSegment
  PROVE  IInv'
  <1>1. /\ call' = [call EXCEPT ![c] = r] /\ UNCHANGED <<rows, clock, handed>> /\ call[c].pc = "idle"
        /\ calls' \in 0..MaxCalls /\ clock \in 0..MaxRows /\ handed \in [Stamp -> SUBSET Nat]
    BY BoundsAssumption DEF Start, IInv, TypeOK
  <1>2. clock <= clock'
    BY <1>1, BoundsAssumption
  <1>3. QED
    BY <1>1, <1>2, Quiet

LEMMA StartsInv ==
  ASSUME IInv, NEW c \in Caller, RecordOutcome(c) \/ FinishWork(c) \/ SeedDraft(c)
  PROVE  IInv'
  <1>1. CASE RecordOutcome(c)
    <2>1. PICK x \in Terminal \cup {"unknown"}, t \in Segment \cup {NoSegment}, u \in Rule \cup {NoRule} :
            Start(c, [Idle EXCEPT !.pc = "resolve", !.kind = "record", !.result = x, !.text = t, !.rule = u])
      BY <1>1 DEF RecordOutcome
    <2> DEFINE r == [Idle EXCEPT !.pc = "resolve", !.kind = "record", !.result = x, !.text = t, !.rule = u]
    <2>2. r \in Calls /\ r.pc = "resolve" /\ r.latest = 0 /\ r.kind = "record"
      BY IdleType DEF Idle, Calls
    <2>3. Start(c, r)
      BY <2>1
    <2> HIDE DEF r
    <2>4. QED
      BY <2>2, <2>3, StartInv
  <1>2. CASE FinishWork(c)
    <2>1. PICK x \in Negative, t \in Segment :
            Start(c, [Idle EXCEPT !.pc = "resolve", !.kind = "finish", !.result = x, !.text = t])
      BY <1>2 DEF FinishWork
    <2> DEFINE r == [Idle EXCEPT !.pc = "resolve", !.kind = "finish", !.result = x, !.text = t]
    <2>2. r \in Calls /\ r.pc = "resolve" /\ r.latest = 0 /\ r.kind = "finish"
      BY IdleType, TerminalAssumption DEF Idle, Calls
    <2>3. Start(c, r)
      BY <2>1
    <2> HIDE DEF r
    <2>4. QED
      BY <2>2, <2>3, StartInv
  <1>3. CASE SeedDraft(c)
    <2> DEFINE r == [Idle EXCEPT !.pc = "resolve"]
    <2>1. r \in Calls /\ r.pc = "resolve" /\ r.latest = 0 /\ r.text = NoSegment
      BY IdleType DEF Idle, Calls
    <2>2. Start(c, r)
      BY <1>3 DEF SeedDraft
    <2> HIDE DEF r
    <2>3. QED
      BY <2>1, <2>2, StartInv
  <1>4. QED
    BY <1>1, <1>2, <1>3

(* A call that returns without a write. *)
LEMMA ReturnInv ==
  ASSUME IInv, NEW c \in Caller, Return(c), call[c].pc # "hand", UNCHANGED <<rows, clock, handed, calls>>
  PROVE  IInv'
  <1>1. /\ call' = [call EXCEPT ![c] = Idle] /\ Idle.pc = "idle" /\ Idle.latest = 0 /\ Idle.text = NoSegment
        /\ calls' \in 0..MaxCalls /\ clock' \in 0..MaxRows /\ clock <= clock'
        /\ handed' \in [Stamp -> SUBSET Nat]
    BY BoundsAssumption DEF Return, Idle, IInv, TypeOK
  <1>2. QED
    BY <1>1, IdleType, Quiet

LEMMA ResolveInv == ASSUME IInv, NEW c \in Caller, Resolve(c) PROVE IInv'
  <1>1. /\ UNCHANGED <<rows, clock, handed, calls>> /\ call[c].pc = "resolve" /\ call[c] \in Calls
        /\ calls' \in 0..MaxCalls /\ clock' \in 0..MaxRows /\ clock <= clock'
        /\ handed' \in [Stamp -> SUBSET Nat] /\ (call[c].kind = "seed" => call[c].text = NoSegment)
        /\ rows \in [Stamp -> Rows \cup {NoRow}]
    <2>1. UNCHANGED <<rows, clock, handed, calls>> /\ call[c].pc = "resolve" /\ TypeOK
      BY DEF Resolve, IInv
    <2>2. QED
      BY <2>1, Running, BoundsAssumption DEF TypeOK
  <1>2. CASE Return(c)
    BY <1>1, <1>2, ReturnInv
  <1>3. CASE call' = [call EXCEPT ![c].pc = "stamp", ![c].latest = 0, ![c].seen = NoRow]
    <2>1. PICK r : r = [call[c] EXCEPT !.pc = "stamp", !.latest = 0, !.seen = NoRow]
      OBVIOUS
    <2>2. /\ r \in Calls /\ r.pc = "stamp" /\ r.latest = 0 /\ r.seen = NoRow
          /\ r.kind = call[c].kind /\ r.text = call[c].text
      <3>1. 0 \in 0..MaxRows
        BY BoundsAssumption
      <3>2. LET q == [call[c] EXCEPT !.pc = "stamp", !.latest = 0, !.seen = NoRow] IN
            q \in Calls /\ q.pc = "stamp" /\ q.latest = 0 /\ q.seen = NoRow
            /\ q.kind = call[c].kind /\ q.text = call[c].text
        BY <1>1, <3>1 DEF Calls
      <3>3. QED
        BY <2>1, <3>2
    <2>3. call' = [call EXCEPT ![c] = r]
      BY <1>3, <2>1
    <2>4. Superseding(r)'
      BY <2>2, <1>1, BoundsAssumption DEF Superseding
    <2>5. QED
      BY <1>1, <2>2, <2>3, <2>4, Quiet
  <1>4. CASE \E s \in Stamp : Live(s) /\ Open(rows[s])
               /\ call' = [call EXCEPT ![c].pc = "finalize", ![c].latest = s, ![c].seen = rows[s]]
    <2>0. PICK s \in Stamp : Live(s) /\ Open(rows[s])
               /\ call' = [call EXCEPT ![c].pc = "finalize", ![c].latest = s, ![c].seen = rows[s]]
      BY <1>4
    <2>1. PICK r : r = [call[c] EXCEPT !.pc = "finalize", !.latest = s, !.seen = rows[s]]
      OBVIOUS
    <2>2. /\ r \in Calls /\ r.pc = "finalize" /\ r.latest = s /\ r.seen = rows[s]
          /\ r.kind = call[c].kind /\ r.text = call[c].text
      <3>1. s \in 0..MaxRows /\ rows[s] \in Rows \cup {NoRow}
        BY <1>1, BoundsAssumption DEF Stamp
      <3>2. LET q == [call[c] EXCEPT !.pc = "finalize", !.latest = s, !.seen = rows[s]] IN
            q \in Calls /\ q.pc = "finalize" /\ q.latest = s /\ q.seen = rows[s]
            /\ q.kind = call[c].kind /\ q.text = call[c].text
        BY <1>1, <3>1 DEF Calls
      <3>3. QED
        BY <2>1, <3>2
    <2>3. call' = [call EXCEPT ![c] = r]
      BY <2>0, <2>1
    <2>4. s # 0
      BY StampType
    <2>5. Len(rows[s].notes) \in Nat
      BY <1>1 DEF Rows, Notes, NoRow
    <2>6. Finalizing(r)'
      BY <2>2, <2>4, <2>5, <1>1 DEF Finalizing
    <2>7. QED
      BY <1>1, <2>0, <2>2, <2>3, <2>6, Quiet
  <1>5. CASE \E s \in Stamp : Live(s) /\ ~Open(rows[s])
               /\ call' = [call EXCEPT ![c].pc = "stamp", ![c].latest = s, ![c].seen = rows[s]]
    <2>0. PICK s \in Stamp : Live(s) /\ ~Open(rows[s])
               /\ call' = [call EXCEPT ![c].pc = "stamp", ![c].latest = s, ![c].seen = rows[s]]
      BY <1>5
    <2>1. PICK r : r = [call[c] EXCEPT !.pc = "stamp", !.latest = s, !.seen = rows[s]]
      OBVIOUS
    <2>2. /\ r \in Calls /\ r.pc = "stamp" /\ r.latest = s /\ r.seen = rows[s]
          /\ r.kind = call[c].kind /\ r.text = call[c].text
      <3>1. s \in 0..MaxRows /\ rows[s] \in Rows \cup {NoRow}
        BY <1>1, BoundsAssumption DEF Stamp
      <3>2. LET q == [call[c] EXCEPT !.pc = "stamp", !.latest = s, !.seen = rows[s]] IN
            q \in Calls /\ q.pc = "stamp" /\ q.latest = s /\ q.seen = rows[s]
            /\ q.kind = call[c].kind /\ q.text = call[c].text
        BY <1>1, <3>1 DEF Calls
      <3>3. QED
        BY <2>1, <3>2
    <2>3. call' = [call EXCEPT ![c] = r]
      BY <2>0, <2>1
    <2>4. s # 0
      BY StampType
    <2>6. Superseding(r)'
      BY <2>0, <2>2, <2>4, <1>1, BoundsAssumption DEF Superseding, Live
    <2>7. QED
      BY <1>1, <2>0, <2>2, <2>3, <2>6, Quiet
  <1>6. QED
    BY <1>2, <1>3, <1>4, <1>5 DEF Resolve, IsLatest

LEMMA BeginInsertInv == ASSUME IInv, NEW c \in Caller, BeginInsert(c) PROVE IInv'
  <1>1. /\ call[c].pc = "stamp" /\ clock < MaxRows /\ clock' = clock + 1 /\ clock \in Nat
        /\ call' = [call EXCEPT ![c].pc = "insert", ![c].at = clock + 1]
        /\ UNCHANGED <<rows, handed, calls>> /\ TypeOK /\ CallsHold /\ Inherits
    BY BoundsAssumption DEF BeginInsert, IInv, TypeOK, OutcomeInv
  <1>2. call[c] \in Calls /\ (call[c].kind = "seed" => call[c].text = NoSegment) /\ call \in [Caller -> Calls]
    BY <1>1, Running DEF TypeOK
  <1>3. clock + 1 \in 0..MaxRows /\ clock <= clock + 1
    BY <1>1, BoundsAssumption
  <1>4. PICK r : r = [call[c] EXCEPT !.pc = "insert", !.at = clock + 1]
    OBVIOUS
  <1>5. /\ r \in Calls /\ r.pc = "insert" /\ r.at = clock + 1
        /\ r.latest = call[c].latest /\ r.seen = call[c].seen
        /\ r.kind = call[c].kind /\ r.text = call[c].text
    BY <1>2, <1>3, <1>4 DEF Calls
  <1>6. call' = [call EXCEPT ![c] = r]
    BY <1>1, <1>4
  <1>7. Superseding(call[c])
    BY <1>1 DEF CallsHold
  <1>8. r.latest \in Nat /\ r.latest <= clock
    BY <1>1, <1>2, <1>5, BoundsAssumption DEF Calls, CallsHold
  <1>9. Superseding(r)'
    BY <1>1, <1>5, <1>7, <1>8 DEF Superseding
  <1>10. OwnStamp(c)'
    <2>1. call'[c] = r /\ \A d \in Caller \ {c} : call'[d] = call[d]
      BY <1>2, <1>6
    <2>2. ~Live(clock + 1)
      <3>1. clock + 1 \in Stamp
        BY <1>1, BoundsAssumption DEF Stamp
      <3>2. QED
        BY <3>1, <1>1 DEF Inherits
    <2>3. ASSUME NEW s \in Stamp PROVE rows[s].supersedes # clock + 1
      <3>1. CASE Live(s)
        <4>1. s <= clock /\ rows[s].supersedes < s /\ rows[s].supersedes \in Nat /\ s \in Nat
          BY <3>1, <1>1, BoundsAssumption DEF Inherits, TypeOK, Rows, Live, NoRow, Stamp
        <4>2. QED
          BY <4>1, <1>1
      <3>2. CASE ~Live(s)
        BY <3>2, <1>1 DEF Live, NoRow
      <3>3. QED
        BY <3>1, <3>2
    <2>4. ASSUME NEW d \in Caller
          PROVE  call'[d].latest # clock + 1 /\ (d # c /\ call'[d].pc = "insert" => call'[d].at # clock + 1)
      <3>1. CASE d = c
        BY <3>1, <2>1, <1>1, <1>8
      <3>2. CASE d # c
        <4>1. call'[d] = call[d] /\ call[d] \in Calls
          BY <3>2, <2>1, <1>2
        <4>2. call[d].at \in Nat /\ call[d].latest \in Nat
          BY <4>1, BoundsAssumption DEF Calls
        <4>3. call[d].pc = "insert" => call[d].at <= clock
          BY <1>1 DEF CallsHold, OwnStamp
        <4>4. call[d].latest <= clock
          BY <1>1 DEF CallsHold
        <4>5. QED
          BY <4>1, <4>2, <4>3, <4>4, <1>1
      <3>3. QED
        BY <3>1, <3>2
    <2>5. PICK a : a = clock + 1
      OBVIOUS
    <2>6. call'[c].at = a /\ call'[c].latest < a /\ a <= clock'
      BY <2>1, <2>5, <1>1, <1>5, <1>8
    <2>7. rows'[a] = NoRow /\ \A s \in Stamp : rows'[s].supersedes # a
      BY <2>2, <2>3, <2>5, <1>1 DEF Live
    <2>8. QED
      BY <2>4, <2>5, <2>6, <2>7 DEF OwnStamp, Live
  <1>11. QED
    BY <1>1, <1>2, <1>3, <1>5, <1>6, <1>9, <1>10, Quiet DEF TypeOK

(* The record of a call that goes on to hand over, or that has returned. *)
LEMMA WroteRecord ==
  ASSUME IInv, NEW c \in Caller, NEW s \in Stamp, NEW from \in Nat, NEW to \in Nat, Wrote(c, s, from, to)
  PROVE  \E r \in Calls :
           /\ call' = [call EXCEPT ![c] = r]
           /\ r.pc \in {"hand", "idle"} /\ (r.kind = "seed" => r.text = NoSegment)
           /\ r.latest \in {0, s} /\ (r.pc = "hand" => r.latest = s)
           /\ call[c].kind = "record" => r.pc = "hand" /\ r.from = from /\ r.to = to
  <1>1. CASE call[c].kind = "record"
    <2> DEFINE r == [Idle EXCEPT !.pc = "hand", !.latest = s, !.from = from, !.to = to]
    <2>1. s \in 0..MaxRows
      BY BoundsAssumption DEF Stamp
    <2>2. r \in Calls /\ r.pc = "hand" /\ r.latest = s /\ r.from = from /\ r.to = to /\ r.text = NoSegment
      BY <2>1, IdleType DEF Idle, Calls
    <2>3. call' = [call EXCEPT ![c] = r]
      BY <1>1 DEF Wrote
    <2> HIDE DEF r
    <2>4. QED
      BY <2>2, <2>3
  <1>2. CASE call[c].kind # "record"
    <2>1. call' = [call EXCEPT ![c] = Idle] /\ Idle.pc = "idle" /\ Idle.latest = 0 /\ Idle.text = NoSegment
      BY <1>2 DEF Wrote, Return, Idle
    <2>2. QED
      BY <1>2, <2>1, IdleType
  <1>3. QED
    BY <1>1, <1>2

(* The segment a call appends is the call's own. *)
LEMMA NewNoteIsOwn ==
  ASSUME NEW notes \in Notes, NEW p \in Calls, p.kind = "seed" => p.text = NoSegment,
         NEW i \in 1..Len(AddNote(notes, p)), AddNote(notes, p)[i].by = "record"
  PROVE  \/ i \in 1..Len(notes)
         \/ p.kind = "record" /\ i = Len(notes) + 1 /\ i = Len(AddNote(notes, p))
  <1>1. CASE p.text = NoSegment
    BY <1>1 DEF AddNote
  <1>2. CASE p.text # NoSegment
    <2> DEFINE n == [text |-> p.text, by |-> p.kind]
    <2>1. n \in [text : Segment, by : {"record", "finish"}] /\ n.by = p.kind
      BY <1>2 DEF Calls
    <2>2. AddNote(notes, p) = Append(notes, n)
      BY <1>2 DEF AddNote
    <2> HIDE DEF n
    <2>3. QED
      BY <2>1, <2>2 DEF Notes
  <1>3. QED
    BY <1>1, <1>2

LEMMA FinalizeDraftInv == ASSUME IInv, NEW c \in Caller, FinalizeDraft(c) PROVE IInv'
  <1>1. /\ call[c].pc = "finalize" /\ UNCHANGED <<clock, handed, calls>> /\ TypeOK /\ CallsHold
        /\ call[c] \in Calls /\ (call[c].kind = "seed" => call[c].text = NoSegment)
    BY Running DEF FinalizeDraft, IInv, OutcomeInv
  <1>2. Finalizing(call[c]) /\ call[c].latest <= clock
    BY <1>1 DEF CallsHold
  <1>3. PICK s : s = call[c].latest
    OBVIOUS
  <1>4. s \in Stamp
    BY <1>1, <1>2, <1>3, BoundsAssumption DEF Finalizing, Stamp, Calls
  <1>5. CASE /\ Open(rows[s]) /\ rows' = [rows EXCEPT ![s] = Finalized(rows[s], call[c])]
             /\ Wrote(c, s, Len(call[c].seen.notes), Len(Finalized(rows[s], call[c]).notes))
    <2>1. rows[s] \in Rows /\ Live(s)
      BY <1>1, <1>4, <1>5 DEF TypeOK, Open, NoRow, Live
    <2>2. PICK o : o = Finalized(rows[s], call[c])
      OBVIOUS
    <2>3. /\ o \in Rows /\ Len(rows[s].notes) <= Len(o.notes)
          /\ \A i \in 1..Len(rows[s].notes) : o.notes[i] = rows[s].notes[i]
          /\ rows[s].rules \subseteq o.rules /\ o.supersedes = rows[s].supersedes
      BY <1>1, <2>1, <2>2, FinalizedGrows
    <2>4. Grows(s, o)
      BY <1>5, <2>3 DEF Grows
    <2>5. /\ Len(call[c].seen.notes) \in Nat /\ Len(o.notes) \in Nat /\ Len(rows[s].notes) \in Nat
          /\ rows[s].notes \in Notes /\ Len(call[c].seen.notes) <= Len(rows[s].notes)
      <3>1. call[c].seen \in Rows \cup {NoRow}
        BY <1>1 DEF Calls
      <3>2. QED
        BY <3>1, <2>1, <2>3, <1>2, <1>3 DEF Rows, Notes, NoRow, Finalizing
    <2>6. PICK r \in Calls :
           /\ call' = [call EXCEPT ![c] = r]
           /\ r.pc \in {"hand", "idle"} /\ (r.kind = "seed" => r.text = NoSegment)
           /\ r.latest \in {0, s} /\ (r.pc = "hand" => r.latest = s)
           /\ call[c].kind = "record" =>
                r.pc = "hand" /\ r.from = Len(call[c].seen.notes) /\ r.to = Len(o.notes)
      BY <1>4, <1>5, <2>2, <2>5, WroteRecord
    <2>7. o.notes = AddNote(rows[s].notes, call[c])
      BY <2>1, <2>2 DEF Finalized, Rows
    <2>8. ASSUME NEW i \in 1..Len(o.notes), o.notes[i].by = "record"
          PROVE  \/ i \in 1..Len(rows[s].notes) /\ o.notes[i] = rows[s].notes[i]
                 \/ r.pc = "hand" /\ i \in Delta(r)
      <3>1. CASE i \in 1..Len(rows[s].notes)
        BY <3>1, <2>3
      <3>2. CASE i \notin 1..Len(rows[s].notes)
        <4>1. call[c].kind = "record" /\ i = Len(rows[s].notes) + 1 /\ i = Len(o.notes)
          BY <1>1, <2>5, <2>7, <2>8, <3>2, NewNoteIsOwn
        <4>2. r.pc = "hand" /\ r.from = Len(call[c].seen.notes) /\ r.to = Len(o.notes)
          BY <4>1, <2>6
        <4>3. r.from < Len(rows[s].notes) + 1
          <5>1. ASSUME NEW k \in Nat, NEW n \in Nat, k <= n PROVE k < n + 1
            BY <5>1
          <5>2. QED
            BY <4>2, <5>1, <2>5
        <4>4. r.pc = "hand" /\ r.from < i /\ r.to = i
          BY <4>1, <4>2, <4>3
        <4>5. r.from \in Nat /\ r.to \in Nat
          BY DEF Calls
        <4>6. QED
          BY <4>4, <4>5 DEF Delta
      <3>3. QED
        BY <3>1, <3>2
    <2>9. QED
      BY <1>1, <1>2, <1>3, <1>4, <1>5, <2>2, <2>3, <2>4, <2>6, <2>8, Write
  <1>6. CASE LostRace(c) /\ UNCHANGED rows
    <2>1. CASE Return(c)
      BY <2>1, <1>1, <1>6, ReturnInv
    <2>2. CASE call' = [call EXCEPT ![c].pc = "resolve", ![c].tries = @ + 1]
      <3>1. PICK r : r = [call[c] EXCEPT !.pc = "resolve", !.tries = @ + 1]
        OBVIOUS
      <3>2. /\ r \in Calls /\ r.pc = "resolve" /\ r.latest = call[c].latest
            /\ r.kind = call[c].kind /\ r.text = call[c].text
        <4>1. call[c].tries + 1 \in Nat
          BY <1>1 DEF Calls
        <4>2. QED
          BY <1>1, <3>1, <4>1 DEF Calls
      <3>3. call' = [call EXCEPT ![c] = r]
        BY <2>2, <3>1
      <3>4. /\ calls' \in 0..MaxCalls /\ clock' \in 0..MaxRows /\ clock <= clock'
            /\ handed' \in [Stamp -> SUBSET Nat]
        BY <1>1, BoundsAssumption DEF TypeOK
      <3>5. QED
        BY <1>1, <1>6, <3>2, <3>3, <3>4, Quiet
    <2>3. QED
      BY <2>1, <2>2, <1>6 DEF LostRace
  <1>7. QED
    BY <1>3, <1>5, <1>6 DEF FinalizeDraft, CanFinalize

LEMMA InsertInv == ASSUME IInv, NEW c \in Caller, Insert(c) PROVE IInv'
  <1>1. /\ call[c].pc = "insert" /\ UNCHANGED <<clock, handed, calls>> /\ TypeOK /\ CallsHold
        /\ call[c] \in Calls /\ (call[c].kind = "seed" => call[c].text = NoSegment)
    BY Running DEF Insert, IInv, OutcomeInv
  <1>2. OwnStamp(c) /\ Superseding(call[c])
    BY <1>1 DEF CallsHold
  <1>3. PICK s : s = call[c].at
    OBVIOUS
  <1>4. s \in Stamp /\ s <= clock /\ rows[s] = NoRow
    <2>1. call[c].at \in 0..MaxRows /\ call[c].latest \in 0..MaxRows
      BY <1>1 DEF Calls
    <2>2. QED
      BY <1>2, <1>3, <2>1, BoundsAssumption DEF OwnStamp, Stamp, Live
  <1>5. CASE /\ Open(call[c]) => \A q \in Stamp : ~Open(rows[q])
             /\ rows' = [rows EXCEPT ![s] = NewRow(call[c])]
             /\ Wrote(c, s, PreviousNotes(call[c]), Len(NewRow(call[c]).notes))
    <2>2. PICK o : o = NewRow(call[c])
      OBVIOUS
    <2>3. /\ o \in Rows /\ o.supersedes = call[c].latest /\ call[c].seen.rules \subseteq o.rules
          /\ o.result = call[c].result
      BY <1>1, <2>2, NewRowType
    <2>4. Adds(c, s, o)
      BY <1>1, <1>3, <1>5, <2>3 DEF Adds, Open
    <2>5. Len(o.notes) \in Nat /\ PreviousNotes(call[c]) = 0
      BY <2>3 DEF Rows, Notes, PreviousNotes
    <2>6. PICK r \in Calls :
           /\ call' = [call EXCEPT ![c] = r]
           /\ r.pc \in {"hand", "idle"} /\ (r.kind = "seed" => r.text = NoSegment)
           /\ r.latest \in {0, s} /\ (r.pc = "hand" => r.latest = s)
           /\ call[c].kind = "record" => r.pc = "hand" /\ r.from = 0 /\ r.to = Len(o.notes)
      BY <1>4, <1>5, <2>2, <2>5, WroteRecord
    <2>7. o.notes = AddNote(<< >>, call[c]) /\ << >> \in Notes /\ Len(<< >>) = 0
      BY <2>2 DEF NewRow, Notes
    <2>8. ASSUME NEW i \in 1..Len(o.notes), o.notes[i].by = "record"
          PROVE  r.pc = "hand" /\ i \in Delta(r)
      <3>1. PICK e : e = << >>
        OBVIOUS
      <3>2. e \in Notes /\ Len(e) = 0 /\ o.notes = AddNote(e, call[c])
        BY <2>7, <3>1
      <3>3. call[c].kind = "record"
        BY <1>1, <2>8, <3>2, NewNoteIsOwn
      <3>4. r.from = 0 /\ r.to = Len(o.notes) /\ r.pc = "hand"
        BY <3>3, <2>6
      <3>5. QED
        BY <3>4, <2>5 DEF Delta
    <2>9. QED
      BY <1>1, <1>4, <1>5, <2>2, <2>3, <2>4, <2>6, <2>8, Write
  <1>6. CASE Return(c) /\ UNCHANGED rows
    BY <1>1, <1>6, ReturnInv
  <1>7. QED
    BY <1>3, <1>5, <1>6 DEF Insert

LEMMA HandOverInv == ASSUME IInv, NEW c \in Caller, HandOver(c) PROVE IInv'
  <1>1. /\ call[c].pc = "hand" /\ UNCHANGED <<rows, clock, calls>> /\ TypeOK /\ CallsHold
        /\ call[c] \in Calls /\ call' = [call EXCEPT ![c] = Idle]
        /\ handed' = [handed EXCEPT ![call[c].latest] = handed[call[c].latest] \cup Delta(call[c])]
    BY Running DEF HandOver, Return, IInv, OutcomeInv
  <1>2. call[c].latest \in Stamp
    BY <1>1, BoundsAssumption DEF CallsHold, Calls, Stamp
  <1>3. Delta(call[c]) \subseteq Nat
    BY <1>1 DEF Delta, Calls
  <1>4. handed' \in [Stamp -> SUBSET Nat] /\ Delta(call[c]) \subseteq handed'[call[c].latest]
        /\ \A s \in Stamp : handed[s] \subseteq handed'[s]
    BY <1>1, <1>2, <1>3 DEF TypeOK
  <1>5. /\ Idle.pc = "idle" /\ Idle.latest = 0 /\ Idle.text = NoSegment /\ Idle \in Calls
        /\ calls' \in 0..MaxCalls /\ clock' \in 0..MaxRows /\ clock <= clock'
    BY <1>1, IdleType, BoundsAssumption DEF Idle, TypeOK
  <1>6. QED
    BY <1>1, <1>4, <1>5, Quiet

LEMMA NextInv == ASSUME IInv, Next PROVE IInv'
  <1>1. CASE \E c \in Caller : RecordOutcome(c) \/ FinishWork(c) \/ SeedDraft(c)
    BY <1>1, StartsInv
  <1>2. ASSUME NEW c \in Caller, Step(c) PROVE IInv'
    BY <1>2, ResolveInv, FinalizeDraftInv, BeginInsertInv, InsertInv, HandOverInv DEF Step
  <1>3. CASE Prune
    BY <1>3, PruneInv
  <1>4. QED
    BY <1>1, <1>2, <1>3 DEF Next

LEMMA StutterInv == ASSUME IInv, UNCHANGED vars PROVE IInv'
  BY DEF vars, IInv, TypeOK, OutcomeInv, OneDraft, Inherits, CallsHold, Superseding, OwnStamp, Finalizing,
         EveryNoteAtomized, Live, Open, Delta

(* The inductive invariant holds of every reachable state. *)
THEOREM Invariant == Spec => []IInv
  <1>1. IInv /\ [Next]_vars => IInv'
    BY NextInv, StutterInv
  <1>2. QED
    BY InitIInv, <1>1, PTL DEF Spec

(* Rows, stamps and calls have the types they are declared with. *)
THEOREM TypeCorrect == Spec => []TypeOK
  <1>1. IInv => TypeOK
    BY DEF IInv
  <1>2. QED
    BY Invariant, <1>1, PTL

(* One draft at a time, rules inherited, and calls hold what they believe    *)
(* (RecordExecutionResult and idx_outcomes_one_open_draft).                  *)
THEOREM OutcomesConsistent == Spec => []OutcomeInv
  <1>1. IInv => OutcomeInv
    BY DEF IInv
  <1>2. QED
    BY Invariant, <1>1, PTL

(* No note recorded is missed by the atomizer (handleRecordOutcome).         *)
THEOREM NotesAtomized == Spec => []EveryNoteAtomized
  <1>1. IInv => EveryNoteAtomized
    BY DEF IInv
  <1>2. QED
    BY Invariant, <1>1, PTL

------------------------------------------------------------------------------
(* The ledger *)

LEMMA LedgerInit == Init => Ledger!Init
  BY DEF Init, Ledger!Init, Stamp, Ledger!Stamp

LEMMA LedgerGrow ==
  ASSUME IInv, NEW c \in Caller, FinalizeDraft(c)
  PROVE  UNCHANGED rows \/ \E s \in Stamp : Ledger!Grow(s)
  <1>1. /\ call[c].pc = "finalize" /\ TypeOK /\ CallsHold
        /\ call[c] \in Calls /\ (call[c].kind = "seed" => call[c].text = NoSegment)
    BY Running DEF FinalizeDraft, IInv, OutcomeInv
  <1>2. PICK s : s = call[c].latest
    OBVIOUS
  <1>3. s \in Stamp
    BY <1>1, <1>2, BoundsAssumption DEF CallsHold, Finalizing, Stamp, Calls
  <1>4. CASE Open(rows[s]) /\ rows' = [rows EXCEPT ![s] = Finalized(rows[s], call[c])]
    <2>1. rows[s] \in Rows /\ Live(s)
      BY <1>1, <1>3, <1>4 DEF TypeOK, Open, NoRow, Live
    <2>2. PICK o : o = Finalized(rows[s], call[c])
      OBVIOUS
    <2>3. /\ Len(rows[s].notes) <= Len(o.notes)
          /\ \A i \in 1..Len(rows[s].notes) : o.notes[i] = rows[s].notes[i]
          /\ rows[s].rules \subseteq o.rules /\ o.supersedes = rows[s].supersedes
      BY <1>1, <2>1, <2>2, FinalizedGrows
    <2>4. rows'[s] = o /\ \A q \in Stamp \ {s} : rows'[q] = rows[q]
      BY <1>1, <1>3, <1>4, <2>2 DEF TypeOK
    <2>5. Ledger!Grow(s)
      BY <1>4, <2>1, <2>3, <2>4 DEF Ledger!Grow, Ledger!Live, Ledger!Open, Ledger!Others, Ledger!Stamp,
         Stamp, Live, Open
    <2>6. QED
      BY <1>3, <2>5
  <1>5. QED
    BY <1>2, <1>4 DEF FinalizeDraft, CanFinalize

LEMMA LedgerAdd ==
  ASSUME IInv, NEW c \in Caller, Insert(c)
  PROVE  UNCHANGED rows \/ \E s \in Stamp : Ledger!Add(s)
  <1>1. /\ call[c].pc = "insert" /\ TypeOK /\ CallsHold
        /\ call[c] \in Calls /\ (call[c].kind = "seed" => call[c].text = NoSegment)
    BY Running DEF Insert, IInv, OutcomeInv
  <1>2. OwnStamp(c) /\ Superseding(call[c]) /\ call[c].at \in 0..MaxRows /\ call[c].latest \in 0..MaxRows
    BY <1>1 DEF CallsHold, Calls
  <1>3. PICK s : s = call[c].at
    OBVIOUS
  <1>4. s \in Stamp /\ ~Live(s) /\ call[c].latest < s
    BY <1>2, <1>3, BoundsAssumption DEF OwnStamp, Stamp
  <1>5. CASE /\ Open(call[c]) => \A q \in Stamp : ~Open(rows[q])
             /\ rows' = [rows EXCEPT ![s] = NewRow(call[c])]
    <2>1. PICK o : o = NewRow(call[c])
      OBVIOUS
    <2>2. /\ o.supersedes = call[c].latest /\ call[c].seen.rules \subseteq o.rules /\ o.result = call[c].result
      BY <1>1, <2>1, NewRowType
    <2>3. rows'[s] = o /\ \A q \in Stamp \ {s} : rows'[q] = rows[q]
      BY <1>1, <1>4, <1>5, <2>1 DEF TypeOK
    <2>4. ASSUME o.supersedes # 0, Live(o.supersedes)
          PROVE  ~Open(rows[o.supersedes]) /\ rows[o.supersedes].rules \subseteq o.rules
      BY <1>2, <2>2, <2>4 DEF Superseding, Live
    <2>5. /\ o.supersedes \in 0..s - 1
          /\ \A q \in Stamp : rows[q].supersedes # s
      BY <1>2, <1>3, <1>4, <2>2, BoundsAssumption DEF OwnStamp, Stamp
    <2>6. Ledger!Add(s)
      BY <1>4, <1>5, <2>2, <2>3, <2>4, <2>5 DEF Ledger!Add, Ledger!Live, Ledger!Open, Ledger!Others,
         Ledger!Stamp, Stamp, Live, Open
    <2>7. QED
      BY <1>4, <2>6
  <1>6. QED
    BY <1>3, <1>5 DEF Insert

LEMMA LedgerForget == ASSUME IInv, Prune PROVE \E cutoff \in Stamp : Ledger!Forget(cutoff)
  <1>1. PICK cutoff \in 1..clock : rows' = [s \in Stamp |-> IF s <= cutoff THEN NoRow ELSE rows[s]]
    BY DEF Prune, Pruned
  <1>2. cutoff \in Stamp
    BY BoundsAssumption DEF IInv, TypeOK, Stamp
  <1>3. QED
    BY <1>1, <1>2 DEF Ledger!Forget, Ledger!Stamp, Stamp

LEMMA LedgerStep == IInv /\ [Next]_vars => [Ledger!Next]_rows
  <1> SUFFICES ASSUME IInv, [Next]_vars PROVE UNCHANGED rows \/ Ledger!Next
    OBVIOUS
  <1>1. ASSUME NEW c \in Caller, RecordOutcome(c) \/ FinishWork(c) \/ SeedDraft(c) PROVE UNCHANGED rows
    BY <1>1 DEF RecordOutcome, FinishWork, SeedDraft, Start
  <1>2. ASSUME NEW c \in Caller, Step(c) PROVE UNCHANGED rows \/ Ledger!Next
    <2>1. CASE Resolve(c) \/ BeginInsert(c) \/ HandOver(c)
      BY <2>1 DEF Resolve, BeginInsert, HandOver
    <2>2. CASE FinalizeDraft(c)
      BY <2>2, LedgerGrow DEF Ledger!Next, Stamp, Ledger!Stamp
    <2>3. CASE Insert(c)
      BY <2>3, LedgerAdd DEF Ledger!Next, Stamp, Ledger!Stamp
    <2>4. QED
      BY <1>2, <2>1, <2>2, <2>3 DEF Step
  <1>3. CASE Prune
    BY <1>3, LedgerForget DEF Ledger!Next, Stamp, Ledger!Stamp
  <1>4. CASE UNCHANGED vars
    BY <1>4 DEF vars
  <1>5. QED
    BY <1>1, <1>2, <1>3, <1>4 DEF Next

(* What the calls do to the rows is what the ledger promises.                *)
THEOREM ImplementsLedger == Spec => LedgerKept
  <1>1. QED
    BY Invariant, LedgerInit, LedgerStep, PTL DEF Spec, LedgerKept, Ledger!Spec

(* A closed row is never rewritten (FinalizeDraft's WHERE result = 'unknown'). *)
THEOREM ClosedKept == Spec => ClosedRowsKept
  <1>1. ASSUME IInv, Ledger!Next, NEW s \in Stamp, Live(s), ~Open(rows[s]) PROVE rows'[s] \in {rows[s], NoRow}
    <2>1. ASSUME NEW q \in Stamp, Ledger!Add(q) \/ Ledger!Grow(q) PROVE rows'[s] = rows[s]
      BY <1>1, <2>1 DEF Ledger!Add, Ledger!Grow, Ledger!Live, Ledger!Open, Ledger!Others, Ledger!Stamp, Stamp,
         Live, Open
    <2>2. ASSUME NEW cutoff \in Stamp, Ledger!Forget(cutoff) PROVE rows'[s] \in {rows[s], NoRow}
      BY <1>1, <2>2 DEF Ledger!Forget, Ledger!Stamp, Stamp
    <2>3. QED
      BY <1>1, <2>1, <2>2 DEF Ledger!Next, Ledger!Stamp, Stamp
  <1>2. IInv /\ [Next]_vars =>
          [\A s \in Stamp : Live(s) /\ ~Open(rows[s]) => rows'[s] \in {rows[s], NoRow}]_vars
    BY <1>1, LedgerStep DEF vars
  <1>3. QED
    BY Invariant, <1>2, PTL DEF Spec, ClosedRowsKept

(* A draft loses neither notes nor rules (FinalizeDraft's SET clause).       *)
THEOREM DraftGrows == Spec => DraftOnlyGrows
  <1>1. ASSUME IInv, UNCHANGED rows \/ Ledger!Next, NEW s \in Stamp, Open(rows[s]), rows'[s] # NoRow
        PROVE  /\ Len(rows[s].notes) <= Len(rows'[s].notes)
               /\ \A i \in 1..Len(rows[s].notes) : rows'[s].notes[i] = rows[s].notes[i]
               /\ rows[s].rules \subseteq rows'[s].rules
    <2>1. Len(rows[s].notes) \in Nat /\ Live(s)
      BY <1>1, TerminalAssumption DEF IInv, TypeOK, Rows, Notes, NoRow, Live, Open
    <2>2. CASE rows'[s] = rows[s]
      BY <2>1, <2>2
    <2>3. CASE Ledger!Grow(s)
      BY <2>3 DEF Ledger!Grow
    <2>4. ASSUME NEW q \in Stamp, Ledger!Add(q) \/ Ledger!Grow(q) PROVE (q = s /\ Ledger!Grow(s)) \/ rows'[s] = rows[s]
      BY <2>1, <2>4 DEF Ledger!Add, Ledger!Grow, Ledger!Live, Ledger!Others, Ledger!Stamp, Stamp, Live
    <2>5. ASSUME NEW cutoff \in Stamp, Ledger!Forget(cutoff) PROVE rows'[s] = rows[s]
      BY <1>1, <2>5 DEF Ledger!Forget, Ledger!Stamp, Stamp
    <2>6. QED
      BY <1>1, <2>2, <2>3, <2>4, <2>5 DEF Ledger!Next, Ledger!Stamp, Stamp
  <1>2. IInv /\ [Next]_vars =>
          [\A s \in Stamp : Open(rows[s]) /\ rows'[s] # NoRow =>
             /\ Len(rows[s].notes) <= Len(rows'[s].notes)
             /\ \A i \in 1..Len(rows[s].notes) : rows'[s].notes[i] = rows[s].notes[i]
             /\ rows[s].rules \subseteq rows'[s].rules]_vars
    BY <1>1, LedgerStep
  <1>3. QED
    BY Invariant, <1>2, PTL DEF Spec, DraftOnlyGrows

(* A superseded row is not counted again (GetAutoBehaviorRuleEffectiveness). *)
THEOREM SupersededStays == Spec => SupersededForGood
  <1>1. ASSUME IInv, Ledger!Next, NEW s \in Stamp, Live(s), NEW t \in Stamp, rows[t].supersedes = s
        PROVE  rows'[s] = NoRow \/ Superseded(s)'
    <2>1. Live(t) /\ s < t /\ t \in Nat /\ s \in Nat
      BY <1>1, StampType DEF IInv, OutcomeInv, Inherits, Live, NoRow
    <2>2. ASSUME NEW q \in Stamp, Ledger!Add(q) \/ Ledger!Grow(q) PROVE rows'[t].supersedes = s
      BY <1>1, <2>1, <2>2 DEF Ledger!Add, Ledger!Grow, Ledger!Live, Ledger!Others, Ledger!Stamp, Stamp, Live
    <2>3. ASSUME NEW cutoff \in Stamp, Ledger!Forget(cutoff) PROVE rows'[s] = NoRow \/ rows'[t].supersedes = s
      <3>1. cutoff \in Nat
        BY StampType
      <3>2. QED
        BY <1>1, <2>1, <2>3, <3>1 DEF Ledger!Forget, Ledger!Stamp, Stamp
    <2>4. QED
      BY <1>1, <2>2, <2>3 DEF Ledger!Next, Ledger!Stamp, Stamp, Superseded
  <1>2. IInv /\ [Next]_vars =>
          [\A s \in Stamp : Live(s) /\ Superseded(s) => rows'[s] = NoRow \/ Superseded(s)']_vars
    BY <1>1, LedgerStep DEF Superseded, vars
  <1>3. QED
    BY Invariant, <1>2, PTL DEF Spec, SupersededForGood

------------------------------------------------------------------------------
(* What every behaviour of the ledger has *)

LEMMA SupersedeStep ==
  ASSUME Ledger!OneOpen, Ledger!LaterSupersede, Ledger!Next
  PROVE  Ledger!OneOpen' /\ Ledger!LaterSupersede'
  <1>1. ~Ledger!Open(NoRow)
    BY DEF Ledger!Open, NoRow
  <1>2. ASSUME NEW s \in Ledger!Stamp, Ledger!Add(s)
        PROVE  Ledger!OneOpen' /\ Ledger!LaterSupersede'
    <2>1. \A q \in Ledger!Stamp \ {s} : rows'[q] = rows[q]
      BY <1>2 DEF Ledger!Add, Ledger!Others
    <2>2. Ledger!OneOpen'
      BY <1>2, <2>1 DEF Ledger!Add, Ledger!OneOpen, Ledger!Open
    <2>3. ASSUME NEW q \in Ledger!Stamp, Ledger!Live(q)'
          PROVE  /\ rows'[q].supersedes \in 0..q - 1
                 /\ rows'[q].supersedes # 0 /\ Ledger!Live(rows[q].supersedes)' =>
                      /\ ~Ledger!Open(rows[rows[q].supersedes])'
                      /\ rows'[rows'[q].supersedes].rules \subseteq rows'[q].rules
      <3>1. CASE q = s
        <4>1. rows'[q].supersedes \in 0..q - 1
          BY <1>2, <3>1 DEF Ledger!Add
        <4>2. rows'[q].supersedes # 0 => rows'[q].supersedes \in Ledger!Stamp \ {s}
          BY <3>1, <4>1, BoundsAssumption DEF Ledger!Stamp
        <4>3. QED
          BY <1>2, <2>1, <3>1, <4>1, <4>2 DEF Ledger!Add, Ledger!Live, Ledger!Open
      <3>2. CASE q # s
        <4>1. rows'[q] = rows[q] /\ Ledger!Live(q)
          BY <2>1, <2>3, <3>2 DEF Ledger!Live
        <4>2. rows[q].supersedes \in 0..q - 1 /\ rows[q].supersedes # s
          BY <1>2, <4>1 DEF Ledger!LaterSupersede, Ledger!Add
        <4>3. rows[q].supersedes # 0 => rows'[rows[q].supersedes] = rows[rows[q].supersedes]
          BY <2>1, <4>2, BoundsAssumption DEF Ledger!Stamp
        <4>4. QED
          BY <4>1, <4>2, <4>3 DEF Ledger!LaterSupersede, Ledger!Live, Ledger!Open
      <3>3. QED
        BY <3>1, <3>2
    <2>4. QED
      BY <2>2, <2>3 DEF Ledger!LaterSupersede
  <1>3. ASSUME NEW s \in Ledger!Stamp, Ledger!Grow(s)
        PROVE  Ledger!OneOpen' /\ Ledger!LaterSupersede'
    <2>1. \A q \in Ledger!Stamp \ {s} : rows'[q] = rows[q]
      BY <1>3 DEF Ledger!Grow, Ledger!Others
    <2>2. Ledger!OneOpen'
      BY <1>3, <2>1 DEF Ledger!Grow, Ledger!OneOpen, Ledger!Open
    <2>3. ASSUME NEW q \in Ledger!Stamp, Ledger!Live(q)'
          PROVE  /\ rows'[q].supersedes \in 0..q - 1
                 /\ rows'[q].supersedes # 0 /\ Ledger!Live(rows[q].supersedes)' =>
                      /\ ~Ledger!Open(rows[rows[q].supersedes])'
                      /\ rows'[rows'[q].supersedes].rules \subseteq rows'[q].rules
      <3>1. /\ Ledger!Live(q) /\ rows'[q].supersedes = rows[q].supersedes
            /\ rows[q].rules \subseteq rows'[q].rules
        BY <1>3, <2>1, <2>3 DEF Ledger!Grow, Ledger!Live
      <3>2. rows[q].supersedes \in 0..q - 1
        BY <3>1 DEF Ledger!LaterSupersede
      <3>3. rows[q].supersedes # s \/ rows[q].supersedes = 0
        BY <1>3, <3>1 DEF Ledger!LaterSupersede, Ledger!Grow
      <3>4. rows[q].supersedes # 0 => rows'[rows[q].supersedes] = rows[rows[q].supersedes]
        BY <2>1, <3>2, <3>3, BoundsAssumption DEF Ledger!Stamp
      <3>5. QED
        BY <3>1, <3>2, <3>4 DEF Ledger!LaterSupersede, Ledger!Live, Ledger!Open
    <2>4. QED
      BY <2>2, <2>3 DEF Ledger!LaterSupersede
  <1>4. ASSUME NEW cutoff \in Ledger!Stamp, Ledger!Forget(cutoff)
        PROVE  Ledger!OneOpen' /\ Ledger!LaterSupersede'
    <2>1. \A q \in Ledger!Stamp : rows'[q] \in {rows[q], NoRow}
      BY <1>4 DEF Ledger!Forget
    <2>2. Ledger!OneOpen'
      BY <1>1, <2>1 DEF Ledger!OneOpen, Ledger!Open
    <2>3. ASSUME NEW q \in Ledger!Stamp, Ledger!Live(q)'
          PROVE  /\ rows'[q].supersedes \in 0..q - 1
                 /\ rows'[q].supersedes # 0 /\ Ledger!Live(rows[q].supersedes)' =>
                      /\ ~Ledger!Open(rows[rows[q].supersedes])'
                      /\ rows'[rows'[q].supersedes].rules \subseteq rows'[q].rules
      <3>1. rows'[q] = rows[q] /\ Ledger!Live(q)
        BY <2>1, <2>3 DEF Ledger!Live
      <3>2. rows[q].supersedes \in 0..q - 1
        BY <3>1 DEF Ledger!LaterSupersede
      <3>3. rows[q].supersedes # 0 => rows[q].supersedes \in Ledger!Stamp
        BY <3>2, BoundsAssumption DEF Ledger!Stamp
      <3>4. QED
        BY <2>1, <3>1, <3>2, <3>3 DEF Ledger!LaterSupersede, Ledger!Live, Ledger!Open
    <2>4. QED
      BY <2>2, <2>3 DEF Ledger!LaterSupersede
  <1>5. QED
    BY <1>2, <1>3, <1>4 DEF Ledger!Next

(* Whatever keeps the ledger has one open outcome at most, and an outcome is *)
(* superseded by a later one only, closed, its rules handed on: the promise  *)
(* is enough, whichever statements keep it.                                  *)
THEOREM LedgerIsConsistent == LedgerKept => [](Ledger!OneOpen /\ Ledger!LaterSupersede)
  <1>1. Ledger!Init => Ledger!OneOpen /\ Ledger!LaterSupersede
    BY DEF Ledger!Init, Ledger!OneOpen, Ledger!LaterSupersede, Ledger!Open, Ledger!Live, NoRow
  <1>2. Ledger!OneOpen /\ Ledger!LaterSupersede /\ [Ledger!Next]_rows =>
          Ledger!OneOpen' /\ Ledger!LaterSupersede'
    <2>1. CASE UNCHANGED rows
      BY <2>1 DEF Ledger!OneOpen, Ledger!LaterSupersede, Ledger!Open, Ledger!Live
    <2>2. QED
      BY <2>1, SupersedeStep
  <1>3. QED
    BY <1>1, <1>2, PTL DEF LedgerKept, Ledger!Spec

=============================================================================
