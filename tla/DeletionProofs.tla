---------------------------- MODULE DeletionProofs ----------------------------
(***************************************************************************)
(* Proofs about Deletion, for every set of callers, projects and tasks,    *)
(* any number of calls and any bound on retries and pending tokens.        *)
(***************************************************************************)
EXTENDS Deletion, TLAPS

(* What may change around a call that does not move without disturbing it. *)
Kept(r) ==
  /\ spent \subseteq spent'
  /\ horizon <= horizon'
  /\ horizon \in Nat /\ horizon' \in Nat
  /\ \A t \in r.locked : home'[t] = home[t]
  /\ r.pc = "found" => r.group \in tombs'

LEMMA CallKept ==
  ASSUME NEW r \in Calls, CallInv(r), Kept(r)
  PROVE  CallInv(r)'
  <1>1. r.cutoff \in Nat
    BY DEF Calls
  <1>2. r.cutoff <= horizon'
    BY <1>1 DEF CallInv, Kept
  <1>3. InDelete(r) => r.rec.token \in spent'
    BY DEF CallInv, Kept
  <1>4. \A t \in r.locked : IF r.key \in Project THEN home'[t] = r.key
                                                 ELSE t = r.key /\ home'[t] \in Places
    BY DEF CallInv, Kept, Live
  <1>5. r.pc = "found" => r.group \in tombs'
    BY DEF Kept
  <1>6. QED
    BY <1>2, <1>3, <1>4, <1>5 DEF CallInv, InDelete, InTx, Confirmed, Live

(* The invariant after a step of one caller. *)
LEMMA Preserve ==
  ASSUME StateInv, NEW c \in Caller, NEW r \in Calls, CallInv(r)',
         call' = [call EXCEPT ![c] = r],
         \A d \in Caller \ {c} : Kept(call[d]) /\ PairInv(call[d], r) /\ PairInv(r, call[d]),
         TypeOK', OneTombstonePerTask', TokenInv'
  PROVE  StateInv'
  <1>1. call \in [Caller -> Calls]
    BY DEF StateInv, TypeOK
  <1>2. ASSUME NEW d \in Caller PROVE CallInv(call[d])'
    <2>1. CASE d = c
      BY <2>1, <1>1
    <2>2. CASE d # c
      <3>1. CallInv(call[d]) /\ call[d] \in Calls /\ Kept(call[d]) /\ call'[d] = call[d]
        BY <2>2, <1>1 DEF StateInv
      <3>2. ASSUME NEW s \in Calls, s = call[d] PROVE CallInv(s)'
        BY <3>1, <3>2, CallKept
      <3>3. QED
        BY <3>1, <3>2 DEF CallInv
    <2>3. QED
      BY <2>1, <2>2
  <1>3. ASSUME NEW d \in Caller, NEW e \in Caller, d # e PROVE PairInv(call'[d], call'[e])
    <2>1. CASE d = c
      <3>1. call'[d] = r /\ call'[e] = call[e]
        BY <2>1, <1>1, <1>3
      <3>2. PairInv(r, call[e])
        BY <2>1, <1>3
      <3>3. QED
        BY <3>1, <3>2
    <2>2. CASE e = c
      <3>1. call'[e] = r /\ call'[d] = call[d]
        BY <2>2, <1>1, <1>3
      <3>2. PairInv(call[d], r)
        BY <2>2, <1>3
      <3>3. QED
        BY <3>1, <3>2
    <2>3. CASE d # c /\ e # c
      <3>1. call'[e] = call[e] /\ call'[d] = call[d] /\ PairInv(call[d], call[e])
        BY <2>3, <1>1, <1>3 DEF StateInv
      <3>2. QED
        BY <3>1
    <2>4. QED
      BY <2>1, <2>2, <2>3
  <1>4. (\A d, e \in Caller : d # e => PairInv(call[d], call[e]))'
    BY <1>3 DEF PairInv
  <1>5. QED
    BY <1>2, <1>4 DEF StateInv

------------------------------------------------------------------------------
(* Calls that give up what they hold, or keep it *)

(* r holds nothing that s does not hold. *)
Lighter(r, s) ==
  /\ r.locked \subseteq s.locked
  /\ r.pc # "found"
  /\ r.pc \in {"rows", "row", "commit"} =>
       s.pc \in {"rows", "row", "commit"} /\ r.cutoff = s.cutoff

LEMMA LighterPair ==
  ASSUME NEW r, NEW s, NEW x, Lighter(r, s), PairInv(s, x), PairInv(x, s)
  PROVE  PairInv(r, x) /\ PairInv(x, r)
  BY DEF Lighter, PairInv

LEMMA QuietInv ==
  ASSUME StateInv, NEW c \in Caller, NEW r \in Calls, CallInv(r)', Lighter(r, call[c]),
         call' = [call EXCEPT ![c] = r], UNCHANGED <<rowVars, horizon>>,
         now' \in Nat, calls' \in Nat, pending' \in [Key -> Records], issued' \in Nat,
         expired' \subseteq Key, spent' \subseteq Nat, spent \subseteq spent', TokenInv'
  PROVE  StateInv'
  <1>1. TypeOK /\ UNCHANGED <<projects, home, tombs, horizon>>
    BY DEF StateInv, rowVars
  <1>2. TypeOK'
    BY <1>1 DEF TypeOK
  <1>3. OneTombstonePerTask'
    BY <1>1 DEF StateInv, OneTombstonePerTask
  <1>4. ASSUME NEW d \in Caller \ {c}
        PROVE  Kept(call[d]) /\ PairInv(call[d], r) /\ PairInv(r, call[d])
    <2>1. PairInv(call[d], call[c]) /\ PairInv(call[c], call[d]) /\ CallInv(call[d])
      BY DEF StateInv
    <2>2. horizon <= horizon' /\ horizon' \in Nat
      BY <1>1 DEF TypeOK
    <2>3. call[d].pc = "found" => call[d].group \in tombs'
      BY <1>1, <2>1 DEF CallInv
    <2>4. Kept(call[d])
      BY <1>1, <2>2, <2>3 DEF Kept, TypeOK
    <2>5. QED
      BY <2>1, <2>4, LighterPair
  <1>5. QED
    BY <1>2, <1>3, <1>4, Preserve

LEMMA SameState ==
  ASSUME StateInv, NoWrite
  PROVE  /\ UNCHANGED <<rowVars, horizon>>
         /\ now' \in Nat /\ calls' \in Nat /\ pending' \in [Key -> Records] /\ issued' \in Nat
         /\ expired' \subseteq Key /\ spent' \subseteq Nat /\ spent \subseteq spent' /\ TokenInv'
  <1>1. /\ UNCHANGED <<rowVars, horizon>>
        /\ now' = now /\ calls' = calls /\ pending' = pending /\ issued' = issued
        /\ expired' = expired /\ spent' = spent
    BY DEF NoWrite, tokenVars, timeVars, rowVars
  <1>2. TokenInv'
    BY <1>1 DEF StateInv, TokenInv, Stored
  <1>3. QED
    BY <1>1, <1>2 DEF StateInv, TypeOK

LEMMA NoWriteInv ==
  ASSUME StateInv, NEW c \in Caller, NEW r \in Calls, CallInv(r), Lighter(r, call[c]),
         call' = [call EXCEPT ![c] = r], NoWrite
  PROVE  StateInv'
  <1>1. CallInv(r)'
    BY DEF NoWrite, tokenVars, timeVars, rowVars, CallInv, InDelete, InTx, Confirmed, Live
  <1>2. QED
    BY <1>1, SameState, QuietInv

LEMMA IdleCall ==
  ASSUME StateInv
  PROVE  Idle \in Calls /\ CallInv(Idle)
  <1>1. NoRecord \in Records /\ NoGroup \in Groups /\ "idle" \in PCs
    BY DEF NoRecord, NoGroup, Records, Groups, PCs
  <1>2. Idle \in Calls
    BY <1>1 DEF Idle, Calls
  <1>3. CallInv(Idle)
    BY DEF Idle, CallInv, InDelete, InTx, StateInv, TypeOK
  <1>4. QED
    BY <1>2, <1>3

LEMMA IdleLighter == ASSUME NEW s PROVE Lighter(Idle, s)
  BY DEF Idle, Lighter

LEMMA ReturnInv ==
  ASSUME StateInv, NEW c \in Caller, Return(c), NoWrite
  PROVE  StateInv'
  BY IdleCall, IdleLighter, NoWriteInv DEF Return

(* A call as it starts. *)
LEMMA StartInv ==
  ASSUME StateInv, NEW c \in Caller, NEW pc \in {"read", "load", "find"}, NEW k \in Key,
         pc = "find" => k \in Project, Start(c, [Idle EXCEPT !.pc = pc, !.key = k])
  PROVE  StateInv'
  <1> DEFINE r == [Idle EXCEPT !.pc = pc, !.key = k]
  <1>1. r \in Calls
    BY IdleCall DEF Calls, PCs
  <1>2. /\ r.pc = pc /\ r.key = k /\ r.locked = {} /\ r.cutoff = 0
    BY DEF Idle
  <1>3. call' = [call EXCEPT ![c] = r] /\ UNCHANGED <<rowVars, tokenVars, timeVars>> /\ calls' \in Nat
    BY DEF Start, StateInv, TypeOK
  <1> HIDE DEF r
  <1>4. CallInv(r)' /\ Lighter(r, call[c])
    BY <1>2, <1>3 DEF CallInv, Lighter, InDelete, InTx, StateInv, TypeOK, timeVars
  <1>5. TokenInv'
    BY <1>3 DEF StateInv, TokenInv, Stored, tokenVars
  <1>6. QED
    BY <1>1, <1>3, <1>4, <1>5, QuietInv DEF StateInv, TypeOK, tokenVars, timeVars

LEMMA BeginsInv ==
  ASSUME StateInv, NEW c \in Caller, Begins(c)
  PROVE  StateInv'
  BY StartInv DEF Begins, CallPreview, CallConfirm, CallRestore, Key

------------------------------------------------------------------------------
(* The steps that only move a call *)

LEMMA Running ==
  ASSUME StateInv, NEW c \in Caller
  PROVE  call[c] \in Calls /\ CallInv(call[c]) /\ call \in [Caller -> Calls]
  BY DEF StateInv, TypeOK

(* A program counter outside a transaction's second half asks nothing new. *)
LEMMA GotoInv ==
  ASSUME StateInv, NEW c \in Caller, NEW pc \in PCs, Goto(c, pc), NoWrite,
         call[c].pc \in {"read", "issue", "precheck"}, pc \in {"list", "issue", "store", "scan"},
         pc = "list" => call[c].pc = "read", pc = "scan" => call[c].pc = "precheck",
         pc = "issue" => call[c].pc = "read", pc = "store" => call[c].pc = "issue",
         pc \in {"list", "scan"} => call[c].key \in Project
  PROVE  StateInv'
  <1> DEFINE r == [call[c] EXCEPT !.pc = pc]
  <1>1. call' = [call EXCEPT ![c] = r]
    BY Running DEF Goto
  <1>2. r \in Calls
    BY Running DEF Calls
  <1>3. /\ r.pc = pc /\ r.key = call[c].key /\ r.locked = call[c].locked /\ r.rec = call[c].rec
        /\ r.cutoff = call[c].cutoff
    BY Running DEF Calls
  <1> HIDE DEF r
  <1>4. CallInv(r) /\ Lighter(r, call[c])
    BY <1>3, Running DEF CallInv, Lighter, InDelete, InTx, Confirmed
  <1>5. QED
    BY <1>1, <1>2, <1>4, NoWriteInv

LEMMA PreviewReadInv ==
  ASSUME StateInv, NEW c \in Caller, PreviewRead(c)
  PROVE  StateInv'
  <1>1. "list" \in PCs /\ "issue" \in PCs /\ projects \subseteq Project
    BY DEF PCs, StateInv, TypeOK
  <1>2. QED
    BY <1>1, GotoInv, ReturnInv DEF PreviewRead

LEMMA UnderTasks == ASSUME NEW p PROVE Under(p) \subseteq Task
  BY DEF Under

LEMMA PreviewListInv ==
  ASSUME StateInv, NEW c \in Caller, PreviewList(c)
  PROVE  StateInv'
  <1> DEFINE r == [call[c] EXCEPT !.pc = "issue", !.seen = Under(call[c].key)]
  <1>1. call' = [call EXCEPT ![c] = r] /\ NoWrite /\ call[c].pc = "list"
    BY Running DEF PreviewList
  <1>2. r \in Calls
    BY Running, UnderTasks, ZenonT(40) DEF Calls, PCs
  <1>3. /\ r.pc = "issue" /\ r.key = call[c].key /\ r.locked = call[c].locked
        /\ r.cutoff = call[c].cutoff
    BY Running DEF Calls
  <1> HIDE DEF r
  <1>4. CallInv(r) /\ Lighter(r, call[c])
    BY <1>1, <1>3, Running DEF CallInv, Lighter, InDelete, InTx, Confirmed
  <1>5. QED
    BY <1>1, <1>2, <1>4, NoWriteInv

LEMMA SweepCall ==
  ASSUME StateInv, NEW c \in Caller, NEW k \in Key \cup {None}, call[c].pc = "issue"
  PROVE  /\ [call[c] EXCEPT !.sweep = k] \in Calls
         /\ CallInv([call[c] EXCEPT !.sweep = k])
         /\ Lighter([call[c] EXCEPT !.sweep = k], call[c])
  <1> DEFINE r == [call[c] EXCEPT !.sweep = k]
  <1>1. r \in Calls
    BY Running DEF Calls
  <1>2. /\ r.pc = "issue" /\ r.key = call[c].key /\ r.locked = call[c].locked
        /\ r.cutoff = call[c].cutoff
    BY Running DEF Calls
  <1> HIDE DEF r
  <1>3. CallInv(r) /\ Lighter(r, call[c])
    BY <1>2, Running DEF CallInv, Lighter, InDelete, InTx, Confirmed
  <1>4. QED
    BY <1>1, <1>3 DEF r

LEMMA IssueSweepInv ==
  ASSUME StateInv, NEW c \in Caller, IssueSweep(c)
  PROVE  StateInv'
  <1>1. PICK k \in expired : call' = [call EXCEPT ![c].sweep = k]
    BY DEF IssueSweep
  <1>2. k \in Key
    BY DEF StateInv, TypeOK
  <1>3. call' = [call EXCEPT ![c] = [call[c] EXCEPT !.sweep = k]]
    BY <1>1, Running
  <1>4. QED
    BY <1>2, <1>3, SweepCall, NoWriteInv DEF IssueSweep

(* A step that changes the tokens only. *)
LEMMA TokenStep ==
  ASSUME StateInv, NEW c \in Caller, NEW r \in Calls, CallInv(r)', Lighter(r, call[c]),
         call' = [call EXCEPT ![c] = r], UNCHANGED <<rowVars, timeVars, calls>>,
         pending' \in [Key -> Records], issued' \in Nat, expired' \subseteq Key,
         spent' \subseteq Nat, spent \subseteq spent', TokenInv'
  PROVE  StateInv'
  <1>1. UNCHANGED <<rowVars, horizon>> /\ now' \in Nat /\ calls' \in Nat
    BY DEF timeVars, StateInv, TypeOK
  <1>2. QED
    BY <1>1, QuietInv

(* A key whose record is taken out. *)
LEMMA Removed ==
  ASSUME StateInv, NEW k \in Key, Put(k, NoRecord), issued' = issued,
         spent' = spent \/ spent' = spent \cup {pending[k].token}, pending[k].token \in Nat,
         spent' # spent => Stored(k)
  PROVE  /\ pending' \in [Key -> Records] /\ expired' \subseteq Key /\ issued' \in Nat
         /\ spent' \subseteq Nat /\ spent \subseteq spent' /\ TokenInv'
  <1>1. NoRecord \in Records /\ NoRecord.token = 0
    BY DEF NoRecord, Records
  <1>2. /\ pending \in [Key -> Records] /\ expired \subseteq Key /\ issued \in Nat
        /\ spent \subseteq Nat /\ TokenInv
    BY DEF StateInv, TypeOK
  <1>3. pending' = [pending EXCEPT ![k] = NoRecord] /\ expired' = expired \ {k}
    BY DEF Put
  <1>4. pending' \in [Key -> Records] /\ spent' \subseteq Nat /\ spent \subseteq spent'
    BY <1>1, <1>2, <1>3
  <1>5. ASSUME NEW j \in Key, Stored(j)' PROVE j # k /\ Stored(j) /\ pending'[j] = pending[j]
    BY <1>1, <1>2, <1>3, <1>5 DEF Stored
  <1>6. TokenInv'
    <2>1. \A n \in spent' : n <= issued'
      <3>1. \A n \in spent : n <= issued
        BY <1>2 DEF TokenInv
      <3>2. CASE spent' = spent
        BY <3>1, <3>2
      <3>3. CASE spent' # spent
        <4>1. Stored(k) /\ spent' = spent \cup {pending[k].token}
          BY <3>3
        <4>2. pending[k].token <= issued
          BY <1>2, <4>1 DEF TokenInv
        <4>3. QED
          BY <3>1, <4>1, <4>2
      <3>4. QED
        BY <3>2, <3>3
    <2>2. ASSUME NEW j \in Key, Stored(j)'
          PROVE  pending'[j].token \in 1..issued' /\ pending'[j].token \notin spent'
      <3>1. pending[j].token # pending[k].token
        BY <1>2, <1>5, <2>2 DEF TokenInv
      <3>2. QED
        BY <1>2, <1>5, <2>2, <3>1 DEF TokenInv
    <2>3. ASSUME NEW j \in Key, NEW l \in Key, j # l, Stored(j)'
          PROVE  pending'[j].token # pending'[l].token
      <3>1. pending'[j] = pending[j] /\ Stored(j)
        BY <1>5, <2>3
      <3>2. CASE l = k
        <4>1. pending'[l].token = 0 /\ pending[j].token \in 1..issued
          BY <1>1, <1>2, <1>3, <2>3, <3>1, <3>2 DEF TokenInv
        <4>2. QED
          BY <1>2, <3>1, <4>1
      <3>3. CASE l # k
        BY <1>2, <1>3, <2>3, <3>1, <3>3 DEF TokenInv
      <3>4. QED
        BY <3>2, <3>3
    <2>4. QED
      BY <2>1, <2>2, <2>3 DEF TokenInv
  <1>7. QED
    BY <1>2, <1>3, <1>4, <1>6

LEMMA IssueSweepDeleteInv ==
  ASSUME StateInv, NEW c \in Caller, IssueSweepDelete(c)
  PROVE  StateInv'
  <1>r. PICK r : r = [call[c] EXCEPT !.sweep = None]
    OBVIOUS
  <1>1. call' = [call EXCEPT ![c] = r]
    BY <1>r, Running DEF IssueSweepDelete
  <1>2. r \in Calls /\ CallInv(r) /\ Lighter(r, call[c])
    BY <1>r, SweepCall DEF IssueSweepDelete
  <1>3. call[c].sweep \in Key
    BY Running DEF IssueSweepDelete, Calls
  <1>4. /\ pending' \in [Key -> Records] /\ expired' \subseteq Key /\ issued' \in Nat
        /\ spent' \subseteq Nat /\ spent \subseteq spent' /\ TokenInv'
    <2>1. Put(call[c].sweep, NoRecord) /\ issued' = issued /\ spent' = spent
      BY DEF IssueSweepDelete
    <2>2. pending[call[c].sweep].token \in Nat
      BY <1>3 DEF StateInv, TypeOK, Records
    <2>3. QED
      BY <1>3, <2>1, <2>2, Removed
  <1>5. UNCHANGED <<rowVars, timeVars, calls>> /\ spent' = spent
    BY DEF IssueSweepDelete
  <1>6. CallInv(r)'
    BY <1>2, <1>5 DEF CallInv, rowVars, timeVars, InDelete, InTx, Confirmed, Live
  <1>7. QED
    BY <1>1, <1>2, <1>4, <1>5, <1>6, TokenStep

(* A return that leaves the rows alone. *)
LEMMA ReturnTokens ==
  ASSUME StateInv, NEW c \in Caller, Return(c), UNCHANGED <<rowVars, timeVars, calls>>,
         pending' \in [Key -> Records], issued' \in Nat, expired' \subseteq Key,
         spent' \subseteq Nat, spent \subseteq spent', TokenInv'
  PROVE  StateInv'
  <1>1. Idle \in Calls /\ CallInv(Idle)' /\ Lighter(Idle, call[c])
    BY IdleCall, IdleLighter DEF Idle, CallInv, InDelete, InTx, timeVars, StateInv, TypeOK
  <1>2. QED
    BY <1>1, TokenStep DEF Return

LEMMA IssueCountInv ==
  ASSUME StateInv, NEW c \in Caller, IssueCount(c)
  PROVE  StateInv'
  <1>1. "store" \in PCs
    BY DEF PCs
  <1>2. QED
    BY <1>1, GotoInv, ReturnInv DEF IssueCount

LEMMA IssueStoreInv ==
  ASSUME StateInv, NEW c \in Caller, IssueStore(c)
  PROVE  StateInv'
  <1> DEFINE k == call[c].key
             rec == [token |-> issued + 1, expected |-> call[c].seen]
  <1>1. Return(c) /\ UNCHANGED <<rowVars, timeVars, calls>> /\ spent' = spent
    BY DEF IssueStore
  <1>2. /\ pending \in [Key -> Records] /\ expired \subseteq Key /\ issued \in Nat
        /\ spent \subseteq Nat /\ TokenInv
    BY DEF StateInv, TypeOK
  <1>3. issued' = issued + 1 /\ Put(k, rec)
    BY DEF IssueStore
  <1>4. k \in Key /\ rec \in Records
    <2>1. k \in Key
      BY Running DEF IssueStore, CallInv
    <2>2. issued + 1 \in Nat /\ call[c].seen \in SUBSET Task
      BY <1>2, Running DEF Calls
    <2>3. QED
      BY <2>1, <2>2 DEF Records
  <1>5. rec.token = issued + 1
    OBVIOUS
  <1> HIDE DEF k, rec
  <1>6. pending' = [pending EXCEPT ![k] = rec] /\ expired' \subseteq Key
    BY <1>2, <1>3 DEF Put
  <1>7. pending' \in [Key -> Records] /\ issued' \in Nat
    BY <1>2, <1>3, <1>4, <1>6
  <1>8. \A n \in spent' : n <= issued'
    BY <1>1, <1>2, <1>3 DEF TokenInv
  <1>9. ASSUME NEW j \in Key, Stored(j)'
        PROVE  /\ pending'[j].token \in 1..issued' /\ pending'[j].token \notin spent'
               /\ j # k => pending'[j] = pending[j] /\ pending'[j].token \in 1..issued
    <2>1. CASE j = k
      BY <1>1, <1>2, <1>3, <1>5, <1>6, <1>9, <2>1 DEF TokenInv
    <2>2. CASE j # k
      <3>1. pending'[j] = pending[j] /\ pending[j].token \in Nat
        BY <1>2, <1>6, <1>9, <2>2 DEF Records
      <3>2. Stored(j)
        BY <1>9, <3>1 DEF Stored
      <3>3. QED
        BY <1>1, <1>2, <1>3, <1>9, <3>1, <3>2 DEF TokenInv
    <2>3. QED
      BY <2>1, <2>2
  <1>10. ASSUME NEW j \in Key, NEW l \in Key, j # l, Stored(j)'
        PROVE  pending'[j].token # pending'[l].token
    <2>1. CASE j = k
      <3>1. pending'[j].token = issued + 1 /\ pending'[l] = pending[l]
        BY <1>2, <1>5, <1>6, <1>10, <2>1
      <3>2. pending[l].token <= issued \/ pending[l].token = 0
        BY <1>2, <1>10 DEF TokenInv, Stored, NoRecord
      <3>3. pending[l].token \in Nat
        BY <1>2, <1>10 DEF Records
      <3>4. QED
        BY <1>2, <3>1, <3>2, <3>3
    <2>2. CASE j # k
      <3>1. pending'[j] = pending[j] /\ pending[j].token <= issued /\ pending[j].token \in Nat
        BY <1>2, <1>9, <1>10, <2>2 DEF Records
      <3>2. CASE l = k
        BY <1>2, <1>5, <1>6, <1>10, <3>1, <3>2
      <3>3. CASE l # k
        <4>1. pending'[l] = pending[l] /\ Stored(j)
          BY <1>2, <1>6, <1>10, <3>1, <3>3 DEF Stored
        <4>2. QED
          BY <1>2, <1>10, <3>1, <4>1 DEF TokenInv
      <3>4. QED
        BY <3>2, <3>3
    <2>3. QED
      BY <2>1, <2>2
  <1>11. TokenInv'
    BY <1>8, <1>9, <1>10 DEF TokenInv
  <1>12. QED
    BY <1>1, <1>2, <1>6, <1>7, <1>11, ReturnTokens

LEMMA LoadTokenInv ==
  ASSUME StateInv, NEW c \in Caller, LoadToken(c)
  PROVE  StateInv'
  <1> DEFINE k == call[c].key
  <1>1. k \in Key /\ call[c].pc = "load" /\ NoWrite /\ pending[k] \in Records
    BY Running DEF LoadToken, CallInv, StateInv, TypeOK
  <1>2. ASSUME NEW pc \in {"drop", "spend"}, Stored(k),
               call' = [call EXCEPT ![c].pc = pc, ![c].rec = pending[k]]
        PROVE  StateInv'
    <2> DEFINE r == [call[c] EXCEPT !.pc = pc, !.rec = pending[k]]
    <2>1. call' = [call EXCEPT ![c] = r]
      BY <1>2, Running
    <2>2. r \in Calls
      BY <1>1, Running, ZenonT(40) DEF Calls, PCs
    <2>3. /\ r.pc = pc /\ r.key = k /\ r.locked = call[c].locked /\ r.rec = pending[k]
          /\ r.cutoff = call[c].cutoff
      BY Running DEF Calls
    <2>4. pending[k].token > 0
      BY <1>1, <1>2 DEF StateInv, TypeOK, TokenInv
    <2> HIDE DEF r
    <2>5. CallInv(r) /\ Lighter(r, call[c])
      BY <1>1, <2>3, <2>4, Running DEF CallInv, Lighter, InDelete, InTx, Confirmed
    <2>6. QED
      BY <1>1, <2>1, <2>2, <2>5, NoWriteInv
  <1>3. QED
    BY <1>1, <1>2, ReturnInv DEF LoadToken

LEMMA DropTokenInv ==
  ASSUME StateInv, NEW c \in Caller, DropToken(c)
  PROVE  StateInv'
  <1> DEFINE k == call[c].key
  <1>1. /\ k \in Key /\ Return(c) /\ UNCHANGED <<rowVars, timeVars, calls>>
        /\ issued' = issued /\ spent' = spent /\ CompareAndDelete(c)
    BY Running DEF DropToken, CallInv
  <1>2. pending[k].token \in Nat
    BY <1>1 DEF StateInv, TypeOK, Records
  <1>3. CASE Put(k, NoRecord)
    BY <1>1, <1>2, <1>3, Removed, ReturnTokens
  <1>4. CASE UNCHANGED <<pending, expired>>
    <2>1. TokenInv'
      BY <1>1, <1>4 DEF StateInv, TokenInv, Stored
    <2>2. QED
      BY <1>1, <1>4, <2>1, ReturnTokens DEF StateInv, TypeOK
  <1>5. QED
    BY <1>1, <1>3, <1>4 DEF CompareAndDelete

LEMMA SpendTokenInv ==
  ASSUME StateInv, NEW c \in Caller, SpendToken(c)
  PROVE  StateInv'
  <1> DEFINE k == call[c].key
  <1>1. /\ k \in Key /\ call[c].pc = "spend" /\ UNCHANGED <<rowVars, timeVars, calls>>
        /\ issued' = issued /\ CompareAndDelete(c)
    BY Running DEF SpendToken, CallInv
  <1>2. pending[k].token \in Nat /\ call[c].rec.token > 0
    BY <1>1, Running DEF StateInv, TypeOK, Records, CallInv
  <1>3. CASE pending[k] = call[c].rec
    <2>r. PICK r : r = [call[c] EXCEPT !.pc = "begin"]
      OBVIOUS
    <2>1. call' = [call EXCEPT ![c] = r] /\ spent' = spent \cup {pending[k].token}
      BY <1>3, <2>r, Running DEF SpendToken, Goto
    <2>2. r \in Calls
      BY <2>r, Running DEF Calls, PCs
    <2>3. /\ r.pc = "begin" /\ r.key = k /\ r.locked = call[c].locked
          /\ r.cutoff = call[c].cutoff /\ r.rec = pending[k]
      BY <1>3, <2>r, Running DEF Calls
    <2>4. Stored(k)
      BY <1>2, <1>3 DEF Stored, NoRecord
    <2>5. Put(k, NoRecord)
      BY <1>1, <1>3 DEF CompareAndDelete
    <2>6. /\ pending' \in [Key -> Records] /\ expired' \subseteq Key /\ issued' \in Nat
          /\ spent' \subseteq Nat /\ spent \subseteq spent' /\ TokenInv'
      BY <1>1, <1>2, <2>1, <2>4, <2>5, Removed
    <2>7. call[c].locked = {} /\ call[c].cutoff <= horizon /\ horizon' = horizon
      BY <1>1, Running DEF CallInv, InTx, timeVars
    <2>8. CallInv(r)' /\ Lighter(r, call[c])
      BY <1>1, <2>1, <2>3, <2>7 DEF CallInv, Lighter, InDelete, InTx
    <2>9. QED
      BY <1>1, <2>1, <2>2, <2>6, <2>8, TokenStep
  <1>4. CASE pending[k] # call[c].rec
    <2>1. /\ Return(c) /\ spent' = spent /\ UNCHANGED <<pending, expired>>
      BY <1>1, <1>4 DEF SpendToken, CompareAndDelete
    <2>2. TokenInv'
      BY <1>1, <2>1 DEF StateInv, TokenInv, Stored
    <2>3. QED
      BY <1>1, <2>1, <2>2, ReturnTokens DEF StateInv, TypeOK
  <1>5. QED
    BY <1>3, <1>4

------------------------------------------------------------------------------
(* The transactions, up to their commit *)

LEMMA BeginTxInv ==
  ASSUME StateInv, NEW c \in Caller, BeginTx(c)
  PROVE  StateInv'
  <1>r. PICK r : r = [call[c] EXCEPT !.pc = "precheck", !.at = now + 1, !.cutoff = horizon]
    OBVIOUS
  <1>1. /\ call[c].pc = "begin" /\ call' = [call EXCEPT ![c] = r] /\ now' = now + 1
        /\ UNCHANGED <<rowVars, horizon>> /\ calls' = calls
        /\ UNCHANGED <<pending, issued, expired, spent>>
    BY <1>r, Running DEF BeginTx, tokenVars
  <1>2. TypeOK /\ now \in Nat /\ horizon \in Nat /\ now + 1 \in Nat
    BY DEF StateInv, TypeOK
  <1>3. r \in Calls
    BY <1>r, <1>2, Running, ZenonT(40) DEF Calls, PCs
  <1>4. /\ r.pc = "precheck" /\ r.key = call[c].key /\ r.locked = call[c].locked
        /\ r.cutoff = horizon /\ r.rec = call[c].rec
    BY <1>r, Running DEF Calls
  <1>5. call[c].locked = {}
    BY <1>1, Running DEF CallInv, InTx
  <1>6. CallInv(r)' /\ Lighter(r, call[c])
    BY <1>1, <1>2, <1>4, <1>5, Running DEF CallInv, Lighter, InDelete, InTx
  <1>7. TokenInv'
    BY <1>1 DEF StateInv, TokenInv, Stored
  <1>8. QED
    BY <1>1, <1>2, <1>3, <1>6, <1>7, QuietInv DEF TypeOK

(* A call that comes to hold something no other call holds. *)
LEMMA AcquireInv ==
  ASSUME StateInv, NEW c \in Caller, NEW r \in Calls, CallInv(r),
         \A d \in Caller \ {c} : PairInv(call[d], r) /\ PairInv(r, call[d]),
         call' = [call EXCEPT ![c] = r], NoWrite
  PROVE  StateInv'
  <1>1. CallInv(r)'
    BY DEF NoWrite, tokenVars, timeVars, rowVars, CallInv, InDelete, InTx, Confirmed, Live
  <1>2. UNCHANGED <<projects, home, tombs, now, horizon, pending, issued, expired, spent, calls>>
    BY DEF NoWrite, rowVars, timeVars, tokenVars
  <1>3. call' \in [Caller -> Calls]
    BY Running
  <1>4. TypeOK'
    BY <1>2, <1>3 DEF StateInv, TypeOK
  <1>5. OneTombstonePerTask' /\ TokenInv'
    BY <1>2, SameState DEF StateInv, OneTombstonePerTask
  <1>6. ASSUME NEW d \in Caller \ {c} PROVE Kept(call[d])
    BY <1>2, Running DEF Kept, CallInv, StateInv, TypeOK
  <1>7. QED
    BY <1>1, <1>4, <1>5, <1>6, Preserve

LEMMA PrecheckInv ==
  ASSUME StateInv, NEW c \in Caller, Precheck(c)
  PROVE  StateInv'
  <1> DEFINE k == call[c].key
  <1>1. call[c].pc = "precheck" /\ NoWrite
    BY DEF Precheck
  <1>2. CASE k \in projects /\ Goto(c, "scan")
    <2>1. "scan" \in PCs /\ k \in Project
      BY <1>2 DEF PCs, StateInv, TypeOK
    <2>2. QED
      BY <1>1, <1>2, <2>1, GotoInv
  <1>3. CASE Return(c)
    BY <1>1, <1>3, ReturnInv
  <1>4. CASE /\ k \in Task /\ Live(k) /\ ~HeldByOther(c, k)
             /\ call' = [call EXCEPT ![c].pc = "snapshot", ![c].locked = {k}]
    <2> DEFINE r == [call[c] EXCEPT !.pc = "snapshot", !.locked = {k}]
    <2>1. call' = [call EXCEPT ![c] = r]
      BY <1>4, Running
    <2>2. r \in Calls
      BY <1>4, Running, ZenonT(40) DEF Calls, PCs
    <2>3. /\ r.pc = "snapshot" /\ r.key = k /\ r.locked = {k} /\ r.rec = call[c].rec
          /\ r.cutoff = call[c].cutoff
      BY Running DEF Calls
    <2> HIDE DEF r
    <2>4. k \notin Project /\ k \in Key
      BY <1>4, KeyAssumption DEF Key
    <2>5. CallInv(r)
      BY <1>1, <1>4, <2>3, <2>4, Running DEF CallInv, InDelete, InTx, Confirmed
    <2>6. ASSUME NEW d \in Caller \ {c} PROVE PairInv(call[d], r) /\ PairInv(r, call[d])
      BY <1>4, <2>3 DEF HeldByOther, PairInv
    <2>7. QED
      BY <1>1, <2>1, <2>2, <2>5, <2>6, AcquireInv
  <1>5. QED
    BY <1>2, <1>3, <1>4 DEF Precheck

LEMMA LockScanInv ==
  ASSUME StateInv, NEW c \in Caller, LockScan(c)
  PROVE  StateInv'
  <1> DEFINE r == [call[c] EXCEPT !.pc = "lock", !.scan = Under(call[c].key)]
  <1>1. call' = [call EXCEPT ![c] = r] /\ NoWrite /\ call[c].pc = "scan"
    BY Running DEF LockScan
  <1>2. r \in Calls
    BY Running, UnderTasks, ZenonT(40) DEF Calls, PCs
  <1>3. /\ r.pc = "lock" /\ r.key = call[c].key /\ r.locked = call[c].locked
        /\ r.rec = call[c].rec /\ r.cutoff = call[c].cutoff
    BY Running DEF Calls
  <1> HIDE DEF r
  <1>4. CallInv(r) /\ Lighter(r, call[c])
    BY <1>1, <1>3, Running DEF CallInv, Lighter, InDelete, InTx
  <1>5. QED
    BY <1>1, <1>2, <1>4, NoWriteInv

LEMMA LockRowInv ==
  ASSUME StateInv, NEW c \in Caller, LockRow(c)
  PROVE  StateInv'
  <1>1. PICK t \in NextRow(c) :
          /\ ~HeldByOther(c, t)
          /\ call' = [call EXCEPT ![c].scan = @ \ {t},
                        ![c].locked = IF home[t] = call[c].key THEN @ \cup {t} ELSE @]
    BY DEF LockRow
  <1> DEFINE held == IF home[t] = call[c].key THEN call[c].locked \cup {t} ELSE call[c].locked
             r == [call[c] EXCEPT !.scan = call[c].scan \ {t}, !.locked = held]
  <1>2. call' = [call EXCEPT ![c] = r] /\ NoWrite /\ call[c].pc = "lock"
    BY <1>1, Running DEF LockRow
  <1>3. t \in Task
    BY Running DEF NextRow, Calls
  <1>4. r \in Calls
    <2>1. held \in SUBSET Task /\ call[c].scan \ {t} \in SUBSET Task
      BY <1>3, Running DEF Calls
    <2> HIDE DEF held
    <2>2. QED
      BY <2>1, Running DEF Calls
  <1>5. /\ r.pc = "lock" /\ r.key = call[c].key /\ r.locked = held
        /\ r.rec = call[c].rec /\ r.cutoff = call[c].cutoff
    BY <1>2, Running DEF Calls
  <1>6. \A u \in held : u \in call[c].locked \/ (u = t /\ home[t] = call[c].key)
    OBVIOUS
  <1> HIDE DEF r, held
  <1>7. CallInv(r)
    BY <1>2, <1>5, <1>6, Running DEF CallInv, InDelete, InTx
  <1>8. ASSUME NEW d \in Caller \ {c} PROVE PairInv(call[d], r) /\ PairInv(r, call[d])
    <2>1. PairInv(call[d], call[c]) /\ PairInv(call[c], call[d])
      BY DEF StateInv
    <2>2. t \notin call[d].locked
      BY <1>1 DEF HeldByOther
    <2>3. QED
      BY <1>2, <1>5, <1>6, <2>1, <2>2 DEF PairInv
  <1>9. QED
    BY <1>2, <1>4, <1>7, <1>8, AcquireInv

LEMMA LockDoneInv ==
  ASSUME StateInv, NEW c \in Caller, LockDone(c)
  PROVE  StateInv'
  <1>1. call[c].pc = "lock" /\ NoWrite
    BY DEF LockDone
  <1>2. CASE call[c].locked = call[c].rec.expected /\ Goto(c, "snapshot")
    <2> DEFINE r == [call[c] EXCEPT !.pc = "snapshot"]
    <2>1. call' = [call EXCEPT ![c] = r]
      BY <1>2, Running DEF Goto
    <2>2. r \in Calls
      BY Running DEF Calls, PCs
    <2>3. /\ r.pc = "snapshot" /\ r.key = call[c].key /\ r.locked = call[c].locked
          /\ r.rec = call[c].rec /\ r.cutoff = call[c].cutoff
      BY Running DEF Calls
    <2> HIDE DEF r
    <2>4. CallInv(r) /\ Lighter(r, call[c])
      BY <1>1, <1>2, <2>3, Running DEF CallInv, Lighter, InDelete, InTx, Confirmed
    <2>5. QED
      BY <1>1, <2>1, <2>2, <2>4, NoWriteInv
  <1>3. CASE Return(c)
    BY <1>1, <1>3, ReturnInv
  <1>4. QED
    BY <1>2, <1>3 DEF LockDone

LEMMA SnapshotInv ==
  ASSUME StateInv, NEW c \in Caller, Snapshot(c)
  PROVE  StateInv'
  <1> DEFINE g == [at |-> call[c].at,
                   project |-> IF call[c].key \in projects THEN call[c].key ELSE None,
                   tasks |-> call[c].locked]
             r == [call[c] EXCEPT !.pc = "rows", !.group = g]
  <1>1. /\ call' = [call EXCEPT ![c] = r] /\ NoWrite /\ call[c].pc = "snapshot"
        /\ \A h \in tombs : h.at < call[c].cutoff => ~Restoring(h)
    BY Running DEF Snapshot
  <1>2. g \in Groups
    BY Running DEF Groups, Calls, StateInv, TypeOK
  <1>3. r \in Calls
    BY <1>2, Running, ZenonT(40) DEF Calls, PCs
  <1>4. /\ r.pc = "rows" /\ r.key = call[c].key /\ r.locked = call[c].locked
        /\ r.rec = call[c].rec /\ r.cutoff = call[c].cutoff /\ r.group.tasks = call[c].locked
    BY Running DEF Calls
  <1> HIDE DEF r, g
  <1>5. CallInv(r)
    BY <1>1, <1>4, Running DEF CallInv, InDelete, InTx, Confirmed
  <1>6. ASSUME NEW d \in Caller \ {c} PROVE PairInv(call[d], r) /\ PairInv(r, call[d])
    <2>1. PairInv(call[d], call[c]) /\ PairInv(call[c], call[d])
      BY DEF StateInv
    <2>2. ASSUME call[d].pc = "found" PROVE call[d].group.at >= call[c].cutoff
      <3>1. call[d].group \in tombs
        BY <2>2, Running DEF CallInv
      <3>2. Restoring(call[d].group)
        BY <2>2 DEF Restoring
      <3>3. call[d].group.at \in Nat /\ call[c].cutoff \in Nat
        BY Running DEF Calls, Groups
      <3>4. QED
        BY <1>1, <3>1, <3>2, <3>3
    <2>3. QED
      BY <1>4, <2>1, <2>2 DEF PairInv
  <1>7. QED
    BY <1>1, <1>3, <1>5, <1>6, AcquireInv

LEMMA DeleteTaskRowsInv ==
  ASSUME StateInv, NEW c \in Caller, DeleteTaskRows(c)
  PROVE  StateInv'
  <1>1. call[c].pc = "rows" /\ NoWrite
    BY DEF DeleteTaskRows
  <1>2. ASSUME NEW pc \in {"row", "commit"}, call' = [call EXCEPT ![c].pc = pc],
               pc = "row" => call[c].key \in Project
        PROVE  StateInv'
    <2> DEFINE r == [call[c] EXCEPT !.pc = pc]
    <2>1. call' = [call EXCEPT ![c] = r]
      BY <1>2, Running
    <2>2. r \in Calls
      BY Running DEF Calls, PCs
    <2>3. /\ r.pc = pc /\ r.key = call[c].key /\ r.locked = call[c].locked
          /\ r.rec = call[c].rec /\ r.cutoff = call[c].cutoff /\ r.group = call[c].group
      BY Running DEF Calls
    <2> HIDE DEF r
    <2>4. CallInv(r) /\ Lighter(r, call[c])
      BY <1>1, <1>2, <2>3, Running DEF CallInv, Lighter, InDelete, InTx, Confirmed
    <2>5. QED
      BY <1>1, <2>1, <2>2, <2>4, NoWriteInv
  <1>3. CASE Kind(c) = "task" /\ Goto(c, "commit")
    BY <1>2, <1>3 DEF Goto
  <1>4. CASE /\ Kind(c) = "project" /\ Under(call[c].key) = call[c].locked
             /\ call' = [call EXCEPT ![c].pc = "row", ![c].locked = Under(call[c].key)]
    <2>1. call[c].key \in Project
      BY <1>4 DEF Kind
    <2>2. call' = [call EXCEPT ![c] = [call[c] EXCEPT !.pc = "row", !.locked = call[c].locked]]
      BY <1>4, Running
    <2>3. [call[c] EXCEPT !.pc = "row", !.locked = call[c].locked] = [call[c] EXCEPT !.pc = "row"]
      BY Running DEF Calls
    <2>4. call' = [call EXCEPT ![c].pc = "row"]
      BY <2>2, <2>3, Running
    <2>5. QED
      BY <1>2, <2>1, <2>4
  <1>5. CASE Return(c)
    BY <1>1, <1>5, ReturnInv
  <1>6. QED
    BY <1>3, <1>4, <1>5 DEF DeleteTaskRows

LEMMA DeleteProjectRowInv ==
  ASSUME StateInv, NEW c \in Caller, DeleteProjectRow(c)
  PROVE  StateInv'
  <1> DEFINE took == call[c].key \in projects
             r == [call[c] EXCEPT !.pc = "commit", !.took = took]
  <1>1. call' = [call EXCEPT ![c] = r] /\ NoWrite /\ call[c].pc = "row"
    BY Running DEF DeleteProjectRow
  <1>2. r \in Calls
    <2>1. took \in BOOLEAN
      OBVIOUS
    <2> HIDE DEF took
    <2>2. QED
      BY <2>1, Running, ZenonT(40) DEF Calls, PCs
  <1>3. /\ r.pc = "commit" /\ r.key = call[c].key /\ r.locked = call[c].locked
        /\ r.rec = call[c].rec /\ r.cutoff = call[c].cutoff /\ r.group = call[c].group
    BY Running DEF Calls
  <1> HIDE DEF r
  <1>4. CallInv(r) /\ Lighter(r, call[c])
    BY <1>1, <1>3, Running DEF CallInv, Lighter, InDelete, InTx, Confirmed
  <1>5. QED
    BY <1>1, <1>2, <1>4, NoWriteInv

LEMMA DeadlockVictimInv ==
  ASSUME StateInv, NEW c \in Caller, DeadlockVictim(c)
  PROVE  StateInv'
  <1> DEFINE r == [Idle EXCEPT !.pc = "begin", !.key = call[c].key, !.rec = call[c].rec,
                     !.tries = call[c].tries + 1]
  <1>1. NoWrite /\ call[c].pc \in {"lock", "snapshot", "rows"}
    BY DEF DeadlockVictim
  <1>2. CASE call' = [call EXCEPT ![c] = r]
    <2>1. call[c].tries + 1 \in Nat
      BY Running DEF Calls
    <2>2. r \in Calls
      BY <2>1, IdleCall, Running DEF Calls, PCs
    <2>3. /\ r.pc = "begin" /\ r.key = call[c].key /\ r.locked = {} /\ r.rec = call[c].rec
          /\ r.cutoff = 0
      BY DEF Idle
    <2> HIDE DEF r
    <2>4. horizon \in Nat
      BY DEF StateInv, TypeOK
    <2>5. CallInv(r) /\ Lighter(r, call[c])
      BY <1>1, <2>3, <2>4, Running DEF CallInv, Lighter, InDelete, InTx
    <2>6. QED
      BY <1>1, <1>2, <2>2, <2>5, NoWriteInv
  <1>3. CASE Return(c)
    BY <1>1, <1>3, ReturnInv
  <1>4. QED
    BY <1>2, <1>3 DEF DeadlockVictim

LEMMA RestoreFindInv ==
  ASSUME StateInv, NEW c \in Caller, RestoreFind(c)
  PROVE  StateInv'
  <1>1. NoWrite /\ call[c].pc = "find"
    BY DEF RestoreFind
  <1>2. CASE Return(c)
    BY <1>1, <1>2, ReturnInv
  <1>3. ASSUME NEW g \in Latest(call[c].key), ~Restoring(g),
               call' = [call EXCEPT ![c].pc = "found", ![c].group = g]
        PROVE  StateInv'
    <2> DEFINE r == [call[c] EXCEPT !.pc = "found", !.group = g]
    <2>1. call' = [call EXCEPT ![c] = r]
      BY <1>3, Running
    <2>2. g \in tombs /\ g.at >= horizon /\ g \in Groups
      BY DEF Latest, Restorable, StateInv, TypeOK
    <2>3. r \in Calls
      BY <2>2, Running, ZenonT(40) DEF Calls, PCs
    <2>4. /\ r.pc = "found" /\ r.key = call[c].key /\ r.locked = call[c].locked
          /\ r.cutoff = call[c].cutoff /\ r.group = g
      BY Running DEF Calls
    <2> HIDE DEF r
    <2>5. CallInv(r)
      BY <1>1, <2>2, <2>4, Running DEF CallInv, InDelete, InTx
    <2>6. ASSUME NEW d \in Caller \ {c} PROVE PairInv(call[d], r) /\ PairInv(r, call[d])
      <3>1. PairInv(call[d], call[c]) /\ PairInv(call[c], call[d])
        BY DEF StateInv
      <3>2. call[d].pc = "found" => call[d].group # g
        BY <1>3 DEF Restoring
      <3>3. g.at >= call[d].cutoff
        <4>1. call[d].cutoff <= horizon /\ call[d].cutoff \in Nat /\ horizon \in Nat /\ g.at \in Nat
          BY <2>2, Running DEF CallInv, Calls, Groups, StateInv, TypeOK
        <4>2. QED
          BY <2>2, <4>1
      <3>4. QED
        BY <1>1, <2>4, <3>1, <3>2, <3>3 DEF PairInv
    <2>7. QED
      BY <1>1, <2>1, <2>3, <2>5, <2>6, AcquireInv
  <1>4. QED
    BY <1>1, <1>2, <1>3 DEF RestoreFind

LEMMA StoreErrorInv ==
  ASSUME StateInv, NEW c \in Caller, StoreError(c)
  PROVE  StateInv'
  BY ReturnInv DEF StoreError

------------------------------------------------------------------------------
(* The steps that write rows *)

(* A return that writes rows no other call has locked or found. *)
LEMMA WriteInv ==
  ASSUME StateInv, NEW c \in Caller, Return(c), UNCHANGED <<tokenVars, timeVars, calls>>,
         projects' \subseteq Project, home' \in [Task -> Places \cup {Unborn, Gone}],
         tombs' \subseteq Groups, OneTombstonePerTask',
         \A d \in Caller \ {c} : /\ \A t \in call[d].locked : home'[t] = home[t]
                                 /\ call[d].pc = "found" => call[d].group \in tombs'
  PROVE  StateInv'
  <1>1. UNCHANGED <<pending, issued, expired, spent, now, horizon, calls>>
    BY DEF tokenVars, timeVars
  <1>2. Idle \in Calls /\ call' = [call EXCEPT ![c] = Idle] /\ call' \in [Caller -> Calls]
    BY IdleCall, Running DEF Return
  <1>3. TypeOK'
    BY <1>1, <1>2 DEF StateInv, TypeOK
  <1>4. TokenInv'
    BY <1>1 DEF StateInv, TokenInv, Stored
  <1>5. CallInv(Idle)'
    BY <1>1 DEF Idle, CallInv, InDelete, InTx, StateInv, TypeOK
  <1>6. ASSUME NEW d \in Caller \ {c}
        PROVE  Kept(call[d]) /\ PairInv(call[d], Idle) /\ PairInv(Idle, call[d])
    <2>1. Kept(call[d])
      BY <1>1 DEF Kept, StateInv, TypeOK
    <2>2. PairInv(call[d], Idle) /\ PairInv(Idle, call[d])
      BY DEF Idle, PairInv
    <2>3. QED
      BY <2>1, <2>2
  <1>7. QED
    BY <1>2, <1>3, <1>4, <1>5, <1>6, Preserve

LEMMA GoneIsNotLive == Gone \notin Places /\ Unborn \notin Places
  BY PlaceAssumption DEF Places, Gone, Loose, Unborn

LEMMA CommitInv ==
  ASSUME StateInv, NEW c \in Caller, Commit(c)
  PROVE  StateInv'
  <1> DEFINE g == call[c].group
             locked == call[c].locked
  <1>1. /\ call[c].pc = "commit"
        /\ projects' \subseteq projects
        /\ home' = [t \in Task |-> IF t \in locked THEN Gone ELSE home[t]]
        /\ \A h \in tombs' : h = g \/ h \in tombs
        /\ \A h \in tombs : h.at >= call[c].cutoff => h \in tombs'
        /\ Return(c) /\ UNCHANGED <<tokenVars, timeVars, calls>>
    BY DEF Commit
  <1>2. /\ projects \subseteq Project /\ home \in [Task -> Places \cup {Unborn, Gone}]
        /\ tombs \subseteq Groups /\ g \in Groups /\ locked \subseteq Task /\ g.tasks = locked
    BY <1>1, Running DEF StateInv, TypeOK, Calls, CallInv
  <1>3. /\ projects' \subseteq Project /\ tombs' \subseteq Groups
        /\ home' \in [Task -> Places \cup {Unborn, Gone}]
    BY <1>1, <1>2
  <1>4. \A t \in locked : home[t] \in Places
    BY Running DEF CallInv, Live, Places
  <1>5. \A h \in tombs : h.tasks \cap locked = {}
    BY <1>4, GoneIsNotLive DEF StateInv, OneTombstonePerTask
  <1>6. OneTombstonePerTask'
    <2>1. ASSUME NEW h \in tombs', NEW t \in h.tasks PROVE home'[t] = Gone
      <3>1. t \in Task
        BY <1>3 DEF Groups
      <3>2. CASE h = g
        BY <1>1, <1>2, <3>1, <3>2
      <3>3. CASE h \in tombs
        BY <1>1, <3>1, <3>3 DEF StateInv, OneTombstonePerTask
      <3>4. QED
        BY <1>1, <3>2, <3>3
    <2>2. ASSUME NEW h \in tombs', NEW k \in tombs', h.tasks \cap k.tasks # {} PROVE h = k
      <3>1. CASE h \in tombs /\ k \in tombs
        BY <2>2, <3>1 DEF StateInv, OneTombstonePerTask
      <3>2. CASE h = g /\ k \in tombs
        BY <1>2, <1>5, <2>2, <3>2
      <3>3. CASE h \in tombs /\ k = g
        BY <1>2, <1>5, <2>2, <3>3
      <3>4. QED
        BY <1>1, <3>1, <3>2, <3>3
    <2>3. QED
      BY <2>1, <2>2 DEF OneTombstonePerTask
  <1>7. ASSUME NEW d \in Caller \ {c}
        PROVE  /\ \A t \in call[d].locked : home'[t] = home[t]
               /\ call[d].pc = "found" => call[d].group \in tombs'
    <2>1. PairInv(call[d], call[c]) /\ call[d].locked \subseteq Task
      BY Running DEF StateInv, Calls, TypeOK
    <2>2. \A t \in call[d].locked : home'[t] = home[t]
      BY <1>1, <2>1 DEF PairInv
    <2>3. ASSUME call[d].pc = "found" PROVE call[d].group \in tombs'
      <3>1. call[d].group \in tombs
        BY <2>3, Running DEF CallInv
      <3>2. call[d].group.at >= call[c].cutoff
        BY <1>1, <2>1, <2>3 DEF PairInv
      <3>3. QED
        BY <1>1, <3>1, <3>2
    <2>4. QED
      BY <2>2, <2>3
  <1>8. QED
    BY <1>1, <1>3, <1>6, <1>7, WriteInv

LEMMA RestoreWriteInv ==
  ASSUME StateInv, NEW c \in Caller, RestoreWrite(c)
  PROVE  StateInv'
  <1> DEFINE g == call[c].group
             k == call[c].key
  <1>1. call[c].pc = "found" /\ Return(c) /\ UNCHANGED <<tokenVars, timeVars, calls>>
    BY DEF RestoreWrite
  <1>2. CASE UNCHANGED rowVars
    BY <1>1, <1>2, ReturnInv DEF NoWrite, tokenVars, timeVars, rowVars
  <1>3. CASE /\ projects' = projects \cup {k}
             /\ home' = [t \in Task |-> IF t \in g.tasks THEN k ELSE home[t]]
             /\ tombs' = tombs \ {g}
    <2>1. /\ projects \subseteq Project /\ home \in [Task -> Places \cup {Unborn, Gone}]
          /\ tombs \subseteq Groups /\ k \in Project /\ g \in tombs /\ OneTombstonePerTask
      BY <1>1, Running DEF StateInv, TypeOK, CallInv
    <2>2. /\ projects' \subseteq Project /\ tombs' \subseteq Groups
          /\ home' \in [Task -> Places \cup {Unborn, Gone}]
      BY <1>3, <2>1 DEF Places
    <2>3. OneTombstonePerTask'
      <3>1. ASSUME NEW h \in tombs', NEW t \in h.tasks PROVE home'[t] = Gone
        <4>1. h \in tombs /\ h # g /\ t \in Task
          BY <1>3, <2>2 DEF Groups
        <4>2. t \notin g.tasks /\ home[t] = Gone
          BY <2>1, <4>1 DEF OneTombstonePerTask
        <4>3. QED
          BY <1>3, <4>1, <4>2
      <3>2. QED
        BY <1>3, <2>1, <3>1 DEF OneTombstonePerTask
    <2>4. ASSUME NEW d \in Caller \ {c}
          PROVE  /\ \A t \in call[d].locked : home'[t] = home[t]
                 /\ call[d].pc = "found" => call[d].group \in tombs'
      <3>1. call[d].pc = "found" => call[d].group \in tombs /\ call[d].group # g
        BY <1>1, Running DEF StateInv, PairInv, CallInv
      <3>2. ASSUME NEW t \in call[d].locked PROVE home'[t] = home[t]
        <4>1. t \in Task /\ home[t] \in Places
          BY Running DEF Calls, CallInv, Live, Places
        <4>2. t \notin g.tasks
          BY <2>1, <4>1, GoneIsNotLive DEF OneTombstonePerTask
        <4>3. QED
          BY <1>3, <4>1, <4>2
      <3>3. QED
        BY <1>3, <3>1, <3>2
    <2>5. QED
      BY <1>1, <2>2, <2>3, <2>4, WriteInv
  <1>4. QED
    BY <1>2, <1>3 DEF RestoreWrite, Consumed

(* A step of none of the callers. *)
LEMMA AroundInv ==
  ASSUME StateInv, call' = call, TypeOK', OneTombstonePerTask', TokenInv',
         \A d \in Caller : Kept(call[d])
  PROVE  StateInv'
  <1>1. ASSUME NEW d \in Caller PROVE CallInv(call[d])'
    <2>1. PICK r : r = call[d]
      OBVIOUS
    <2>2. r \in Calls /\ CallInv(r) /\ Kept(r)
      BY <2>1, Running
    <2>3. CallInv(r)'
      BY <2>2, CallKept
    <2>4. QED
      BY <2>1, <2>3
  <1>2. (\A d, e \in Caller : d # e => PairInv(call[d], call[e]))'
    BY DEF StateInv, PairInv
  <1>3. QED
    BY <1>1, <1>2 DEF StateInv

(* A task is created or moves, and no other task does. *)
LEMMA HomeInv ==
  ASSUME StateInv, NEW t \in Task, NEW h \in Places, home' = [home EXCEPT ![t] = h],
         home[t] # Gone, \A d \in Caller : t \notin call[d].locked,
         UNCHANGED <<projects, tombs, tokenVars, timeVars, call, calls>>
  PROVE  StateInv'
  <1>1. UNCHANGED <<projects, tombs, pending, issued, expired, spent, now, horizon, call, calls>>
    BY DEF tokenVars, timeVars
  <1>2. TypeOK /\ home' \in [Task -> Places \cup {Unborn, Gone}]
    BY DEF StateInv, TypeOK
  <1>3. TypeOK'
    BY <1>1, <1>2 DEF TypeOK
  <1>4. TokenInv'
    BY <1>1 DEF StateInv, TokenInv, Stored
  <1>5. OneTombstonePerTask'
    <2>1. ASSUME NEW g \in tombs, NEW u \in g.tasks PROVE home'[u] = Gone
      <3>1. u \in Task /\ home[u] = Gone
        BY <1>2 DEF TypeOK, Groups, StateInv, OneTombstonePerTask
      <3>2. QED
        BY <1>2, <3>1 DEF TypeOK
    <2>2. QED
      BY <1>1, <2>1 DEF StateInv, OneTombstonePerTask
  <1>6. ASSUME NEW d \in Caller PROVE Kept(call[d])
    <2>1. \A u \in call[d].locked : home'[u] = home[u]
      BY <1>2, Running DEF TypeOK, Calls
    <2>2. QED
      BY <1>1, <1>2, <2>1, Running DEF Kept, CallInv, TypeOK
  <1>7. QED
    BY <1>1, <1>3, <1>4, <1>5, <1>6, AroundInv

LEMMA CreateTaskInv ==
  ASSUME StateInv, NEW t \in Task, NEW h \in Places, CreateTask(t, h)
  PROVE  StateInv'
  <1>1. home[t] # Gone
    BY DEF CreateTask, Unborn, Gone
  <1>2. ASSUME NEW d \in Caller PROVE t \notin call[d].locked
    <2>1. \A u \in call[d].locked : home[u] \in Places
      BY Running DEF CallInv, Live, Places
    <2>2. QED
      BY <2>1, GoneIsNotLive DEF CreateTask
  <1>3. QED
    BY <1>1, <1>2, HomeInv DEF CreateTask

LEMMA MoveTaskInv ==
  ASSUME StateInv, NEW t \in Task, NEW h \in Places, MoveTask(t, h)
  PROVE  StateInv'
  BY HomeInv, GoneIsNotLive DEF MoveTask, Live

LEMMA ExpireTokenInv ==
  ASSUME StateInv, NEW k \in Key, ExpireToken(k)
  PROVE  StateInv'
  <1>1. /\ UNCHANGED <<projects, home, tombs, pending, issued, spent, now, horizon, call, calls>>
        /\ expired' = expired \cup {k}
    BY DEF ExpireToken, rowVars, timeVars
  <1>2. TypeOK'
    BY <1>1 DEF StateInv, TypeOK
  <1>3. TokenInv' /\ OneTombstonePerTask'
    BY <1>1 DEF StateInv, TokenInv, Stored, OneTombstonePerTask
  <1>4. ASSUME NEW d \in Caller PROVE Kept(call[d])
    BY <1>1, Running DEF Kept, CallInv, StateInv, TypeOK
  <1>5. QED
    BY <1>1, <1>2, <1>3, <1>4, AroundInv

LEMMA AgeInv ==
  ASSUME StateInv, NEW n \in 1..now + 1, Age(n)
  PROVE  StateInv'
  <1>1. /\ UNCHANGED <<projects, home, tombs, pending, issued, expired, spent, now, call, calls>>
        /\ horizon' = n /\ horizon < n
    BY DEF Age, rowVars, tokenVars
  <1>2. TypeOK'
    BY <1>1 DEF StateInv, TypeOK
  <1>3. TokenInv' /\ OneTombstonePerTask'
    BY <1>1 DEF StateInv, TokenInv, Stored, OneTombstonePerTask
  <1>4. ASSUME NEW d \in Caller PROVE Kept(call[d])
    BY <1>1, <1>2, Running DEF Kept, CallInv, StateInv, TypeOK
  <1>5. QED
    BY <1>1, <1>2, <1>3, <1>4, AroundInv

LEMMA PruneInv ==
  ASSUME StateInv, PruneDeletionTombstones
  PROVE  StateInv'
  <1>1. /\ UNCHANGED <<projects, home, pending, issued, expired, spent, now, horizon, call, calls>>
        /\ tombs' = {g \in tombs : g.at >= horizon}
        /\ \A g \in tombs : g.at < horizon => ~Restoring(g)
    BY DEF PruneDeletionTombstones, tokenVars, timeVars
  <1>2. TypeOK'
    BY <1>1 DEF StateInv, TypeOK
  <1>3. TokenInv' /\ OneTombstonePerTask'
    BY <1>1 DEF StateInv, TokenInv, Stored, OneTombstonePerTask
  <1>4. ASSUME NEW d \in Caller PROVE Kept(call[d])
    <2>1. ASSUME call[d].pc = "found" PROVE call[d].group \in tombs'
      <3>1. call[d].group \in tombs /\ Restoring(call[d].group)
        BY <2>1, Running DEF CallInv, Restoring
      <3>2. call[d].group.at \in Nat /\ horizon \in Nat
        BY Running DEF Calls, Groups, StateInv, TypeOK
      <3>3. QED
        BY <1>1, <3>1, <3>2
    <2>2. QED
      BY <1>1, <2>1 DEF Kept, StateInv, TypeOK
  <1>5. QED
    BY <1>1, <1>2, <1>3, <1>4, AroundInv

------------------------------------------------------------------------------
(* The invariant of the specification *)

LEMMA InitInv == Init => StateInv
  <1> SUFFICES ASSUME Init PROVE StateInv
    OBVIOUS
  <1>1. NoRecord \in Records /\ Idle \in Calls
    <2>1. NoRecord \in Records /\ NoGroup \in Groups /\ "idle" \in PCs
      BY DEF NoRecord, NoGroup, Records, Groups, PCs
    <2>2. QED
      BY <2>1 DEF Idle, Calls
  <1>2. TypeOK
    BY <1>1 DEF Init, TypeOK
  <1>3. OneTombstonePerTask /\ TokenInv
    BY DEF Init, OneTombstonePerTask, TokenInv, Stored
  <1>4. CallInv(Idle)
    BY DEF Init, Idle, CallInv, InDelete, InTx
  <1>5. PairInv(Idle, Idle)
    BY DEF Idle, PairInv
  <1>6. QED
    BY <1>2, <1>3, <1>4, <1>5 DEF Init, StateInv

LEMMA StepInv ==
  ASSUME StateInv, NEW c \in Caller, Step(c)
  PROVE  StateInv'
  <1>1. CASE PreviewRead(c) \/ PreviewList(c)
    BY <1>1, PreviewReadInv, PreviewListInv
  <1>2. CASE IssueSweep(c) \/ IssueSweepDelete(c) \/ IssueCount(c) \/ IssueStore(c)
    BY <1>2, IssueSweepInv, IssueSweepDeleteInv, IssueCountInv, IssueStoreInv
  <1>3. CASE LoadToken(c) \/ DropToken(c) \/ SpendToken(c)
    BY <1>3, LoadTokenInv, DropTokenInv, SpendTokenInv
  <1>4. CASE BeginTx(c) \/ Precheck(c) \/ LockScan(c) \/ LockRow(c) \/ LockDone(c)
    BY <1>4, BeginTxInv, PrecheckInv, LockScanInv, LockRowInv, LockDoneInv
  <1>5. CASE Snapshot(c) \/ DeleteTaskRows(c) \/ DeleteProjectRow(c) \/ Commit(c)
    BY <1>5, SnapshotInv, DeleteTaskRowsInv, DeleteProjectRowInv, CommitInv
  <1>6. CASE DeadlockVictim(c) \/ RestoreFind(c) \/ RestoreWrite(c) \/ StoreError(c)
    BY <1>6, DeadlockVictimInv, RestoreFindInv, RestoreWriteInv, StoreErrorInv
  <1>7. QED
    BY <1>1, <1>2, <1>3, <1>4, <1>5, <1>6 DEF Step

LEMMA NextInv == StateInv /\ [Next]_vars => StateInv'
  <1> SUFFICES ASSUME StateInv, [Next]_vars PROVE StateInv'
    OBVIOUS
  <1>1. CASE Background
    <2>1. CASE \E t \in Task, h \in Places : CreateTask(t, h) \/ MoveTask(t, h)
      BY <2>1, CreateTaskInv, MoveTaskInv
    <2>2. CASE \E k \in Key : ExpireToken(k)
      BY <2>2, ExpireTokenInv
    <2>3. CASE \E n \in 1..now + 1 : Age(n)
      BY <2>3, AgeInv
    <2>4. CASE PruneDeletionTombstones
      BY <2>4, PruneInv
    <2>5. QED
      BY <1>1, <2>1, <2>2, <2>3, <2>4 DEF Background
  <1>2. ASSUME NEW c \in Caller, Begins(c) \/ Step(c) PROVE StateInv'
    BY <1>2, BeginsInv, StepInv
  <1>3. CASE UNCHANGED vars
    <2>1. UNCHANGED <<projects, home, tombs, pending, issued, expired, spent, now, horizon,
                      call, calls>>
      BY <1>3 DEF vars, rowVars, tokenVars, timeVars
    <2>2. TypeOK' /\ TokenInv' /\ OneTombstonePerTask'
      BY <2>1 DEF StateInv, TypeOK, TokenInv, Stored, OneTombstonePerTask
    <2>3. ASSUME NEW d \in Caller PROVE Kept(call[d])
      BY <2>1, Running DEF Kept, CallInv, StateInv, TypeOK
    <2>4. QED
      BY <2>1, <2>2, <2>3, AroundInv
  <1>4. QED
    BY <1>1, <1>2, <1>3 DEF Next

(* A deleted task is in one group and nowhere else, a stored token is        *)
(* unspent, a delete past its lock holds exactly the tasks that were         *)
(* confirmed, and no two calls hold one row or one group.                    *)
THEOREM StateInvariant == Spec => []StateInv
  <1>1. QED
    BY InitInv, NextInv, PTL DEF Spec

------------------------------------------------------------------------------
(* The action properties *)

(* The steps that leave homes and groups alone. *)
LEMMA RowsStay ==
  ASSUME NEW c \in Caller, Begins(c) \/ Step(c), ~Commit(c), ~RestoreWrite(c)
  PROVE  UNCHANGED rowVars
  <1>1. CASE Begins(c)
    BY <1>1 DEF Begins, CallPreview, CallConfirm, CallRestore, Start
  <1>2. CASE Step(c)
    <2>1. CASE PreviewRead(c) \/ PreviewList(c) \/ IssueSweep(c) \/ IssueCount(c) \/ LoadToken(c)
      BY <2>1 DEF PreviewRead, PreviewList, IssueSweep, IssueCount, LoadToken, NoWrite
    <2>2. CASE IssueSweepDelete(c) \/ IssueStore(c) \/ DropToken(c) \/ SpendToken(c) \/ BeginTx(c)
      BY <2>2 DEF IssueSweepDelete, IssueStore, DropToken, SpendToken, BeginTx
    <2>3. CASE \/ Precheck(c) \/ LockScan(c) \/ LockRow(c) \/ LockDone(c) \/ Snapshot(c)
               \/ DeleteTaskRows(c) \/ DeleteProjectRow(c)
      BY <2>3 DEF Precheck, LockScan, LockRow, LockDone, Snapshot, DeleteTaskRows,
           DeleteProjectRow, NoWrite
    <2>4. CASE DeadlockVictim(c) \/ RestoreFind(c) \/ StoreError(c)
      BY <2>4 DEF DeadlockVictim, RestoreFind, StoreError, NoWrite
    <2>5. QED
      BY <1>2, <2>1, <2>2, <2>3, <2>4 DEF Step
  <1>3. QED
    BY <1>1, <1>2

LEMMA OnlyCommitRemoves ==
  ASSUME StateInv, [Next]_vars, NEW t \in Task, Live(t), home'[t] = Gone
  PROVE  \E c \in Caller : Commit(c)
  <1> SUFFICES ASSUME \A c \in Caller : ~Commit(c) PROVE FALSE
    OBVIOUS
  <1>1. home[t] # Gone /\ home \in [Task -> Places \cup {Unborn, Gone}]
    BY GoneIsNotLive DEF Live, StateInv, TypeOK
  <1>2. CASE Background
    <2>1. ASSUME NEW u \in Task, NEW h \in Places, home' = [home EXCEPT ![u] = h] PROVE FALSE
      BY <1>1, <2>1, GoneIsNotLive
    <2>2. CASE home' = home
      BY <1>1, <2>2
    <2>3. QED
      BY <1>2, <2>1, <2>2 DEF Background, CreateTask, MoveTask, ExpireToken, Age,
           PruneDeletionTombstones, rowVars
  <1>3. ASSUME NEW c \in Caller, RestoreWrite(c) PROVE FALSE
    <2>1. call[c].key \in Places
      BY <1>3, Running DEF RestoreWrite, CallInv, Places
    <2>2. home'[t] \in {call[c].key, home[t]}
      BY <1>3 DEF RestoreWrite, rowVars
    <2>3. QED
      BY <1>1, <2>1, <2>2, GoneIsNotLive
  <1>4. ASSUME NEW c \in Caller, Begins(c) \/ Step(c) PROVE FALSE
    BY <1>1, <1>3, <1>4, RowsStay DEF rowVars
  <1>5. QED
    BY <1>1, <1>2, <1>4 DEF Next, vars, rowVars

LEMMA CommitRemoves ==
  ASSUME StateInv, NEW c \in Caller, Commit(c)
  PROVE  /\ {t \in Task : Live(t) /\ home'[t] = Gone} = call[c].locked
         /\ call[c].locked = Confirmed(call[c]) /\ call[c].rec.token \in spent
         /\ call[c].group.tasks = call[c].locked
         /\ call[c].locked # {} => call[c].group \in tombs'
  <1>1. /\ call[c].locked \subseteq Task /\ call[c].group.tasks = call[c].locked
        /\ call[c].locked = Confirmed(call[c]) /\ call[c].rec.token \in spent
        /\ \A t \in call[c].locked : Live(t)
    BY Running DEF Commit, CallInv, Calls, InTx, InDelete, Live, Places
  <1>2. home' = [t \in Task |-> IF t \in call[c].locked THEN Gone ELSE home[t]]
    BY DEF Commit
  <1>3. {t \in Task : Live(t) /\ home'[t] = Gone} = call[c].locked
    BY <1>1, <1>2, GoneIsNotLive DEF Live
  <1>4. call[c].locked # {} => call[c].group \in tombs'
    BY <1>1 DEF Commit
  <1>5. QED
    BY <1>1, <1>3, <1>4

(* A delete removes exactly the tasks its confirmation carried, under a      *)
(* token that was spent, whatever happens to tasks meanwhile.                *)
THEOREM PreviewBindsDelete == Spec => PreviewBinds
  <1>1. ASSUME StateInv, [Next]_vars, {t \in Task : Live(t) /\ home'[t] = Gone} # {}
        PROVE  \E c \in Caller :
                 /\ call[c].pc = "commit" /\ call[c].rec.token \in spent
                 /\ {t \in Task : Live(t) /\ home'[t] = Gone} = Confirmed(call[c])
    <2>1. PICK c \in Caller : Commit(c)
      BY <1>1, OnlyCommitRemoves
    <2>2. call[c].pc = "commit"
      BY <2>1 DEF Commit
    <2>3. QED
      BY <1>1, <2>1, <2>2, CommitRemoves
  <1>2. StateInv /\ [Next]_vars =>
          [LET removed == {t \in Task : Live(t) /\ home'[t] = Gone} IN
           removed # {} => \E c \in Caller :
             /\ call[c].pc = "commit" /\ call[c].rec.token \in spent
             /\ removed = Confirmed(call[c])]_vars
    BY <1>1
  <1>3. QED
    BY <1>2, StateInvariant, PTL DEF Spec, PreviewBinds

(* A deleted task is in a group from the step that deletes it until it is    *)
(* restored or the retention of its group has ended.                         *)
THEOREM DeletedTaskIsKept == Spec => KeptOrRestored
  <1>1. ASSUME StateInv, [Next]_vars, NEW t \in Task, Live(t), home'[t] = Gone
        PROVE  Buried(t)'
    <2>1. PICK c \in Caller : Commit(c)
      BY <1>1, OnlyCommitRemoves
    <2>2. t \in call[c].locked /\ t \in call[c].group.tasks /\ call[c].group \in tombs'
      BY <1>1, <2>1, CommitRemoves
    <2>3. QED
      BY <2>2 DEF Buried
  <1>2. ASSUME StateInv, [Next]_vars, NEW t \in Task, Buried(t), ~Buried(t)'
        PROVE  Live(t)' \/ \E g \in tombs : t \in g.tasks /\ g.at < horizon
    <2>1. PICK g \in tombs : t \in g.tasks /\ g \notin tombs'
      BY <1>2 DEF Buried
    <2>2. g.at \in Nat /\ horizon \in Nat
      BY <1>2, <2>1 DEF StateInv, TypeOK, Groups
    <2>3. ASSUME NEW c \in Caller, Commit(c) PROVE g.at < horizon
      <3>1. ~(g.at >= call[c].cutoff)
        BY <2>1, <2>3 DEF Commit
      <3>2. call[c].cutoff \in Nat /\ call[c].cutoff <= horizon
        BY <1>2, Running DEF CallInv, Calls
      <3>3. QED
        BY <2>2, <3>1, <3>2
    <2>4. ASSUME NEW c \in Caller, RestoreWrite(c) PROVE Live(t)'
      <3>1. g = call[c].group /\ home' = [u \in Task |-> IF u \in call[c].group.tasks
                                                          THEN call[c].key ELSE home[u]]
        BY <2>1, <2>4 DEF RestoreWrite, Consumed, rowVars
      <3>2. call[c].key \in Places
        BY <1>2, <2>4, Running DEF RestoreWrite, CallInv, Places
      <3>3. QED
        BY <2>1, <3>1, <3>2 DEF Live
    <2>5. CASE Background
      <3>1. tombs' = tombs \/ tombs' = {h \in tombs : h.at >= horizon}
        BY <2>5 DEF Background, CreateTask, MoveTask, ExpireToken, Age,
             PruneDeletionTombstones, rowVars
      <3>2. g.at < horizon
        BY <2>1, <2>2, <3>1
      <3>3. QED
        BY <2>1, <3>2
    <2>6. ASSUME NEW c \in Caller, Begins(c) \/ Step(c), ~Commit(c), ~RestoreWrite(c) PROVE FALSE
      BY <2>1, <2>6, RowsStay DEF rowVars
    <2>7. CASE UNCHANGED vars
      BY <2>1, <2>7 DEF vars, rowVars
    <2>8. QED
      BY <1>2, <2>1, <2>3, <2>4, <2>5, <2>6, <2>7 DEF Next
  <1>3. StateInv /\ [Next]_vars =>
          [\A t \in Task :
             /\ Live(t) /\ home'[t] = Gone => Buried(t)'
             /\ Buried(t) /\ ~Buried(t)' =>
                  Live(t)' \/ \E g \in tombs : t \in g.tasks /\ g.at < horizon]_vars
    BY <1>1, <1>2
  <1>4. QED
    BY <1>3, StateInvariant, PTL DEF Spec, KeptOrRestored

(* A step of one caller leaves the other calls alone. *)
LEMMA OthersStay ==
  ASSUME StateInv, NEW c \in Caller, NEW d \in Caller \ {c}, Begins(d) \/ Step(d)
  PROVE  call'[c] = call[c]
  <1>1. call \in [Caller -> Calls]
    BY Running
  <1>2. CASE Begins(d)
    BY <1>1, <1>2 DEF Begins, CallPreview, CallConfirm, CallRestore, Start
  <1>3. CASE Step(d)
    <2>1. CASE PreviewRead(d) \/ PreviewList(d) \/ IssueSweep(d) \/ IssueCount(d) \/ LoadToken(d)
      BY <1>1, <2>1 DEF PreviewRead, PreviewList, IssueSweep, IssueCount, LoadToken, Goto, Return
    <2>2. CASE IssueSweepDelete(d) \/ IssueStore(d) \/ DropToken(d) \/ SpendToken(d) \/ BeginTx(d)
      BY <1>1, <2>2 DEF IssueSweepDelete, IssueStore, DropToken, SpendToken, BeginTx, Goto, Return
    <2>3. CASE \/ Precheck(d) \/ LockScan(d) \/ LockRow(d) \/ LockDone(d) \/ Snapshot(d)
               \/ DeleteTaskRows(d) \/ DeleteProjectRow(d)
      BY <1>1, <2>3 DEF Precheck, LockScan, LockRow, LockDone, Snapshot, DeleteTaskRows,
           DeleteProjectRow, Goto, Return
    <2>4. CASE DeadlockVictim(d) \/ RestoreFind(d) \/ RestoreWrite(d) \/ StoreError(d) \/ Commit(d)
      BY <1>1, <2>4 DEF DeadlockVictim, RestoreFind, RestoreWrite, StoreError, Commit, Return
    <2>5. QED
      BY <1>3, <2>1, <2>2, <2>3, <2>4 DEF Step
  <1>4. QED
    BY <1>2, <1>3

(* A confirmation about to spend its token takes no other step. *)
LEMMA OnlySpendSpends ==
  ASSUME StateInv, NEW c \in Caller, call[c].pc = "spend", Begins(c) \/ Step(c)
  PROVE  SpendToken(c)
  <1>1. ~Begins(c)
    BY DEF Begins, CallPreview, CallConfirm, CallRestore, Start
  <1>2. Step(c)
    BY <1>1
  <1>3. QED
    BY <1>2 DEF Step, PreviewRead, PreviewList, IssueSweep, IssueSweepDelete, IssueCount, IssueStore, LoadToken,
       DropToken, BeginTx, Precheck, LockScan, LockRow, LockDone, Snapshot, DeleteTaskRows,
       DeleteProjectRow, Commit, DeadlockVictim, RestoreFind, RestoreWrite, StoreError, PCs

(* However many confirmations have loaded one record, one of them starts a   *)
(* delete with its token.                                                    *)
THEOREM TokenSpentOnce == Spec => SpentOnce
  <1>1. ASSUME StateInv, [Next]_vars, NEW c \in Caller,
               call[c].pc = "spend", call'[c].pc = "begin"
        PROVE  call[c].rec.token \notin spent
    <2>1. call' # call
      BY <1>1
    <2>2. PICK d \in Caller : Begins(d) \/ Step(d)
      BY <1>1, <2>1 DEF Next, Background, CreateTask, MoveTask, ExpireToken, Age,
           PruneDeletionTombstones, vars
    <2>3. d = c
      BY <1>1, <2>2, OthersStay
    <2>4. SpendToken(c)
      BY <1>1, <2>2, <2>3, OnlySpendSpends
    <2>5. call[c].key \in Key /\ call[c].rec.token > 0 /\ call \in [Caller -> Calls]
      BY <1>1, Running DEF CallInv
    <2>6. CASE pending[call[c].key] = call[c].rec
      <3>1. Stored(call[c].key)
        BY <2>5, <2>6 DEF Stored, NoRecord
      <3>2. QED
        BY <1>1, <2>5, <2>6, <3>1 DEF StateInv, TokenInv
    <2>7. CASE pending[call[c].key] # call[c].rec
      <3>1. call'[c].pc = "idle"
        BY <2>4, <2>5, <2>7 DEF SpendToken, Return, Idle
      <3>2. QED
        BY <1>1, <3>1
    <2>8. QED
      BY <2>6, <2>7
  <1>2. StateInv /\ [Next]_vars =>
          [\A c \in Caller : call[c].pc = "spend" /\ call'[c].pc = "begin" =>
             call[c].rec.token \notin spent]_vars
    BY <1>1
  <1>3. QED
    BY <1>2, StateInvariant, PTL DEF Spec, SpentOnce


(* Every variable keeps its type. *)
THEOREM TypeCorrect == Spec => []TypeOK
  <1>1. StateInv => TypeOK
    BY DEF StateInv
  <1>2. QED
    BY <1>1, StateInvariant, PTL

------------------------------------------------------------------------------
(* Deletion times *)

InWork == {"precheck", "scan", "lock", "snapshot", "rows", "row", "commit"}

(* A step that moves one call and leaves rows and clocks alone. *)
LEMMA TimeQuiet ==
  ASSUME StateInv, TimeInv, NEW c \in Caller, \A d \in Caller \ {c} : call'[d] = call[d],
         UNCHANGED <<tombs, now, horizon>>,
         call'[c].at \in {0, call[c].at},
         call'[c].pc \in InWork => call'[c].at > 0,
         call'[c].pc \in {"rows", "row", "commit"} =>
           call'[c].group.at = call'[c].at /\ call'[c].group.project \in {None, call'[c].key},
         call'[c].pc = "found" => call'[c].group.project = call'[c].key
  PROVE  TimeInv'
  <1>1. TimeHolds(call[c])'
    <2>1. TimeHolds(call[c]) /\ now \in Nat /\ call[c].at \in Nat
      BY Running DEF TimeInv, StateInv, TypeOK, Calls
    <2>2. InDelete(call'[c]) /\ call'[c].pc # "begin" => call'[c].at > 0
      BY DEF InDelete, InWork
    <2>3. QED
      BY <2>1, <2>2 DEF TimeHolds
  <1>2. ASSUME NEW d \in Caller \ {c} PROVE TimeHolds(call[d])'
    BY DEF TimeInv, TimeHolds, InDelete
  <1>3. ASSUME NEW d \in Caller, NEW e \in Caller, d # e, call'[d].at > 0
        PROVE  call'[d].at # call'[e].at
    <2>1. call[d].at \in Nat /\ call[e].at \in Nat /\ call[c].at \in Nat
      BY Running DEF Calls
    <2>2. QED
      BY <1>3, <2>1 DEF TimeInv
  <1>4. \A d \in Caller : TimeHolds(call[d])'
    BY <1>1, <1>2
  <1>5. horizon' <= now' + 1 /\ \A g \in tombs' : g.at <= now'
    BY DEF TimeInv
  <1>6. QED
    BY <1>3, <1>4, <1>5 DEF TimeInv

(* What most steps do to the time and the group of the call they move. *)
LEMMA StepTimes ==
  ASSUME StateInv, NEW c \in Caller, Begins(c) \/ Step(c),
         ~BeginTx(c), ~Snapshot(c), ~Commit(c), ~RestoreFind(c), ~RestoreWrite(c)
  PROVE  /\ UNCHANGED <<tombs, now, horizon>>
         /\ call'[c].at \in {0, call[c].at}
         /\ call'[c].pc \in InWork => call[c].pc \in InWork /\ call'[c].at = call[c].at
         /\ call'[c].pc \in {"rows", "row", "commit"} =>
              /\ call[c].pc \in {"rows", "row", "commit"}
              /\ call'[c].group = call[c].group /\ call'[c].key = call[c].key
         /\ call'[c].pc # "found"
  <1>1. call \in [Caller -> Calls] /\ call[c] \in Calls
    BY Running
  <1>2. CASE Begins(c)
    <2>1. call'[c].pc \in {"read", "load", "find"} /\ call'[c].at = 0
      <3>1. ASSUME NEW k, CallPreview(c, k) \/ CallConfirm(c, k) \/ CallRestore(c, k)
            PROVE  call'[c].pc \in {"read", "load", "find"} /\ call'[c].at = 0
        BY <1>1, <3>1, ZenonT(40) DEF CallPreview, CallConfirm, CallRestore, Start, Idle
      <3>2. QED
        BY <1>2, <3>1 DEF Begins
    <2>2. UNCHANGED <<tombs, now, horizon>>
      BY <1>2 DEF Begins, CallPreview, CallConfirm, CallRestore, Start, rowVars, timeVars
    <2>3. QED
      BY <2>1, <2>2 DEF InWork
  <1>3. CASE PreviewRead(c) \/ PreviewList(c) \/ IssueSweep(c) \/ IssueSweepDelete(c) \/ IssueCount(c)
             \/ IssueStore(c)
    BY <1>1, <1>3 DEF PreviewRead, PreviewList, IssueSweep, IssueSweepDelete, IssueCount, IssueStore,
       Goto, Return, NoWrite, Idle, InWork, Calls, rowVars, timeVars
  <1>4. CASE LoadToken(c) \/ DropToken(c) \/ SpendToken(c)
    BY <1>1, <1>4 DEF LoadToken, DropToken, SpendToken, Goto, Return, NoWrite, Idle, InWork, Calls,
       rowVars, timeVars
  <1>5. CASE Precheck(c) \/ LockScan(c) \/ LockRow(c) \/ LockDone(c)
    <2>1. CASE Precheck(c)
      BY <1>1, <2>1 DEF Precheck, Goto, Return, NoWrite, Idle, InWork, Calls, rowVars, timeVars
    <2>2. CASE LockScan(c) \/ LockDone(c)
      BY <1>1, <2>2 DEF LockScan, LockDone, Goto, Return, NoWrite, Idle, InWork, Calls, rowVars, timeVars
    <2>3. CASE LockRow(c)
      <3>1. PICK t : call' = [call EXCEPT ![c].scan = @ \ {t},
                               ![c].locked = IF home[t] = call[c].key THEN @ \cup {t} ELSE @]
        BY <2>3 DEF LockRow
      <3>2. call'[c].pc = call[c].pc /\ call'[c].at = call[c].at /\ call[c].pc = "lock"
        BY <1>1, <2>3, <3>1 DEF Calls, LockRow
      <3>3. QED
        BY <2>3, <3>2 DEF LockRow, NoWrite, InWork, rowVars, timeVars
    <2>4. QED
      BY <1>5, <2>1, <2>2, <2>3
  <1>6. CASE DeleteTaskRows(c) \/ DeleteProjectRow(c)
    BY <1>1, <1>6 DEF DeleteTaskRows, DeleteProjectRow, Goto, Return, NoWrite, Idle, InWork, Calls,
       rowVars, timeVars
  <1>7. CASE DeadlockVictim(c) \/ StoreError(c)
    <2>1. call'[c].pc \in {"idle", "begin"} /\ call'[c].at = 0
      <3>1. CASE StoreError(c)
        BY <1>1, <3>1 DEF StoreError, Return, Idle
      <3>2. CASE DeadlockVictim(c)
        <4>1. CASE call' = [call EXCEPT ![c] = Idle]
          BY <1>1, <4>1 DEF Idle
        <4>2. CASE call' = [call EXCEPT ![c] = [Idle EXCEPT !.pc = "begin", !.key = call[c].key,
                                                  !.rec = call[c].rec, !.tries = call[c].tries + 1]]
          <5>1. call'[c] = [Idle EXCEPT !.pc = "begin", !.key = call[c].key,
                                        !.rec = call[c].rec, !.tries = call[c].tries + 1]
            BY <1>1, <4>2
          <5>2. QED
            BY <5>1 DEF Idle
        <4>3. QED
          BY <3>2, <4>1, <4>2 DEF DeadlockVictim, Return
      <3>3. QED
        BY <1>7, <3>1, <3>2
    <2>2. QED
      BY <1>7, <2>1 DEF DeadlockVictim, StoreError, NoWrite, InWork, rowVars, timeVars
  <1>8. QED
    BY <1>2, <1>3, <1>4, <1>5, <1>6, <1>7 DEF Step

LEMMA QuietTimes ==
  ASSUME StateInv, TimeInv, NEW c \in Caller, Begins(c) \/ Step(c),
         ~BeginTx(c), ~Snapshot(c), ~Commit(c), ~RestoreFind(c), ~RestoreWrite(c)
  PROVE  TimeInv'
  <1>1. TimeHolds(call[c])
    BY DEF TimeInv
  <1>2. \A d \in Caller \ {c} : call'[d] = call[d]
    BY OthersStay
  <1>3. call'[c].pc \in InWork => call'[c].at > 0
    BY <1>1, StepTimes DEF TimeHolds, InDelete, InWork
  <1>4. call'[c].pc \in {"rows", "row", "commit"} =>
          call'[c].group.at = call'[c].at /\ call'[c].group.project \in {None, call'[c].key}
    BY <1>1, StepTimes DEF TimeHolds, InWork
  <1>5. QED
    BY <1>2, <1>3, <1>4, StepTimes, TimeQuiet

LEMMA SnapshotTimes ==
  ASSUME StateInv, TimeInv, NEW c \in Caller, Snapshot(c)
  PROVE  TimeInv'
  <1>1. call \in [Caller -> Calls] /\ call[c] \in Calls /\ TimeHolds(call[c])
    BY Running DEF TimeInv
  <1>2. \A d \in Caller \ {c} : call'[d] = call[d]
    BY <1>1 DEF Snapshot
  <1>3. /\ call'[c].pc = "rows" /\ call'[c].at = call[c].at /\ call'[c].key = call[c].key
        /\ call'[c].group.at = call[c].at /\ call'[c].group.project \in {None, call[c].key}
    BY <1>1 DEF Snapshot, Calls
  <1>4. call[c].at > 0
    BY <1>1 DEF TimeHolds, InDelete, Snapshot
  <1>5. UNCHANGED <<tombs, now, horizon>>
    BY DEF Snapshot, NoWrite, rowVars, timeVars
  <1>6. QED
    BY <1>2, <1>3, <1>4, <1>5, TimeQuiet

LEMMA RestoreFindTimes ==
  ASSUME StateInv, TimeInv, NEW c \in Caller, RestoreFind(c)
  PROVE  TimeInv'
  <1>1. call \in [Caller -> Calls] /\ call[c] \in Calls
    BY Running
  <1>2. \A d \in Caller \ {c} : call'[d] = call[d]
    BY <1>1 DEF RestoreFind, Return
  <1>3. UNCHANGED <<tombs, now, horizon>>
    BY DEF RestoreFind, NoWrite, rowVars, timeVars
  <1>4. CASE Return(c)
    <2>1. call'[c].pc = "idle" /\ call'[c].at = 0
      BY <1>1, <1>4 DEF Return, Idle
    <2>2. QED
      BY <1>2, <1>3, <2>1, TimeQuiet DEF InWork
  <1>5. CASE ~Return(c)
    <2>1. PICK g \in Latest(call[c].key) : call' = [call EXCEPT ![c].pc = "found", ![c].group = g]
      BY <1>5 DEF RestoreFind
    <2>2. /\ call'[c].pc = "found" /\ call'[c].group = g /\ call'[c].key = call[c].key
          /\ call'[c].at = call[c].at
      BY <1>1, <2>1 DEF Calls
    <2>3. g.project = call[c].key
      BY <2>1 DEF Latest, Restorable
    <2>4. QED
      BY <1>2, <1>3, <2>2, <2>3, TimeQuiet DEF InWork
  <1>6. QED
    BY <1>4, <1>5

(* A new transaction has a time nothing has yet. *)
LEMMA BeginTxTimes ==
  ASSUME StateInv, TimeInv, NEW c \in Caller, BeginTx(c)
  PROVE  TimeInv'
  <1>1. /\ call \in [Caller -> Calls] /\ call[c] \in Calls
        /\ now \in Nat /\ horizon \in Nat /\ tombs \subseteq Groups
    BY Running DEF StateInv, TypeOK
  <1>2. /\ \A d \in Caller \ {c} : call'[d] = call[d]
        /\ UNCHANGED <<tombs, horizon>> /\ now' = now + 1
        /\ call'[c].at = now + 1 /\ call'[c].pc = "precheck"
    BY <1>1 DEF BeginTx, Calls, rowVars
  <1>3. \A d \in Caller : call[d].at \in Nat /\ call[d].at <= now
    BY <1>1 DEF TimeInv, TimeHolds, Calls
  <1>4. \A g \in tombs : g.at \in Nat /\ g.at <= now
    BY <1>1 DEF TimeInv, Groups
  <1>5. TimeHolds(call[c])'
    BY <1>1, <1>2, <1>4 DEF TimeHolds, TimeInv
  <1>6. ASSUME NEW d \in Caller \ {c} PROVE TimeHolds(call[d])'
    <2>1. TimeHolds(call[d])
      BY DEF TimeInv
    <2>2. QED
      BY <1>1, <1>2, <1>3, <2>1 DEF TimeHolds, InDelete
  <1>7. \A d, e \in Caller : d # e /\ call'[d].at > 0 => call'[d].at # call'[e].at
    BY <1>1, <1>2, <1>3 DEF TimeInv
  <1>8. horizon' <= now' + 1 /\ \A g \in tombs' : g.at <= now'
    BY <1>1, <1>2, <1>4 DEF TimeInv
  <1>9. QED
    BY <1>5, <1>6, <1>7, <1>8 DEF TimeInv

(* A call ends, and every group is one there was or has the call's time. *)
LEMMA EndTimes ==
  ASSUME StateInv, TimeInv, NEW c \in Caller, Return(c), NEW new \in SUBSET Groups,
         tombs' \subseteq tombs \cup new, UNCHANGED <<now, horizon>>,
         \A g \in new : call[c].at > 0 /\ g.at = call[c].at
  PROVE  TimeInv'
  <1>1. call \in [Caller -> Calls] /\ call[c] \in Calls /\ now \in Nat
    BY Running DEF StateInv, TypeOK
  <1>2. call' = [call EXCEPT ![c] = Idle] /\ Idle.at = 0 /\ Idle.pc = "idle"
    BY DEF Return, Idle
  <1>3. \A d \in Caller : call[d].at \in Nat /\ TimeHolds(call[d])
    BY <1>1 DEF TimeInv, Calls
  <1>4. TimeHolds(call[c])'
    BY <1>1, <1>2 DEF TimeHolds, InDelete
  <1>5. ASSUME NEW d \in Caller \ {c} PROVE TimeHolds(call[d])'
    <2>1. call'[d] = call[d]
      BY <1>1, <1>2
    <2>2. call[d].at > 0 => \A g \in tombs' : g.at # call[d].at
      BY <1>3 DEF TimeHolds, TimeInv
    <2>3. QED
      BY <1>3, <2>1, <2>2 DEF TimeHolds, InDelete
  <1>6. \A d, e \in Caller : d # e /\ call'[d].at > 0 => call'[d].at # call'[e].at
    BY <1>1, <1>2, <1>3 DEF TimeInv
  <1>7. horizon' <= now' + 1 /\ \A g \in tombs' : g.at <= now'
    BY <1>3 DEF TimeInv, TimeHolds
  <1>8. QED
    BY <1>4, <1>5, <1>6, <1>7 DEF TimeInv

LEMMA CommitTimes ==
  ASSUME StateInv, TimeInv, NEW c \in Caller, Commit(c)
  PROVE  TimeInv'
  <1>1. call[c] \in Calls /\ tombs \subseteq Groups
    BY Running DEF StateInv, TypeOK
  <1>2. TimeHolds(call[c]) /\ call[c].pc = "commit"
    BY DEF TimeInv, Commit
  <1>3. call[c].at > 0 /\ call[c].group.at = call[c].at /\ call[c].group \in Groups
    BY <1>1, <1>2 DEF TimeHolds, InDelete, Calls
  <1>4. tombs' \subseteq tombs \cup {call[c].group}
    BY DEF Commit
  <1>5. Return(c) /\ UNCHANGED <<now, horizon>>
    BY DEF Commit, timeVars
  <1>6. {call[c].group} \in SUBSET Groups
    BY <1>3
  <1>7. \A g \in {call[c].group} : call[c].at > 0 /\ g.at = call[c].at
    BY <1>3
  <1>8. QED
    BY <1>4, <1>5, <1>6, <1>7, EndTimes

LEMMA RestoreWriteTimes ==
  ASSUME StateInv, TimeInv, NEW c \in Caller, RestoreWrite(c)
  PROVE  TimeInv'
  <1>1. tombs' \subseteq tombs \cup {}
    BY DEF RestoreWrite, Consumed, rowVars
  <1>2. Return(c) /\ UNCHANGED <<now, horizon>>
    BY DEF RestoreWrite, timeVars
  <1>3. {} \in SUBSET Groups /\ \A g \in {} : call[c].at > 0 /\ g.at = call[c].at
    OBVIOUS
  <1>4. QED
    BY <1>1, <1>2, <1>3, EndTimes

(* What happens around the calls: only the horizon moves, as far as no      *)
(* running delete is old, and groups only go.                               *)
LEMMA AroundTimes ==
  ASSUME StateInv, TimeInv, Background
  PROVE  TimeInv'
  <1>1. UNCHANGED <<call, now>> /\ tombs' \subseteq tombs
    BY DEF Background, CreateTask, MoveTask, ExpireToken, Age, PruneDeletionTombstones, rowVars, timeVars
  <1>2. /\ horizon' <= now + 1
        /\ \A c \in Caller : call[c].at > 0 => horizon' <= call[c].at
    <2>1. CASE horizon' = horizon
      BY <2>1 DEF TimeInv, TimeHolds
    <2>2. CASE horizon' # horizon
      BY <2>2 DEF Background, CreateTask, MoveTask, ExpireToken, Age, PruneDeletionTombstones, timeVars
    <2>3. QED
      BY <2>1, <2>2
  <1>3. QED
    BY <1>1, <1>2 DEF TimeInv, TimeHolds, InDelete

LEMMA InitTimes == Init => TimeInv
  BY DEF Init, TimeInv, TimeHolds, InDelete, Idle

LEMMA NextTimes ==
  ASSUME StateInv, TimeInv, [Next]_vars
  PROVE  TimeInv'
  <1>1. CASE Background
    BY <1>1, AroundTimes
  <1>2. ASSUME NEW c \in Caller, Begins(c) \/ Step(c) PROVE TimeInv'
    BY <1>2, QuietTimes, BeginTxTimes, SnapshotTimes, CommitTimes, RestoreFindTimes, RestoreWriteTimes
  <1>3. CASE UNCHANGED vars
    BY <1>3 DEF vars, rowVars, timeVars, TimeInv, TimeHolds, InDelete
  <1>4. QED
    BY <1>1, <1>2, <1>3 DEF Next

(* Beside StateInv: a delete's time is its own, no younger than what         *)
(* retention has dropped, and on the group it writes.                        *)
THEOREM DeletionInvariant == Spec => []DeletionInv
  <1>1. Init => TimeInv
    BY InitTimes
  <1>2. StateInv /\ TimeInv /\ [Next]_vars => TimeInv'
    BY NextTimes
  <1>3. StateInv /\ TimeInv => DeletionInv
    BY DEF DeletionInv
  <1>4. QED
    BY <1>1, <1>2, <1>3, StateInvariant, PTL DEF Spec

------------------------------------------------------------------------------
(* The tombstones implement the ledger *)

(* A commit moves the locked tasks into the snapshot's group.  The rows that *)
(* the same transaction prunes are older than what the call's cutoff keeps.  *)
LEMMA CommitKeepsLedger ==
  ASSUME DeletionInv, NEW c \in Caller, Commit(c)
  PROVE  Ledger!Next
  <1> DEFINE g == call[c].group
  <1>1. /\ call[c] \in Calls /\ tombs \subseteq Groups /\ horizon \in Nat
        /\ CallInv(call[c]) /\ TimeHolds(call[c]) /\ call[c].pc = "commit"
    BY Running DEF DeletionInv, StateInv, TypeOK, TimeInv, Commit
  <1>2. /\ g \in Groups /\ g.at = call[c].at /\ g.project \in {None, call[c].key}
        /\ g.tasks = call[c].locked /\ g.at > 0 /\ call[c].cutoff \in Nat
        /\ call[c].cutoff <= horizon /\ horizon <= g.at /\ call[c].key \in Key
        /\ \A h \in tombs : h.at # g.at
    BY <1>1 DEF TimeHolds, CallInv, InDelete, Calls
  <1>3. \A h \in tombs : h.at \in Nat
    BY <1>1 DEF Groups
  <1>4. /\ home' = [t \in Task |-> IF t \in g.tasks THEN Gone ELSE home[t]]
        /\ tombs' = {h \in tombs : h.at >= call[c].cutoff}
                      \cup {h \in {g} : h.project # None \/ h.tasks # {}}
    BY <1>2 DEF Commit
  <1>5. Ledger!OldestFirst
    <2>1. ASSUME NEW h \in tombs \ tombs', NEW k \in tombs' PROVE h.at < k.at
      <3>1. h.at \in Nat /\ h.at < call[c].cutoff
        BY <1>2, <1>3, <1>4
      <3>2. k.at \in Nat /\ call[c].cutoff <= k.at
        BY <1>1, <1>2, <1>3, <1>4 DEF Groups
      <3>3. QED
        BY <1>2, <3>1, <3>2
    <2>2. QED
      BY <2>1 DEF Ledger!OldestFirst
  <1>6. CASE g.project # None \/ g.tasks # {}
    <2>1. g \in tombs' /\ tombs' \ tombs = {g}
      BY <1>2, <1>4, <1>6
    <2>2. g.tasks \subseteq Task
      BY <1>2 DEF Groups
    <2>3. \A t \in g.tasks : Ledger!Live(t) /\ g.project \in {None, home[t]}
      <3>1. CASE call[c].key \in Project
        BY <1>1, <1>2, <3>1 DEF CallInv, Ledger!Live, Places
      <3>2. CASE call[c].key \notin Project
        <4>1. g.project = None
          BY <1>2, <3>2 DEF Groups
        <4>2. QED
          BY <1>1, <1>2, <3>2, <4>1 DEF CallInv, Live, Ledger!Live
      <3>3. QED
        BY <3>1, <3>2
    <2>4. Ledger!Delete(g)
      BY <1>2, <1>4, <1>5, <2>1, <2>2, <2>3 DEF Ledger!Delete
    <2>5. QED
      BY <2>1, <2>4 DEF Ledger!Next
  <1>7. CASE g.project = None /\ g.tasks = {}
    <2>1. tombs' \subseteq tombs /\ home' = [t \in Task |-> home[t]]
      BY <1>4, <1>7
    <2>2. home' = home
      BY <2>1 DEF DeletionInv, StateInv, TypeOK
    <2>3. QED
      BY <1>5, <2>1, <2>2 DEF Ledger!Next, Ledger!Forget
  <1>8. QED
    BY <1>6, <1>7

(* A restore that finds its ids free puts the group it holds back. *)
LEMMA RestoreKeepsLedger ==
  ASSUME DeletionInv, NEW c \in Caller, RestoreWrite(c)
  PROVE  [Ledger!Next]_<<home, tombs>>
  <1> DEFINE g == call[c].group
  <1>1. CallInv(call[c]) /\ TimeHolds(call[c]) /\ call[c].pc = "found"
    BY DEF DeletionInv, StateInv, TimeInv, RestoreWrite
  <1>2. g \in tombs /\ g.project = call[c].key /\ call[c].key \in Project
    BY <1>1 DEF CallInv, TimeHolds
  <1>3. \A t \in g.tasks : home[t] = Gone
    BY <1>2 DEF DeletionInv, StateInv, OneTombstonePerTask
  <1>4. CASE UNCHANGED rowVars
    BY <1>4 DEF rowVars
  <1>5. CASE ~UNCHANGED rowVars
    <2>1. /\ home' = [t \in Task |-> IF t \in g.tasks THEN g.project ELSE home[t]]
          /\ tombs' = tombs \ {g}
      BY <1>2, <1>5 DEF RestoreWrite, Consumed
    <2>2. Ledger!Restore(g)
      BY <1>2, <1>3, <2>1 DEF Ledger!Restore, Places
    <2>3. QED
      BY <1>2, <2>2 DEF Ledger!Next
  <1>6. QED
    BY <1>4, <1>5

LEMMA AroundKeepsLedger ==
  ASSUME DeletionInv, Background
  PROVE  [Ledger!Next]_<<home, tombs>>
  <1>1. CASE \E t \in Task, h \in Places : CreateTask(t, h) \/ MoveTask(t, h)
    BY <1>1 DEF CreateTask, MoveTask, Live, Ledger!Next, Ledger!Settle, Ledger!Live
  <1>2. CASE (\E k \in Key : ExpireToken(k)) \/ (\E n \in 1..now + 1 : Age(n))
    BY <1>2 DEF ExpireToken, Age, rowVars
  <1>3. CASE PruneDeletionTombstones
    <2>1. \A g \in tombs : g.at \in Nat
      BY DEF DeletionInv, StateInv, TypeOK, Groups
    <2>2. horizon \in Nat
      BY DEF DeletionInv, StateInv, TypeOK
    <2>3. Ledger!Forget
      BY <1>3, <2>1, <2>2 DEF PruneDeletionTombstones, Ledger!Forget, Ledger!OldestFirst
    <2>4. QED
      BY <2>3 DEF Ledger!Next
  <1>4. QED
    BY <1>1, <1>2, <1>3 DEF Background

(* Deletes, restores, prunes and the writes around them change tasks and     *)
(* groups as TombstoneLedger allows: a whole group at a time.                *)
THEOREM KeepsLedger == Spec => LedgerKept
  <1>1. Init => Ledger!Init
    BY DEF Init, Ledger!Init
  <1>2. DeletionInv /\ [Next]_vars => [Ledger!Next]_<<home, tombs>>
    <2>1. SUFFICES ASSUME DeletionInv, [Next]_vars PROVE [Ledger!Next]_<<home, tombs>>
      OBVIOUS
    <2>2. ASSUME NEW c \in Caller, Begins(c) \/ Step(c) PROVE [Ledger!Next]_<<home, tombs>>
      <3>1. CASE Commit(c)
        BY <2>1, <3>1, CommitKeepsLedger
      <3>2. CASE RestoreWrite(c)
        BY <2>1, <3>2, RestoreKeepsLedger
      <3>3. CASE ~Commit(c) /\ ~RestoreWrite(c)
        <4>1. UNCHANGED rowVars
          BY <2>1, <2>2, <3>3, RowsStay
        <4>2. QED
          BY <4>1 DEF rowVars
      <3>4. QED
        BY <3>1, <3>2, <3>3
    <2>3. QED
      BY <2>1, <2>2, AroundKeepsLedger DEF Next, vars, rowVars
  <1>3. QED
    BY <1>1, <1>2, DeletionInvariant, PTL DEF Spec, LedgerKept, Ledger!Spec

LedgerTyped ==
  /\ home \in [Task -> Places \cup {Unborn, Gone}]
  /\ \A g \in tombs : g.tasks \subseteq Task

LEMMA LedgerStep ==
  ASSUME LedgerTyped, Ledger!Consistent, Ledger!Next
  PROVE  LedgerTyped' /\ Ledger!Consistent'
  <1>1. Gone \notin Places /\ Unborn \notin Places /\ Gone # Unborn
    BY GoneIsNotLive DEF Gone, Unborn
  <1>2. ASSUME NEW t \in Task, NEW h \in Places, Ledger!Settle(t, h)
        PROVE  LedgerTyped' /\ Ledger!Consistent'
    BY <1>1, <1>2 DEF LedgerTyped, Ledger!Consistent, Ledger!Settle, Ledger!Live
  <1>3. ASSUME NEW g \in tombs', Ledger!Delete(g)
        PROVE  LedgerTyped' /\ Ledger!Consistent'
    <2>1. /\ tombs' \subseteq tombs \cup {g} /\ g.tasks \subseteq Task
          /\ \A t \in g.tasks : home[t] \in Places
          /\ home' = [t \in Task |-> IF t \in g.tasks THEN Gone ELSE home[t]]
      BY <1>3 DEF Ledger!Delete, Ledger!Live
    <2>2. \A h \in tombs : h.tasks \cap g.tasks = {}
      BY <1>1, <2>1 DEF Ledger!Consistent
    <2>3. \A h \in tombs' : \A t \in h.tasks : home'[t] = Gone
      BY <2>1 DEF LedgerTyped, Ledger!Consistent
    <2>4. \A h, k \in tombs' : h.tasks \cap k.tasks # {} => h = k
      BY <2>1, <2>2 DEF Ledger!Consistent
    <2>5. LedgerTyped'
      BY <2>1 DEF LedgerTyped
    <2>6. QED
      BY <2>3, <2>4, <2>5 DEF Ledger!Consistent
  <1>4. ASSUME NEW g \in tombs, Ledger!Restore(g)
        PROVE  LedgerTyped' /\ Ledger!Consistent'
    BY <1>4 DEF LedgerTyped, Ledger!Consistent, Ledger!Restore
  <1>5. CASE Ledger!Forget
    BY <1>5 DEF LedgerTyped, Ledger!Consistent, Ledger!Forget
  <1>6. QED
    BY <1>2, <1>3, <1>4, <1>5 DEF Ledger!Next

(* Whatever keeps the ledger has no deleted task in two groups and no other  *)
(* task in any: the promise is enough, whichever statements keep it.         *)
THEOREM LedgerIsConsistent == LedgerKept => []Ledger!Consistent
  <1>1. Ledger!Init => LedgerTyped /\ Ledger!Consistent
    BY DEF Ledger!Init, LedgerTyped, Ledger!Consistent
  <1>2. LedgerTyped /\ Ledger!Consistent /\ [Ledger!Next]_<<home, tombs>> =>
          LedgerTyped' /\ Ledger!Consistent'
    <2>1. CASE UNCHANGED <<home, tombs>>
      BY <2>1 DEF LedgerTyped, Ledger!Consistent
    <2>2. QED
      BY <2>1, LedgerStep
  <1>3. QED
    BY <1>1, <1>2, PTL DEF LedgerKept, Ledger!Spec

=============================================================================
