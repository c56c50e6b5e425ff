------------------------ MODULE ProposalConfirmProofs ------------------------
(***************************************************************************)
(* Proofs about ProposalConfirm, for every set of callers and proposals,   *)
(* every pool and both backends.  Types and the finality of a resolution   *)
(* are proved for every type and entry point; that the code implements     *)
(* ProposalPromise, and that one caller wins, where each accept writes its *)
(* entity in the transaction that resolves the proposal (Accepts           *)
(* \subseteq InTx): the seam's types over HTTP, and in the MCP server every *)
(* type but knowledge, playbook and, on SQLite, task.  On the one          *)
(* connection of SQLite every accept materialises once, wherever it writes.*)
(***************************************************************************)
EXTENDS ProposalConfirm, FiniteSetTheorems, TLAPS

(* What every step does to the rows: none is forgotten, none changes type. *)
RowsKept ==
  \A p \in Proposal : proposals[p].status # "unborn" =>
    proposals'[p].status # "unborn" /\ proposals'[p].type = proposals[p].type

(* A call that did not move keeps its part of the invariant. *)
LEMMA CallKept ==
  ASSUME NEW r, CallInv(r), RowsKept
  PROVE  CallInv(r)'
  <1>1. \A i \in 1..Len(r.ids) : r.ids[i] \in Proposal
    BY DEF CallInv, Calls
  <1>2. \A i \in 1..Len(r.ids) : proposals'[r.ids[i]].status # "unborn"
    BY <1>1 DEF CallInv, RowsKept
  <1>3. r.op = "accept" => <<r.entry, proposals'[r.ids[1]].type>> \in Accepts
    BY <1>1 DEF CallInv, RowsKept
  <1>4. QED
    BY <1>2, <1>3 DEF CallInv

(* The invariant after a step of one caller. *)
LEMMA Preserve ==
  ASSUME ConfirmInv, NEW c \in Caller, NEW r, CallInv(r)', call' = [call EXCEPT ![c] = r],
         proposals' \in [Proposal -> Rows], created' \in [Proposal -> Nat], calls' \in Nat,
         lock' \in [Proposal -> Caller \cup {Nobody}],
         RowsKept, \A p \in Proposal : LockInv(p)'
  PROVE  ConfirmInv'
  <1>1. call \in [Caller -> Calls] /\ r \in Calls
    BY DEF ConfirmInv, TypeOK, CallInv
  <1>2. \A d \in Caller : CallInv(call[d])'
    <2> TAKE d \in Caller
    <2>1. CASE d = c
      BY <2>1, <1>1
    <2>2. CASE d # c
      <3>1. CallInv(call[d])
        BY DEF ConfirmInv
      <3>2. call'[d] = call[d]
        BY <2>2, <1>1
      <3>3. ASSUME NEW s, s = call[d] PROVE CallInv(s)'
        BY <3>1, <3>3, CallKept
      <3>4. QED
        BY <3>2, <3>3 DEF CallInv
    <2>3. QED
      BY <2>1, <2>2
  <1>3. QED
    BY <1>1, <1>2 DEF ConfirmInv, TypeOK

(* A step that writes nothing, of a call that holds no lock. *)
LEMMA MoveInv ==
  ASSUME ConfirmInv, NEW c \in Caller, NEW r, CallInv(r), call' = [call EXCEPT ![c] = r],
         call[c].pc \notin {"resolve", "commit"},
         UNCHANGED <<proposals, created, lock>>, calls' \in Nat
  PROVE  ConfirmInv'
  <1>1. RowsKept
    BY DEF RowsKept
  <1>2. CallInv(r)'
    BY <1>1, CallKept
  <1>3. ASSUME NEW p \in Proposal PROVE LockInv(p)'
    <2>1. lock[p] # c /\ lock[p] \in Caller \cup {Nobody}
      BY NobodyAssumption DEF ConfirmInv, LockInv, TypeOK
    <2>2. lock[p] # Nobody => call'[lock[p]] = call[lock[p]]
      BY <2>1 DEF ConfirmInv, TypeOK
    <2>3. QED
      BY <2>2 DEF ConfirmInv, LockInv, Id
  <1>4. QED
    BY <1>1, <1>2, <1>3, Preserve DEF ConfirmInv, TypeOK

(* A step that gives up every lock of the call. *)
LEMMA ReleaseInv ==
  ASSUME ConfirmInv, NEW c \in Caller, NEW r, CallInv(r), call' = [call EXCEPT ![c] = r],
         lock' = Released(c), calls' = calls, RowsKept,
         proposals' \in [Proposal -> Rows], created' \in [Proposal -> Nat],
         \A p \in Proposal : lock[p] \in Caller \ {c} => proposals'[p] = proposals[p]
  PROVE  ConfirmInv'
  <1>1. CallInv(r)'
    BY CallKept
  <1>2. lock \in [Proposal -> Caller \cup {Nobody}] /\ call \in [Caller -> Calls] /\ calls \in Nat
    BY DEF ConfirmInv, TypeOK
  <1>3. lock' \in [Proposal -> Caller \cup {Nobody}]
    BY <1>2 DEF Released
  <1>4. ASSUME NEW p \in Proposal PROVE LockInv(p)'
    <2>1. SUFFICES ASSUME lock'[p] # Nobody PROVE LockInv(p)'
      BY DEF LockInv
    <2>2. lock[p] # c /\ lock'[p] = lock[p] /\ lock[p] \in Caller
      BY <1>2, <2>1 DEF Released
    <2>3. call'[lock[p]] = call[lock[p]] /\ proposals'[p] = proposals[p]
      BY <1>2, <2>2
    <2>4. QED
      BY <2>2, <2>3 DEF ConfirmInv, LockInv, Id
  <1>5. QED
    BY <1>1, <1>2, <1>3, <1>4, Preserve

LEMMA ReturnedCall ==
  ASSUME NEW r \in Calls, NEW res \in {"ok", "gone", "error"}
  PROVE  [r EXCEPT !.pc = "done", !.tx = FALSE, !.staged = 0, !.result = res] \in Calls
  <1>1. "done" \in PCs
    BY DEF PCs
  <1>2. 0 \in 0..1
    BY SMT
  <1>3. res \in {"none", "ok", "gone", "error"}
    OBVIOUS
  <1>4. QED
    BY <1>1, <1>2, <1>3 DEF Calls

LEMMA ReturnedType ==
  ASSUME ConfirmInv, NEW c \in Caller, NEW res \in {"ok", "gone", "error"}
  PROVE  CallInv([call[c] EXCEPT !.pc = "done", !.tx = FALSE, !.staged = 0, !.result = res])
  <1> DEFINE r == call[c]
             s == [r EXCEPT !.pc = "done", !.tx = FALSE, !.staged = 0, !.result = res]
  <1>1. CallInv(r) /\ r \in Calls
    BY DEF ConfirmInv, TypeOK
  <1>2. s \in Calls
    BY <1>1, ReturnedCall
  <1>3. /\ s.op = r.op /\ s.entry = r.entry /\ s.ids = r.ids /\ s.k = r.k
        /\ s.pc = "done" /\ s.staged = 0
    BY <1>1 DEF Calls
  <1> HIDE DEF r, s
  <1>4. CallInv(s)
    BY <1>1, <1>2, <1>3 DEF CallInv
  <1>5. QED
    BY <1>4 DEF r, s

LEMMA ReturnEq ==
  ASSUME ConfirmInv, NEW c \in Caller, NEW res, Return(c, res)
  PROVE  call' = [call EXCEPT ![c] = [call[c] EXCEPT !.pc = "done", !.tx = FALSE,
                                                     !.staged = 0, !.result = res]]
  BY DEF Return, ConfirmInv, TypeOK

LEMMA RollbackInv ==
  ASSUME ConfirmInv, NEW c \in Caller, NEW res \in {"ok", "gone", "error"}, Rollback(c, res)
  PROVE  ConfirmInv'
  <1>1. UNCHANGED <<proposals, created>> /\ RowsKept
    BY DEF Rollback, RowsKept
  <1>2. lock' = Released(c) /\ calls' = calls /\ Return(c, res)
    BY DEF Rollback
  <1>3. proposals' \in [Proposal -> Rows] /\ created' \in [Proposal -> Nat]
    BY <1>1 DEF ConfirmInv, TypeOK
  <1>4. QED
    BY <1>1, <1>2, <1>3, ReturnedType, ReturnEq, ReleaseInv, ZenonT(40)

(* Writes by the prune and the producers: only unlocked rows. *)
LEMMA BackgroundWrite ==
  ASSUME ConfirmInv, UNCHANGED <<created, lock, call, calls>>, RowsKept,
         proposals' \in [Proposal -> Rows],
         \A p \in Proposal : lock[p] # Nobody => proposals'[p] = proposals[p]
  PROVE  ConfirmInv'
  <1>1. ASSUME NEW c \in Caller PROVE CallInv(call[c])'
    <2>1. CallInv(call[c]) /\ call'[c] = call[c]
      BY DEF ConfirmInv
    <2>2. ASSUME NEW s, s = call[c] PROVE CallInv(s)'
      BY <2>1, <2>2, CallKept
    <2>3. QED
      BY <2>1, <2>2 DEF CallInv
  <1>2. ASSUME NEW p \in Proposal PROVE LockInv(p)'
    BY DEF ConfirmInv, LockInv, Id
  <1>3. TypeOK'
    BY DEF ConfirmInv, TypeOK
  <1>4. QED
    BY <1>1, <1>2, <1>3 DEF ConfirmInv

------------------------------------------------------------------------------
(* The steps of a call *)

(* The proposal a running call is about. *)
LEMMA Running ==
  ASSUME ConfirmInv, NEW c \in Caller, call[c].pc \notin {"idle", "done"}
  PROVE  /\ call[c] \in Calls
         /\ CallInv(call[c])
         /\ call[c].k \in 1..Len(call[c].ids)
         /\ Id(c) \in Proposal
         /\ proposals[Id(c)] \in Rows
         /\ proposals[Id(c)].status # "unborn"
  <1>1. call[c] \in Calls /\ CallInv(call[c]) /\ proposals \in [Proposal -> Rows]
    BY DEF ConfirmInv, TypeOK
  <1>2. call[c].k \in 1..Len(call[c].ids)
    BY <1>1 DEF CallInv
  <1>3. call[c].ids \in Seq(Proposal)
    BY <1>1 DEF Calls
  <1>4. Id(c) \in Proposal
    BY <1>2, <1>3 DEF Id
  <1>5. proposals[Id(c)].status # "unborn"
    BY <1>1, <1>2 DEF Id, CallInv
  <1>6. QED
    BY <1>1, <1>2, <1>4, <1>5

(* An accept is of a pair its caller may accept. *)
LEMMA AcceptOfPair ==
  ASSUME ConfirmInv, NEW c \in Caller, call[c].pc \notin {"idle", "done"}, call[c].op = "accept"
  PROVE  Accepted(c) \in Accepts /\ call[c].entry \in Entries /\ Type(c) \in AllTypes
  <1>1. Accepted(c) \in Accepts
    BY Running DEF CallInv, Accepted, Type, Id
  <1>2. call[c].entry \in Entries /\ Type(c) \in AllTypes
    BY Running DEF Calls, Rows, Type
  <1>3. QED
    BY <1>1, <1>2

(* When every pair is written in the transaction, no accept writes elsewhere. *)
LEMMA WrittenInTx ==
  ASSUME Accepts \subseteq InTx, ConfirmInv, NEW c \in Caller,
         call[c].pc \notin {"idle", "done"}, call[c].op = "accept"
  PROVE  /\ ~WrittenOnPool(call[c].entry, Type(c))
         /\ ~WrittenAfterCommit(call[c].entry, Type(c))
         /\ ~NeverWritten(call[c].entry, Type(c))
  <1>1. Accepted(c) \in InTx
    BY AcceptOfPair
  <1>2. QED
    BY <1>1 DEF InTx, Accepted

(* The steps of an accept that only move its program counter. *)
LEMMA MovedCall ==
  ASSUME NEW r, CallInv(r), r.op = "accept", r.pc \in {"get", "read", "prepare", "begin"},
         NEW pc \in {"get", "read", "prepare", "begin", "materialize"}, NEW tx \in BOOLEAN
  PROVE  CallInv([r EXCEPT !.pc = pc, !.tx = tx])
  <1> DEFINE s == [r EXCEPT !.pc = pc, !.tx = tx]
  <1>1. r \in Calls /\ pc \in PCs
    BY DEF CallInv, PCs
  <1>2. s \in Calls
    BY <1>1 DEF Calls
  <1>3. /\ s.op = r.op /\ s.entry = r.entry /\ s.ids = r.ids /\ s.k = r.k
        /\ s.pc = pc /\ s.staged = r.staged
    BY <1>1 DEF Calls
  <1> HIDE DEF s
  <1>4. CallInv(s)
    BY <1>1, <1>2, <1>3 DEF CallInv
  <1>5. QED
    BY <1>4 DEF s

LEMMA GotoInv ==
  ASSUME ConfirmInv, NEW c \in Caller, call[c].op = "accept",
         call[c].pc \in {"get", "read", "prepare", "begin"},
         NEW pc \in {"get", "read", "prepare", "begin", "materialize"}, Goto(c, pc), NoWrite
  PROVE  ConfirmInv'
  <1>1. CallInv(call[c]) /\ call[c] \in Calls /\ call \in [Caller -> Calls] /\ calls \in Nat
    BY DEF ConfirmInv, TypeOK
  <1> DEFINE s == [call[c] EXCEPT !.pc = pc, !.tx = call[c].tx]
  <1>2. CallInv(s)
    BY <1>1, MovedCall DEF Calls
  <1>3. call' = [call EXCEPT ![c] = s]
    BY <1>1 DEF Goto, Calls
  <1> HIDE DEF s
  <1>4. QED
    BY <1>1, <1>2, <1>3, MoveInv DEF NoWrite

(* A call as it starts. *)
LEMMA IdleCall == Idle \in Calls
  <1>1. 0 \in 0..1 /\ 1 \in Nat
    BY SMT
  <1>2. "idle" \in PCs /\ "mcp" \in Entries
    BY DEF PCs, Entries
  <1>3. <<>> \in Seq(Proposal)
    OBVIOUS
  <1>4. /\ "none" \in {"none", "ok", "gone", "error"}
        /\ "none" \in {"none", "accept", "reject", "batch"}
        /\ FALSE \in BOOLEAN
    OBVIOUS
  <1>5. QED
    BY <1>1, <1>2, <1>3, <1>4 DEF Idle, Calls

LEMMA StartedCall ==
  ASSUME NEW op \in {"accept", "reject", "batch"}, NEW entry \in Entries,
         NEW ids \in Seq(Proposal), NEW pc \in PCs
  PROVE  /\ [Idle EXCEPT !.op = op, !.entry = entry, !.ids = ids, !.pc = pc] \in Calls
         /\ [Idle EXCEPT !.op = op, !.ids = ids, !.pc = pc] \in Calls
  BY IdleCall DEF Calls

LEMMA StartInv ==
  ASSUME ConfirmInv, NEW c \in Caller, NEW r, CallInv(r), Start(c, r)
  PROVE  ConfirmInv'
  <1>1. call' = [call EXCEPT ![c] = r] /\ UNCHANGED <<proposals, created, lock>>
    BY DEF Start
  <1>2. calls' \in Nat
    BY DEF Start, ConfirmInv, TypeOK
  <1>3. call[c].pc \notin {"resolve", "commit"}
    BY DEF Start
  <1>4. QED
    BY <1>1, <1>2, <1>3, MoveInv

LEMMA BeginsInv ==
  ASSUME ConfirmInv, NEW c \in Caller, Begins(c)
  PROVE  ConfirmInv'
  <1>1. ASSUME NEW p \in Proposal, NEW entry \in Entries, CallAccept(c, p, entry)
        PROVE  ConfirmInv'
    <2> DEFINE pc == IF entry = "mcp" /\ Backend = "postgres" THEN "begin" ELSE "get"
               r == [Idle EXCEPT !.op = "accept", !.entry = entry, !.ids = <<p>>, !.pc = pc]
    <2>1. Start(c, r) /\ <<entry, proposals[p].type>> \in Accepts
      BY <1>1 DEF CallAccept
    <2>2. pc \in {"begin", "get"} /\ pc \in PCs
      BY DEF PCs
    <2> HIDE DEF pc
    <2>3. r \in Calls
      <3>1. <<p>> \in Seq(Proposal) /\ "accept" \in {"accept", "reject", "batch"}
        OBVIOUS
      <3>2. QED
        BY <2>2, <3>1, StartedCall
    <2>4. /\ r.op = "accept" /\ r.entry = entry /\ r.ids = <<p>> /\ r.pc = pc
          /\ r.k = 1 /\ r.staged = 0
      <3>1. Idle.k = 1 /\ Idle.staged = 0
        BY DEF Idle
      <3>2. QED
        BY <3>1, IdleCall DEF Calls
    <2> HIDE DEF r
    <2>5. Len(r.ids) = 1 /\ r.ids[1] = p /\ DOMAIN r.ids = {1}
      BY <2>4
    <2>6. proposals[p].status # "unborn"
      BY <2>1, <2>5 DEF Start
    <2>7. CallInv(r)
      BY <2>1, <2>2, <2>3, <2>4, <2>5, <2>6 DEF CallInv
    <2>8. QED
      BY <2>1, <2>7, StartInv
  <1>2. ASSUME NEW p \in Proposal, CallReject(c, p)
        PROVE  ConfirmInv'
    <2> DEFINE r == [Idle EXCEPT !.op = "reject", !.ids = <<p>>, !.pc = "resolve_only"]
    <2>1. Start(c, r)
      BY <1>2 DEF CallReject
    <2>2. r \in Calls
      <3>1. "resolve_only" \in PCs /\ <<p>> \in Seq(Proposal) /\ "mcp" \in Entries
        BY DEF PCs, Entries
      <3>2. QED
        BY <3>1, StartedCall
    <2>3. r.op = "reject" /\ r.ids = <<p>> /\ r.pc = "resolve_only" /\ r.k = 1 /\ r.staged = 0
      BY DEF Idle
    <2> HIDE DEF r
    <2>4. Len(r.ids) = 1 /\ r.ids[1] = p /\ DOMAIN r.ids = {1}
      BY <2>3
    <2>5. proposals[p].status # "unborn"
      BY <2>1, <2>4 DEF Start
    <2>6. CallInv(r)
      BY <2>2, <2>3, <2>4, <2>5 DEF CallInv
    <2>7. QED
      BY <2>1, <2>6, StartInv
  <1>3. ASSUME NEW p \in Proposal, NEW q \in Proposal, CallBatchReject(c, <<p, q>>)
        PROVE  ConfirmInv'
    <2> DEFINE r == [Idle EXCEPT !.op = "batch", !.ids = <<p, q>>, !.pc = "begin"]
    <2>1. Start(c, r)
      BY <1>3 DEF CallBatchReject
    <2>2. r \in Calls
      <3>1. "begin" \in PCs /\ <<p, q>> \in Seq(Proposal) /\ "mcp" \in Entries
        BY DEF PCs, Entries
      <3>2. QED
        BY <3>1, StartedCall
    <2>3. r.op = "batch" /\ r.ids = <<p, q>> /\ r.pc = "begin" /\ r.k = 1 /\ r.staged = 0
      BY DEF Idle
    <2> HIDE DEF r
    <2>4. Len(r.ids) = 2 /\ DOMAIN r.ids = 1..2
      BY <2>3
    <2>5. \A i \in 1..Len(r.ids) : proposals[r.ids[i]].status # "unborn"
      BY <2>1, <2>4 DEF Start
    <2>6. CallInv(r)
      BY <2>2, <2>3, <2>4, <2>5 DEF CallInv
    <2>7. QED
      BY <2>1, <2>6, StartInv
  <1>4. QED
    BY <1>1, <1>2, <1>3 DEF Begins

LEMMA GetInv ==
  ASSUME Accepts \subseteq InTx, ConfirmInv, NEW c \in Caller, Get(c)
  PROVE  ConfirmInv'
  <1>1. call[c].pc \in {"get", "read"}
    BY DEF Get
  <1>2. call[c].op = "accept" /\ call[c].entry \in Entries
    BY <1>1, Running DEF CallInv, Calls
  <1>3. ~NeverWritten(call[c].entry, Type(c))
    BY <1>1, <1>2, WrittenInTx
  <1>4. CASE Goto(c, AfterGet(c)) /\ NoWrite
    <2>1. AfterGet(c) \in {"materialize", "begin", "read", "prepare"}
      BY <1>2, <1>3 DEF AfterGet, Entries
    <2>2. QED
      BY <1>1, <1>2, <1>4, <2>1, GotoInv
  <1>5. CASE Rollback(c, "gone")
    BY <1>5, RollbackInv
  <1>6. QED
    BY <1>4, <1>5 DEF Get

LEMMA PrepareInv ==
  ASSUME ConfirmInv, NEW c \in Caller, Prepare(c)
  PROVE  ConfirmInv'
  <1>1. call[c].pc = "prepare" /\ Goto(c, "begin") /\ NoWrite
    BY DEF Prepare
  <1>2. call[c].op = "accept"
    BY <1>1, Running DEF CallInv
  <1>3. QED
    BY <1>1, <1>2, GotoInv

LEMMA BeginInv ==
  ASSUME ConfirmInv, NEW c \in Caller, Begin(c)
  PROVE  ConfirmInv'
  <1> DEFINE r == call[c]
             s == [r EXCEPT !.tx = TRUE, !.pc = AfterBegin(c)]
  <1>1. r.pc = "begin" /\ NoWrite
    BY DEF Begin
  <1>2. call \in [Caller -> Calls] /\ calls \in Nat
    BY DEF ConfirmInv, TypeOK
  <1>3. call' = [call EXCEPT ![c] = s]
    BY <1>2 DEF Begin
  <1>4. CallInv(r) /\ r \in Calls /\ r.op \in {"accept", "batch"}
    BY <1>1, Running DEF CallInv
  <1>5. CASE r.op = "accept"
    <2>1. AfterBegin(c) \in {"get", "materialize"}
      BY <1>5 DEF AfterBegin
    <2>2. CallInv([r EXCEPT !.pc = AfterBegin(c), !.tx = TRUE])
      BY <1>1, <1>4, <1>5, <2>1, MovedCall
    <2>3. s = [r EXCEPT !.pc = AfterBegin(c), !.tx = TRUE]
      BY <1>4 DEF Calls
    <2>4. CallInv(s)
      BY <2>2, <2>3
    <2> HIDE DEF s
    <2>5. QED
      BY <1>1, <1>2, <1>3, <2>4, MoveInv DEF NoWrite
  <1>6. CASE r.op = "batch"
    <2>1. AfterBegin(c) = "resolve" /\ "resolve" \in PCs
      BY <1>6 DEF AfterBegin, PCs
    <2>2. s \in Calls
      BY <1>4, <2>1 DEF Calls
    <2>3. /\ s.op = r.op /\ s.entry = r.entry /\ s.ids = r.ids /\ s.k = r.k
          /\ s.pc = "resolve" /\ s.staged = r.staged
      BY <1>4, <2>1 DEF Calls
    <2> HIDE DEF s
    <2>4. CallInv(s)
      <3> HIDE DEF r
      <3>1. QED
        BY <1>1, <1>4, <1>6, <2>2, <2>3 DEF CallInv
    <2>5. QED
      BY <1>1, <1>2, <1>3, <2>4, MoveInv DEF NoWrite
  <1>7. QED
    BY <1>4, <1>5, <1>6

LEMMA MaterializeInv ==
  ASSUME Accepts \subseteq InTx, ConfirmInv, NEW c \in Caller, Materialize(c)
  PROVE  ConfirmInv'
  <1> DEFINE r == call[c]
             s == [r EXCEPT !.staged = 1, !.pc = "resolve"]
  <1>1. r.pc = "materialize"
    BY DEF Materialize
  <1>2. r.op = "accept" /\ CallInv(r) /\ r \in Calls
    BY <1>1, Running DEF CallInv
  <1>3. call \in [Caller -> Calls] /\ calls \in Nat
    BY DEF ConfirmInv, TypeOK
  <1>4. call' = [call EXCEPT ![c] = s] /\ NoWrite
    BY <1>1, <1>2, <1>3, WrittenInTx DEF Materialize
  <1>5. s \in Calls
    <2>1. "resolve" \in PCs /\ 1 \in 0..1
      BY DEF PCs
    <2>2. QED
      BY <1>2, <2>1 DEF Calls
  <1>6. /\ s.op = r.op /\ s.entry = r.entry /\ s.ids = r.ids /\ s.k = r.k
        /\ s.pc = "resolve" /\ s.staged = 1
    BY <1>2 DEF Calls
  <1> HIDE DEF s
  <1>7. CallInv(s)
    <2> HIDE DEF r
    <2>1. QED
      BY <1>1, <1>2, <1>5, <1>6 DEF CallInv
  <1>8. QED
    BY <1>1, <1>3, <1>4, <1>7, MoveInv DEF NoWrite

LEMMA ResolvedCall ==
  ASSUME NEW r, CallInv(r), r.pc = "resolve",
         NEW s, s = IF r.k < Len(r.ids) THEN [r EXCEPT !.k = @ + 1] ELSE [r EXCEPT !.pc = "commit"]
  PROVE  /\ CallInv(s)
         /\ s.op = r.op /\ s.ids = r.ids /\ s.pc \in {"resolve", "commit"}
         /\ r.op = "accept" => s.k = r.k
  <1>1. r \in Calls /\ "commit" \in PCs /\ r.k \in 1..Len(r.ids) /\ Len(r.ids) \in Nat
    BY DEF CallInv, PCs, Calls
  <1>2. CASE r.k < Len(r.ids)
    <2>1. s = [r EXCEPT !.k = @ + 1]
      BY <1>2
    <2>2. s \in Calls
      <3>1. r.k + 1 \in Nat
        BY <1>1
      <3>2. QED
        BY <1>1, <2>1, <3>1 DEF Calls
    <2>3. /\ s.op = r.op /\ s.entry = r.entry /\ s.ids = r.ids /\ s.k = r.k + 1
          /\ s.pc = r.pc /\ s.staged = r.staged
      BY <1>1, <2>1 DEF Calls
    <2>4. r.op # "accept" /\ s.k \in 1..Len(s.ids)
      BY <1>1, <1>2, <2>3 DEF CallInv
    <2>5. CallInv(s)
      BY <2>2, <2>3, <2>4 DEF CallInv
    <2>6. QED
      BY <2>3, <2>4, <2>5
  <1>3. CASE ~(r.k < Len(r.ids))
    <2>1. s = [r EXCEPT !.pc = "commit"]
      BY <1>3
    <2>2. s \in Calls
      BY <1>1, <2>1 DEF Calls
    <2>3. /\ s.op = r.op /\ s.entry = r.entry /\ s.ids = r.ids /\ s.k = r.k
          /\ s.pc = "commit" /\ s.staged = r.staged
      BY <1>1, <2>1 DEF Calls
    <2>4. CallInv(s)
      BY <2>2, <2>3 DEF CallInv
    <2>5. QED
      BY <2>3, <2>4
  <1>4. QED
    BY <1>2, <1>3

LEMMA ResolveInv ==
  ASSUME ConfirmInv, NEW c \in Caller, Resolve(c)
  PROVE  ConfirmInv'
  <1>1. CASE ~Resolvable(c)
    BY <1>1, RollbackInv DEF Resolve
  <1>2. CASE Resolvable(c)
    <2> DEFINE r == call[c]
    <2>0. PICK s : s = IF r.k < Len(r.ids) THEN [r EXCEPT !.k = @ + 1] ELSE [r EXCEPT !.pc = "commit"]
      OBVIOUS
    <2>1. r.pc = "resolve" /\ CallInv(r) /\ Id(c) \in Proposal
      BY Running DEF Resolve
    <2>2. /\ proposals \in [Proposal -> Rows] /\ created \in [Proposal -> Nat]
          /\ lock \in [Proposal -> Caller \cup {Nobody}] /\ call \in [Caller -> Calls]
          /\ calls \in Nat
      BY DEF ConfirmInv, TypeOK
    <2>3. lock' = [lock EXCEPT ![Id(c)] = c] /\ UNCHANGED <<proposals, created, calls>>
      BY <1>2 DEF Resolve
    <2>4. call' = [call EXCEPT ![c] = s]
      BY <1>2, <2>0, <2>2 DEF Resolve
    <2>5. /\ CallInv(s)
          /\ s.op = r.op /\ s.ids = r.ids /\ s.pc \in {"resolve", "commit"}
          /\ r.op = "accept" => s.k = r.k
      BY <2>0, <2>1, ResolvedCall
    <2>6. call'[c] = s
      BY <2>2, <2>4
    <2>7. RowsKept
      BY <2>3 DEF RowsKept
    <2>8. CallInv(s)'
      BY <2>3, <2>5, <2>7, CallKept
    <2>9. proposals[Id(c)].status = "pending"
      BY <1>2 DEF Resolvable, Status
    <2>10. Id(c)' = Id(c) \/ r.op # "accept"
      BY <2>5, <2>6 DEF Id
    <2>11. ASSUME NEW p \in Proposal PROVE LockInv(p)'
      <3>1. CASE p = Id(c)
        BY <2>1, <2>2, <2>3, <2>5, <2>6, <2>9, <2>10, <3>1 DEF LockInv, Id
      <3>2. CASE p # Id(c) /\ lock[p] = c
        <4>1. proposals[p].status = "pending" /\ r.op # "accept" /\ lock'[p] = c
          BY <2>2, <2>3, <3>2, NobodyAssumption DEF ConfirmInv, LockInv
        <4>2. QED
          BY <2>3, <2>5, <2>6, <4>1 DEF LockInv
      <3>3. CASE p # Id(c) /\ lock[p] # c
        <4>1. lock'[p] = lock[p] /\ LockInv(p)
          BY <2>2, <2>3, <3>3 DEF ConfirmInv
        <4>2. lock[p] \in Caller => call'[lock[p]] = call[lock[p]]
          BY <2>2, <2>4, <3>3
        <4>3. QED
          BY <2>2, <2>3, <4>1, <4>2 DEF LockInv, Id
      <3>4. QED
        BY <3>1, <3>2, <3>3
    <2>12. lock' \in [Proposal -> Caller \cup {Nobody}]
      BY <2>2, <2>3
    <2>13. QED
      BY <2>2, <2>3, <2>4, <2>7, <2>8, <2>11, <2>12, Preserve
  <1>3. QED
    BY <1>1, <1>2

(* The rows a committing transaction leaves behind are its own. *)
LEMMA CommitInv ==
  ASSUME Accepts \subseteq InTx, ConfirmInv, NEW c \in Caller, Commit(c)
  PROVE  ConfirmInv'
  <1>1. call[c].pc = "commit" /\ lock' = Released(c) /\ calls' = calls
    BY DEF Commit
  <1>2. /\ proposals \in [Proposal -> Rows] /\ created \in [Proposal -> Nat]
        /\ call[c] \in Calls
    BY DEF ConfirmInv, TypeOK
  <1>3. PICK res \in {"ok", "gone", "error"} : Return(c, res)
    BY <1>1, WrittenInTx DEF Commit
  <1>4. Resolution(c) \in {"accepted", "rejected"}
    BY DEF Resolution
  <1>5. proposals' = [p \in Proposal |->
          IF lock[p] = c THEN [proposals[p] EXCEPT !.status = Resolution(c)] ELSE proposals[p]]
    BY DEF Commit
  <1>6. ASSUME NEW p \in Proposal
        PROVE  /\ proposals'[p] \in Rows
               /\ proposals'[p].type = proposals[p].type
               /\ proposals'[p].status \in {proposals[p].status, "accepted", "rejected"}
               /\ lock[p] # c => proposals'[p] = proposals[p]
    BY <1>2, <1>4, <1>5 DEF Rows, Statuses
  <1>7. RowsKept /\ proposals' \in [Proposal -> Rows]
    BY <1>5, <1>6 DEF RowsKept
  <1>8. created' \in [Proposal -> Nat]
    <2>1. call[c].staged \in Nat
      BY <1>2 DEF Calls
    <2>2. QED
      BY <1>2, <2>1 DEF Commit
  <1>9. \A p \in Proposal : lock[p] \in Caller \ {c} => proposals'[p] = proposals[p]
    BY <1>6
  <1>10. QED
    BY <1>1, <1>3, <1>7, <1>8, <1>9, ReturnedType, ReturnEq, ReleaseInv, ZenonT(40)

LEMMA ResolveOnlyInv ==
  ASSUME ConfirmInv, NEW c \in Caller, ResolveOnly(c)
  PROVE  ConfirmInv'
  <1>1. call[c].pc = "resolve_only" /\ lock[Id(c)] = Nobody /\ Id(c) \in Proposal
    BY Running DEF ResolveOnly
  <1>2. /\ proposals \in [Proposal -> Rows] /\ created \in [Proposal -> Nat]
        /\ lock \in [Proposal -> Caller \cup {Nobody}]
    BY DEF ConfirmInv, TypeOK
  <1>3. PICK res \in {"ok", "gone", "error"} : Return(c, res)
    BY DEF ResolveOnly
  <1>4. UNCHANGED <<created, lock, calls>>
    BY DEF ResolveOnly, NoWrite
  <1>5. ASSUME NEW p \in Proposal
        PROVE  /\ proposals'[p] \in Rows
               /\ proposals'[p].type = proposals[p].type
               /\ proposals'[p].status \in {proposals[p].status, "accepted", "rejected"}
               /\ lock[p] # Nobody => proposals'[p] = proposals[p]
    BY <1>1, <1>2 DEF ResolveOnly, NoWrite, Resolution, Rows, Statuses
  <1>6. DOMAIN proposals' = Proposal /\ proposals' = [p \in Proposal |-> proposals'[p]]
    BY <1>2 DEF ResolveOnly, NoWrite
  <1>7. RowsKept /\ proposals' \in [Proposal -> Rows]
    BY <1>5, <1>6 DEF RowsKept
  <1>8. \A p \in Proposal : lock[p] # c
    BY <1>1, NobodyAssumption DEF ConfirmInv, LockInv
  <1>9. lock' = Released(c)
    BY <1>2, <1>4, <1>8 DEF Released
  <1>10. \A p \in Proposal : lock[p] \in Caller \ {c} => proposals'[p] = proposals[p]
    BY <1>5, NobodyAssumption
  <1>11. created' \in [Proposal -> Nat] /\ calls' = calls
    BY <1>2, <1>4
  <1>12. QED
    BY <1>3, <1>7, <1>9, <1>10, <1>11, ReturnedType, ReturnEq, ReleaseInv

LEMMA StepInv ==
  ASSUME Accepts \subseteq InTx, ConfirmInv, NEW c \in Caller, Step(c) \/ StoreError(c)
  PROVE  ConfirmInv'
  <1>1. CASE AfterCommit(c)
    BY <1>1, Running DEF AfterCommit, CallInv
  <1>2. CASE DeadlockVictim(c)
    BY <1>2, RollbackInv DEF DeadlockVictim
  <1>3. CASE StoreError(c)
    BY <1>3, RollbackInv DEF StoreError
  <1>4. QED
    BY <1>1, <1>2, <1>3, GetInv, PrepareInv, BeginInv, MaterializeInv, ResolveInv, CommitInv,
       ResolveOnlyInv DEF Step

------------------------------------------------------------------------------
(* The other writers *)

LEMMA CreateInv ==
  ASSUME ConfirmInv, NEW p \in Proposal, NEW type \in AllTypes, Create(p, type)
  PROVE  ConfirmInv'
  <1>1. proposals \in [Proposal -> Rows] /\ proposals[p].status = "unborn"
    BY DEF Create, ConfirmInv, TypeOK
  <1>2. proposals' = [proposals EXCEPT ![p] = [type |-> type, status |-> "pending"]]
    BY DEF Create
  <1>3. [type |-> type, status |-> "pending"] \in Rows
    BY DEF Rows, Statuses
  <1>4. proposals' \in [Proposal -> Rows]
    BY <1>1, <1>2, <1>3
  <1>5. RowsKept
    BY <1>1, <1>2 DEF RowsKept
  <1>6. \A q \in Proposal : lock[q] # Nobody => proposals'[q] = proposals[q]
    BY <1>1, <1>2 DEF ConfirmInv, LockInv
  <1>7. QED
    BY <1>4, <1>5, <1>6, BackgroundWrite DEF Create

LEMMA PruneInv ==
  ASSUME ConfirmInv, NEW rows \in SUBSET Proposal, NEW status \in {"rejected", "deleted"},
         Prune(rows, status)
  PROVE  ConfirmInv'
  <1>1. proposals \in [Proposal -> Rows]
    BY DEF ConfirmInv, TypeOK
  <1>2. proposals' = [p \in Proposal |->
          IF p \in rows THEN [proposals[p] EXCEPT !.status = status] ELSE proposals[p]]
    BY DEF Prune
  <1>3. ASSUME NEW p \in Proposal
        PROVE  /\ proposals'[p] \in Rows
               /\ proposals'[p].type = proposals[p].type
               /\ proposals'[p].status \in {proposals[p].status, "rejected", "deleted"}
               /\ p \notin rows => proposals'[p] = proposals[p]
    BY <1>1, <1>2 DEF Rows, Statuses
  <1>4. RowsKept /\ proposals' \in [Proposal -> Rows]
    BY <1>2, <1>3 DEF RowsKept
  <1>5. \A p \in Proposal : lock[p] # Nobody => proposals'[p] = proposals[p]
    BY <1>3 DEF Prune
  <1>6. QED
    BY <1>4, <1>5, BackgroundWrite DEF Prune

LEMMA BackgroundInv ==
  ASSUME ConfirmInv, Background
  PROVE  ConfirmInv'
  <1>1. ASSUME NEW p \in Proposal, NEW a \in Accepts, Create(p, a[2])
        PROVE  ConfirmInv'
    BY <1>1, CreateInv, AcceptsAssumption
  <1>2. ASSUME NEW ps \in SUBSET Proposal, MarkStaleTasks(ps) \/ MarkStaleGoalFamily(ps)
        PROVE  ConfirmInv'
    BY <1>2, PruneInv DEF MarkStaleTasks, MarkStaleGoalFamily, Pending
  <1>3. ASSUME NEW ps \in SUBSET Proposal, DeleteStale(ps)
        PROVE  ConfirmInv'
    BY <1>3, PruneInv DEF DeleteStale, Pending
  <1>4. QED
    BY <1>1, <1>2, <1>3 DEF Background

LEMMA InitInv ==
  ASSUME Init
  PROVE  ConfirmInv
  <1>1. TypeOK
    <2>1. [type |-> "goal", status |-> "unborn"] \in Rows
      BY DEF Rows, AllTypes, Statuses
    <2>2. QED
      BY <2>1, IdleCall DEF Init, TypeOK
  <1>2. CallInv(Idle)
    <2>1. Idle.pc = "idle" /\ Idle.op = "none" /\ Idle.ids = <<>> /\ Idle.staged = 0
      BY DEF Idle
    <2>2. QED
      BY <2>1, IdleCall DEF CallInv
  <1>3. \A c \in Caller : call[c] = Idle
    BY DEF Init
  <1>4. \A c \in Caller : CallInv(call[c])
    BY <1>2, <1>3
  <1>5. \A p \in Proposal : LockInv(p)
    BY DEF Init, LockInv
  <1>6. QED
    BY <1>1, <1>4, <1>5 DEF ConfirmInv

LEMMA NextInv ==
  ASSUME Accepts \subseteq InTx, ConfirmInv, [Next]_vars
  PROVE  ConfirmInv'
  <1>1. CASE UNCHANGED vars
    <2>1. UNCHANGED <<created, lock, call, calls>> /\ proposals' = proposals
      BY <1>1 DEF vars
    <2>2. RowsKept /\ proposals' \in [Proposal -> Rows]
      BY <2>1 DEF RowsKept, ConfirmInv, TypeOK
    <2>3. QED
      BY <2>1, <2>2, BackgroundWrite
  <1>2. CASE Next
    BY <1>2, BeginsInv, StepInv, BackgroundInv DEF Next
  <1>3. QED
    BY <1>1, <1>2

(* Where every accept writes its entity in its transaction, a locked row is  *)
(* pending and its holder is about to commit, whatever the interleaving.      *)
THEOREM ConfirmInvariant ==
  ASSUME Accepts \subseteq InTx
  PROVE  Spec => []ConfirmInv
  <1>1. Init => ConfirmInv
    BY InitInv
  <1>2. ConfirmInv /\ [Next]_vars => ConfirmInv'
    BY NextInv
  <1>3. QED
    BY <1>1, <1>2, PTL DEF Spec

------------------------------------------------------------------------------
(* The refinement of ProposalPromise *)

StatusOf == [p \in Proposal |-> proposals[p].status]

PromiseStep == [Promise!Next]_<<StatusOf, created>>

LEMMA QuietStep ==
  ASSUME UNCHANGED <<proposals, created>>
  PROVE  PromiseStep
  BY DEF PromiseStep, StatusOf

LEMMA ProposeStep ==
  ASSUME NEW p \in Proposal, proposals[p].status = "unborn", created' = created,
         \A q \in Proposal :
           proposals'[q].status = IF q = p THEN "pending" ELSE proposals[q].status
  PROVE  PromiseStep
  <1>1. Promise!Propose(p)
    BY DEF Promise!Propose
  <1>2. QED
    BY <1>1 DEF PromiseStep, Promise!Next, StatusOf

LEMMA AcceptStep ==
  ASSUME NEW p \in Proposal, proposals[p].status = "pending",
         created' = [created EXCEPT ![p] = @ + 1],
         \A q \in Proposal :
           proposals'[q].status = IF q = p THEN "accepted" ELSE proposals[q].status
  PROVE  PromiseStep
  <1>1. Promise!Accept(p)
    BY DEF Promise!Accept
  <1>2. QED
    BY <1>1 DEF PromiseStep, Promise!Next, StatusOf

LEMMA RejectStep ==
  ASSUME NEW ps \in SUBSET Proposal, \A p \in ps : proposals[p].status = "pending",
         created' = created,
         \A q \in Proposal :
           proposals'[q].status = IF q \in ps THEN "rejected" ELSE proposals[q].status
  PROVE  PromiseStep
  <1>1. Promise!Reject(ps)
    BY DEF Promise!Reject
  <1>2. QED
    BY <1>1 DEF PromiseStep, Promise!Next, StatusOf

LEMMA ForgetStep ==
  ASSUME NEW ps \in SUBSET Proposal, \A p \in ps : proposals[p].status # "unborn",
         created' = created,
         \A q \in Proposal :
           proposals'[q].status = IF q \in ps THEN "deleted" ELSE proposals[q].status
  PROVE  PromiseStep
  <1>1. Promise!Forget(ps)
    BY DEF Promise!Forget
  <1>2. QED
    BY <1>1 DEF PromiseStep, Promise!Next, StatusOf

(* A transaction that accepts has locked its proposal only, and staged its   *)
(* one entity; a batch has staged none.                                       *)
LEMMA CommitPromise ==
  ASSUME ConfirmInv, NEW c \in Caller, Commit(c)
  PROVE  PromiseStep
  <1>1. /\ call[c].pc = "commit" /\ call[c].op \in {"accept", "batch"}
        /\ call[c].staged = IF call[c].op = "accept" THEN 1 ELSE 0
        /\ Id(c) \in Proposal
    BY Running DEF Commit, CallInv
  <1>2. proposals \in [Proposal -> Rows] /\ created \in [Proposal -> Nat]
    BY DEF ConfirmInv, TypeOK
  <1>3. /\ proposals' = [p \in Proposal |->
             IF lock[p] = c THEN [proposals[p] EXCEPT !.status = Resolution(c)] ELSE proposals[p]]
        /\ created' = [p \in Proposal |->
             IF lock[p] = c THEN created[p] + call[c].staged ELSE created[p]]
    BY DEF Commit
  <1>4. \A p \in Proposal :
          proposals'[p].status = IF lock[p] = c THEN Resolution(c) ELSE proposals[p].status
    BY <1>2, <1>3 DEF Rows
  <1>5. \A p \in Proposal : lock[p] = c => proposals[p].status = "pending"
    BY NobodyAssumption DEF ConfirmInv, LockInv
  <1>6. CASE call[c].op = "accept"
    <2>1. \A p \in Proposal : lock[p] = c => p = Id(c)
      BY <1>6, NobodyAssumption DEF ConfirmInv, LockInv
    <2>2. CASE lock[Id(c)] = c
      <3>1. created' = [created EXCEPT ![Id(c)] = @ + 1]
        BY <1>1, <1>2, <1>3, <1>6, <2>1, <2>2
      <3>2. \A p \in Proposal :
              proposals'[p].status = IF p = Id(c) THEN "accepted" ELSE proposals[p].status
        BY <1>4, <1>6, <2>1, <2>2 DEF Resolution
      <3>3. QED
        BY <1>1, <1>5, <2>2, <3>1, <3>2, AcceptStep
    <2>3. CASE lock[Id(c)] # c
      <3>1. \A p \in Proposal : lock[p] # c
        BY <2>1, <2>3
      <3>2. proposals' = proposals /\ created' = created
        BY <1>2, <1>3, <3>1
      <3>3. QED
        BY <3>2, QuietStep
    <2>4. QED
      BY <2>2, <2>3
  <1>7. CASE call[c].op = "batch"
    <2> DEFINE ps == {p \in Proposal : lock[p] = c}
    <2>1. created' = created
      BY <1>1, <1>2, <1>3, <1>7
    <2>2. \A p \in Proposal :
            proposals'[p].status = IF p \in ps THEN "rejected" ELSE proposals[p].status
      BY <1>4, <1>7 DEF Resolution
    <2>3. ps \in SUBSET Proposal /\ \A p \in ps : proposals[p].status = "pending"
      BY <1>5
    <2> HIDE DEF ps
    <2>4. QED
      BY <2>1, <2>2, <2>3, RejectStep
  <1>8. QED
    BY <1>1, <1>6, <1>7

LEMMA ResolveOnlyPromise ==
  ASSUME ConfirmInv, NEW c \in Caller, ResolveOnly(c)
  PROVE  PromiseStep
  <1>1. call[c].op = "reject" /\ Id(c) \in Proposal
    BY Running DEF ResolveOnly, CallInv
  <1>2. CASE ~Resolvable(c)
    BY <1>2, QuietStep DEF ResolveOnly, NoWrite
  <1>3. CASE Resolvable(c)
    <2>1. proposals' = [proposals EXCEPT ![Id(c)].status = "rejected"] /\ created' = created
      BY <1>1, <1>3 DEF ResolveOnly, Resolution
    <2>2. proposals \in [Proposal -> Rows]
      BY DEF ConfirmInv, TypeOK
    <2>3. \A p \in Proposal :
            proposals'[p].status = IF p \in {Id(c)} THEN "rejected" ELSE proposals[p].status
      BY <1>1, <2>1, <2>2 DEF Rows
    <2>4. \A p \in {Id(c)} : proposals[p].status = "pending"
      BY <1>3 DEF Resolvable, Status
    <2>5. {Id(c)} \in SUBSET Proposal
      BY <1>1
    <2>6. QED
      BY <2>1, <2>3, <2>4, <2>5, RejectStep
  <1>4. QED
    BY <1>2, <1>3

LEMMA PruneEffect ==
  ASSUME ConfirmInv, NEW rows \in SUBSET Proposal, NEW status, Prune(rows, status)
  PROVE  /\ created' = created
         /\ \A q \in Proposal :
              proposals'[q].status = IF q \in rows THEN status ELSE proposals[q].status
  BY DEF Prune, ConfirmInv, TypeOK, Rows

LEMMA BackgroundPromise ==
  ASSUME ConfirmInv, Background
  PROVE  PromiseStep
  <1>1. ASSUME NEW p \in Proposal, NEW a \in Accepts, Create(p, a[2])
        PROVE  PromiseStep
    <2>1. proposals \in [Proposal -> Rows]
      BY DEF ConfirmInv, TypeOK
    <2>2. /\ proposals[p].status = "unborn"
          /\ proposals' = [proposals EXCEPT ![p] = [type |-> a[2], status |-> "pending"]]
          /\ created' = created
      BY <1>1 DEF Create
    <2>3. \A q \in Proposal :
            proposals'[q].status = IF q = p THEN "pending" ELSE proposals[q].status
      BY <2>1, <2>2
    <2>4. QED
      BY <2>2, <2>3, ProposeStep
  <1>2. ASSUME NEW ps \in SUBSET Proposal, NEW types, Prune(Pending(ps, types), "rejected")
        PROVE  PromiseStep
    <2>1. Pending(ps, types) \in SUBSET Proposal
      BY DEF Pending
    <2>2. \A p \in Pending(ps, types) : proposals[p].status = "pending"
      BY DEF Pending
    <2>3. QED
      BY <1>2, <2>1, <2>2, PruneEffect, RejectStep
  <1>3. ASSUME NEW ps \in SUBSET Proposal, DeleteStale(ps)
        PROVE  PromiseStep
    <2> DEFINE rows == {p \in ps : proposals[p].status \in {"accepted", "rejected"}}
                         \cup Pending(ps, {"decision"})
    <2>1. Prune(rows, "deleted")
      BY <1>3 DEF DeleteStale
    <2>2. rows \in SUBSET Proposal /\ \A p \in rows : proposals[p].status # "unborn"
      BY DEF Pending
    <2> HIDE DEF rows
    <2>3. QED
      BY <2>1, <2>2, PruneEffect, ForgetStep
  <1>4. QED
    BY <1>1, <1>2, <1>3 DEF Background, MarkStaleTasks, MarkStaleGoalFamily

LEMMA NextPromise ==
  ASSUME Accepts \subseteq InTx, ConfirmInv, [Next]_vars
  PROVE  PromiseStep
  <1>1. ASSUME NEW c \in Caller, Begins(c)
        PROVE  PromiseStep
    BY <1>1, QuietStep DEF Begins, CallAccept, CallReject, CallBatchReject, Start
  <1>2. ASSUME NEW c \in Caller, Get(c) \/ Prepare(c) \/ Begin(c)
        PROVE  PromiseStep
    BY <1>2, QuietStep DEF Get, Prepare, Begin, NoWrite, Rollback
  <1>3. ASSUME NEW c \in Caller, Materialize(c)
        PROVE  PromiseStep
    <2>1. call[c].pc = "materialize" /\ call[c].op = "accept"
      BY <1>3, Running DEF Materialize, CallInv
    <2>2. QED
      BY <1>3, <2>1, WrittenInTx, QuietStep DEF Materialize, NoWrite
  <1>4. ASSUME NEW c \in Caller, Resolve(c)
        PROVE  PromiseStep
    BY <1>4, QuietStep DEF Resolve, Rollback
  <1>5. ASSUME NEW c \in Caller, AfterCommit(c)
        PROVE  PromiseStep
    BY <1>5, Running DEF AfterCommit, CallInv
  <1>6. ASSUME NEW c \in Caller, DeadlockVictim(c) \/ StoreError(c)
        PROVE  PromiseStep
    BY <1>6, QuietStep DEF DeadlockVictim, StoreError, Rollback
  <1>7. CASE UNCHANGED vars
    BY <1>7, QuietStep DEF vars
  <1>8. QED
    BY <1>1, <1>2, <1>3, <1>4, <1>5, <1>6, <1>7, CommitPromise, ResolveOnlyPromise,
       BackgroundPromise DEF Next, Step

LEMMA InitPromise ==
  ASSUME Init
  PROVE  Promise!Init
  BY DEF Init, Promise!Init

(* Every behaviour of the callers, the prune and the pool in which each       *)
(* accept is written in its transaction is one of ProposalPromise: proposals  *)
(* are resolved once and their entities appear with their acceptance.         *)
THEOREM ConfirmKeepsPromise ==
  ASSUME Accepts \subseteq InTx
  PROVE  Spec => PromiseKept
  <1>1. Init => Promise!Init
    BY InitPromise
  <1>2. ConfirmInv /\ [Next]_vars => PromiseStep
    BY NextPromise
  <1>3. Spec => []ConfirmInv
    BY ConfirmInvariant
  <1>4. QED
    BY <1>1, <1>2, <1>3, PTL DEF Spec, PromiseKept, Promise!Spec, PromiseStep, StatusOf

(* MadeOnce, proposal by proposal, with the statuses as the promise sees them. *)
PromiseInv == Promise!MadeOnce /\ DOMAIN created = Proposal

LEMMA MadeOnceStep ==
  ASSUME PromiseInv, PromiseStep
  PROVE  PromiseInv'
  <1>1. \A p \in Proposal :
          /\ created[p] \in {0, 1}
          /\ StatusOf[p] = "accepted" => created[p] = 1
          /\ StatusOf[p] \in {"unborn", "pending", "rejected"} => created[p] = 0
    BY DEF PromiseInv, Promise!MadeOnce, StatusOf
  <1>2. SUFFICES /\ DOMAIN created' = Proposal
                 /\ \A p \in Proposal :
                      /\ created'[p] \in {0, 1}
                      /\ StatusOf'[p] = "accepted" => created'[p] = 1
                      /\ StatusOf'[p] \in {"unborn", "pending", "rejected"} => created'[p] = 0
    BY DEF PromiseInv, Promise!MadeOnce, StatusOf
  <1>3. DOMAIN StatusOf = Proposal /\ DOMAIN StatusOf' = Proposal /\ DOMAIN created = Proposal
    BY DEF StatusOf, PromiseInv
  <1>4. CASE UNCHANGED <<StatusOf, created>>
    BY <1>1, <1>3, <1>4
  <1>5. ASSUME NEW p \in Proposal, Promise!Propose(p)
        PROVE  /\ created' = created /\ StatusOf[p] = "unborn"
               /\ StatusOf' = [StatusOf EXCEPT ![p] = "pending"]
    BY <1>5 DEF Promise!Propose, StatusOf
  <1>6. ASSUME NEW p \in Proposal, Promise!Accept(p)
        PROVE  /\ created' = [created EXCEPT ![p] = @ + 1] /\ StatusOf[p] = "pending"
               /\ StatusOf' = [StatusOf EXCEPT ![p] = "accepted"]
    BY <1>6 DEF Promise!Accept, StatusOf
  <1>7. ASSUME NEW ps \in SUBSET Proposal, Promise!Reject(ps)
        PROVE  /\ created' = created /\ \A p \in ps : StatusOf[p] = "pending"
               /\ StatusOf' = [p \in Proposal |-> IF p \in ps THEN "rejected" ELSE StatusOf[p]]
    BY <1>7 DEF Promise!Reject, StatusOf
  <1>8. ASSUME NEW ps \in SUBSET Proposal, Promise!Forget(ps)
        PROVE  /\ created' = created
               /\ StatusOf' = [p \in Proposal |-> IF p \in ps THEN "deleted" ELSE StatusOf[p]]
    BY <1>8 DEF Promise!Forget, StatusOf
  <1>9. CASE \E p \in Proposal : Promise!Propose(p) \/ Promise!Accept(p)
    BY <1>1, <1>3, <1>5, <1>6, <1>9
  <1>10. CASE \E ps \in SUBSET Proposal : Promise!Reject(ps) \/ Promise!Forget(ps)
    BY <1>1, <1>3, <1>7, <1>8, <1>10
  <1>11. QED
    BY <1>4, <1>9, <1>10 DEF PromiseStep, Promise!Next

(* Whatever keeps the promise makes an entity once at most, and has it where *)
(* the proposal is accepted and not where it is pending or rejected.         *)
THEOREM PromiseIsMadeOnce == PromiseKept => []Promise!MadeOnce
  <1>1. Promise!Init => PromiseInv
    BY DEF Promise!Init, Promise!MadeOnce, PromiseInv
  <1>2. PromiseInv /\ PromiseStep => PromiseInv'
    BY MadeOnceStep
  <1>3. PromiseInv => Promise!MadeOnce
    BY DEF PromiseInv
  <1>4. QED
    BY <1>1, <1>2, <1>3, PTL DEF PromiseKept, Promise!Spec, PromiseStep, StatusOf

------------------------------------------------------------------------------
(* What holds for every type through every entry point *)

LEMMA MovedCalls ==
  ASSUME TypeOK, NEW c \in Caller, NEW pc \in PCs
  PROVE  /\ [call EXCEPT ![c].pc = pc] \in [Caller -> Calls]
         /\ [call EXCEPT ![c].tx = TRUE, ![c].pc = pc] \in [Caller -> Calls]
         /\ [call EXCEPT ![c].staged = 1, ![c].pc = pc] \in [Caller -> Calls]
         /\ [call EXCEPT ![c].pc = pc, ![c].tx = FALSE] \in [Caller -> Calls]
         /\ [call EXCEPT ![c].k = @ + 1] \in [Caller -> Calls]
  <1>1. call \in [Caller -> Calls] /\ call[c] \in Calls
    BY DEF TypeOK
  <1>2. [call[c] EXCEPT !.pc = pc] \in Calls /\ [call[c] EXCEPT !.tx = TRUE, !.pc = pc] \in Calls
    BY <1>1 DEF Calls
  <1>3. [call[c] EXCEPT !.staged = 1, !.pc = pc] \in Calls /\ [call[c] EXCEPT !.pc = pc, !.tx = FALSE] \in Calls
    <2>1. 1 \in 0..1
      BY SMT
    <2>2. QED
      BY <1>1, <2>1 DEF Calls
  <1>4. [call[c] EXCEPT !.k = @ + 1] \in Calls
    BY <1>1, SMTT(30) DEF Calls
  <1>5. QED
    BY <1>1, <1>2, <1>3, <1>4

LEMMA OneMore ==
  ASSUME NEW f \in [Proposal -> Nat], NEW i
  PROVE  [f EXCEPT ![i] = @ + 1] \in [Proposal -> Nat]
  <1>1. ASSUME i \in Proposal PROVE f[i] + 1 \in Nat
    BY <1>1
  <1>2. QED
    BY <1>1

LEMMA ReturnCalls ==
  ASSUME TypeOK, NEW c \in Caller, NEW res \in {"ok", "gone", "error"}, Return(c, res)
  PROVE  call' \in [Caller -> Calls]
  <1>1. call \in [Caller -> Calls] /\ call[c] \in Calls
    BY DEF TypeOK
  <1>2. call' = [call EXCEPT ![c] = [call[c] EXCEPT !.pc = "done", !.tx = FALSE,
                                                     !.staged = 0, !.result = res]]
    BY <1>1 DEF Return
  <1>3. QED
    BY <1>1, <1>2, ReturnedCall

LEMMA BeginsCalls ==
  ASSUME TypeOK, NEW c \in Caller, Begins(c)
  PROVE  call' \in [Caller -> Calls] /\ calls' \in Nat /\ UNCHANGED <<proposals, created, lock>>
  <1>1. ASSUME NEW r \in Calls, Start(c, r)
        PROVE  call' \in [Caller -> Calls] /\ calls' \in Nat /\ UNCHANGED <<proposals, created, lock>>
    BY <1>1 DEF Start, TypeOK
  <1>2. "begin" \in PCs /\ "get" \in PCs /\ "resolve_only" \in PCs
    BY DEF PCs
  <1>3. ASSUME NEW p \in Proposal, NEW entry \in Entries, CallAccept(c, p, entry)
        PROVE  \E r \in Calls : Start(c, r)
    <2> DEFINE pc == IF entry = "mcp" /\ Backend = "postgres" THEN "begin" ELSE "get"
    <2>1. pc \in PCs /\ <<p>> \in Seq(Proposal)
      BY <1>2
    <2>2. [Idle EXCEPT !.op = "accept", !.entry = entry, !.ids = <<p>>, !.pc = pc] \in Calls
      BY <2>1, StartedCall
    <2>3. QED
      BY <1>3, <2>2 DEF CallAccept
  <1>4. ASSUME NEW p \in Proposal, CallReject(c, p)
        PROVE  \E r \in Calls : Start(c, r)
    <2>1. <<p>> \in Seq(Proposal)
      OBVIOUS
    <2>2. [Idle EXCEPT !.op = "reject", !.ids = <<p>>, !.pc = "resolve_only"] \in Calls
      BY <1>2, <2>1, StartedCall DEF Entries
    <2>3. QED
      BY <1>4, <2>2 DEF CallReject
  <1>5. ASSUME NEW p \in Proposal, NEW q \in Proposal, CallBatchReject(c, <<p, q>>)
        PROVE  \E r \in Calls : Start(c, r)
    <2>1. <<p, q>> \in Seq(Proposal)
      OBVIOUS
    <2>2. [Idle EXCEPT !.op = "batch", !.ids = <<p, q>>, !.pc = "begin"] \in Calls
      BY <1>2, <2>1, StartedCall DEF Entries
    <2>3. QED
      BY <1>5, <2>2 DEF CallBatchReject
  <1>6. QED
    BY <1>1, <1>3, <1>4, <1>5 DEF Begins

(* Every lock is on a pending row, and the locks of the others are kept. *)
LockedPending == \A p \in Proposal : lock[p] # Nobody => proposals[p].status = "pending"

ResolvedInv == TypeOK /\ LockedPending

(* What a step may do to a row. *)
RowStep(p) == proposals'[p].status # proposals[p].status =>
  \/ proposals[p].status = "pending" \/ proposals'[p].status = "deleted" \/ proposals[p].status = "unborn"

LEMMA StepRows ==
  ASSUME ResolvedInv, NEW c \in Caller, Step(c) \/ StoreError(c)
  PROVE  ResolvedInv' /\ \A p \in Proposal : RowStep(p)
  <1> DEFINE Kept == proposals' = proposals /\ created' \in [Proposal -> Nat] /\ calls' = calls
             Goal == ResolvedInv' /\ \A p \in Proposal : RowStep(p)
  <1>1. /\ call \in [Caller -> Calls] /\ proposals \in [Proposal -> Rows] /\ created \in [Proposal -> Nat]
        /\ lock \in [Proposal -> Caller \cup {Nobody}] /\ calls \in Nat
    BY DEF ResolvedInv, TypeOK
  <1>2. ASSUME call' \in [Caller -> Calls], Kept, lock' = lock \/ lock' = Released(c)
        PROVE  Goal
    <2>1. lock' \in [Proposal -> Caller \cup {Nobody}] /\ \A p \in Proposal : lock'[p] # Nobody => lock[p] # Nobody
      BY <1>1, <1>2 DEF Released
    <2>2. QED
      BY <1>1, <1>2, <2>1 DEF ResolvedInv, TypeOK, LockedPending, RowStep
  <1>3. ASSUME NEW res \in {"ok", "gone", "error"}, Rollback(c, res) PROVE Goal
    BY <1>1, <1>2, <1>3, ReturnCalls DEF Rollback, ResolvedInv
  <1>4. /\ "begin" \in PCs /\ "read" \in PCs /\ "prepare" \in PCs /\ "materialize" \in PCs
        /\ "resolve" \in PCs /\ "commit" \in PCs /\ "after_commit" \in PCs /\ "resolve_only" \in PCs
    BY DEF PCs
  <1>5. ASSUME NEW pc \in PCs, Goto(c, pc), NoWrite PROVE Goal
    BY <1>1, <1>2, <1>5, MovedCalls DEF Goto, NoWrite, ResolvedInv
  <1>6. CASE Get(c)
    <2>1. AfterGet(c) \in PCs
      BY <1>4 DEF AfterGet, PCs
    <2>2. QED
      BY <1>3, <1>5, <1>6, <2>1 DEF Get
  <1>7. CASE Prepare(c)
    BY <1>4, <1>5, <1>7 DEF Prepare
  <1>8. CASE Begin(c)
    <2>1. AfterBegin(c) \in PCs
      BY DEF AfterBegin, PCs
    <2>2. QED
      BY <1>1, <1>2, <1>8, <2>1, MovedCalls DEF Begin, NoWrite, ResolvedInv
  <1>9. CASE Materialize(c)
    <2>1. CASE call' = [call EXCEPT ![c].staged = 1, ![c].pc = "resolve"] /\ NoWrite
      BY <1>1, <1>2, <1>4, <2>1, MovedCalls DEF NoWrite, ResolvedInv
    <2>2. CASE created' = [created EXCEPT ![Id(c)] = @ + 1] /\ Goto(c, "resolve") /\ UNCHANGED <<proposals, lock, calls>>
      <3>1. call' \in [Caller -> Calls]
        BY <1>4, <2>2, MovedCalls DEF Goto, ResolvedInv
      <3>2. Kept
        BY <1>1, <2>2, OneMore
      <3>3. QED
        BY <1>2, <2>2, <3>1, <3>2
    <2>3. CASE Goto(c, "resolve") /\ NoWrite
      BY <1>4, <1>5, <2>3
    <2>4. QED
      BY <1>9, <2>1, <2>2, <2>3 DEF Materialize
  <1>10. CASE Resolve(c)
    <2>1. CASE ~Resolvable(c)
      BY <1>3, <1>10, <2>1 DEF Resolve
    <2>2. CASE Resolvable(c)
      <3>1. /\ lock' = [lock EXCEPT ![Id(c)] = c] /\ UNCHANGED <<proposals, created, calls>>
            /\ call' = [call EXCEPT ![c].k = @ + 1] \/ call' = [call EXCEPT ![c].pc = "commit"]
        BY <1>10, <2>2 DEF Resolve
      <3>2. call' \in [Caller -> Calls]
        <4>1. CASE call' = [call EXCEPT ![c].k = @ + 1]
          BY <1>4, <4>1, MovedCalls DEF ResolvedInv
        <4>2. CASE call' = [call EXCEPT ![c].pc = "commit"]
          BY <1>4, <4>2, MovedCalls DEF ResolvedInv
        <4>3. QED
          BY <3>1, <4>1, <4>2
      <3>3. LockedPending'
        BY <1>1, <2>2, <3>1 DEF ResolvedInv, LockedPending, Resolvable, Status
      <3>4. QED
        BY <1>1, <3>1, <3>2, <3>3 DEF ResolvedInv, TypeOK, RowStep
    <2>3. QED
      BY <2>1, <2>2
  <1>11. CASE Commit(c)
    <2>1. /\ proposals' = [p \in Proposal |->
               IF lock[p] = c THEN [proposals[p] EXCEPT !.status = Resolution(c)] ELSE proposals[p]]
          /\ created' = [p \in Proposal |-> IF lock[p] = c THEN created[p] + call[c].staged ELSE created[p]]
          /\ lock' = Released(c) /\ calls' = calls
      BY <1>11 DEF Commit
    <2>2. call' \in [Caller -> Calls]
      <3>1. CASE Return(c, "error") \/ Return(c, "ok")
        BY <3>1, ReturnCalls DEF ResolvedInv
      <3>2. CASE call' = [call EXCEPT ![c].pc = "after_commit", ![c].tx = FALSE]
        BY <1>4, <3>2, MovedCalls DEF ResolvedInv
      <3>3. QED
        BY <1>11, <3>1, <3>2 DEF Commit
    <2>3. Resolution(c) \in Statuses /\ call[c].staged \in Nat
      <3>1. Resolution(c) \in Statuses
        BY DEF Resolution, Statuses
      <3>2. call[c] \in Calls
        BY <1>1
      <3>3. call[c].staged \in 0..1
        BY <3>2 DEF Calls
      <3>4. QED
        BY <3>1, <3>3, SMT
    <2>4. proposals' \in [Proposal -> Rows]
      BY <1>1, <2>1, <2>3 DEF Rows
    <2>5. created' \in [Proposal -> Nat]
      BY <1>1, <2>1, <2>3
    <2>6. \A p \in Proposal : lock[p] # c => proposals'[p] = proposals[p]
      BY <2>1
    <2>7. \A p \in Proposal : RowStep(p)
      BY <2>6, NobodyAssumption DEF ResolvedInv, LockedPending, RowStep
    <2>8. lock' \in [Proposal -> Caller \cup {Nobody}] /\ \A p \in Proposal : lock'[p] # Nobody => lock[p] # Nobody /\ lock[p] # c
      BY <1>1, <2>1, NobodyAssumption DEF Released
    <2>9. LockedPending'
      BY <2>6, <2>8 DEF ResolvedInv, LockedPending
    <2>10. QED
      BY <1>1, <2>1, <2>2, <2>4, <2>5, <2>7, <2>8, <2>9 DEF ResolvedInv, TypeOK
  <1>12. CASE AfterCommit(c)
    <2>1. created' = [created EXCEPT ![Id(c)] = @ + 1] /\ Return(c, "ok") /\ UNCHANGED <<proposals, lock, calls>>
      BY <1>12 DEF AfterCommit
    <2>2. call' \in [Caller -> Calls]
      BY <2>1, ReturnCalls DEF ResolvedInv
    <2>3. Kept
      BY <1>1, <2>1, OneMore
    <2>4. QED
      BY <1>2, <2>1, <2>2, <2>3
  <1>13. CASE ResolveOnly(c)
    <2>1. CASE Resolvable(c)
      <3>1. /\ proposals' = [proposals EXCEPT ![Id(c)].status = Resolution(c)]
            /\ UNCHANGED <<created, lock, calls>> /\ Return(c, "ok")
        BY <1>13, <2>1 DEF ResolveOnly
      <3>2. Resolution(c) \in Statuses
        BY DEF Resolution, Statuses
      <3>3. proposals' \in [Proposal -> Rows]
        BY <1>1, <3>1, <3>2 DEF Rows
      <3>4. \A p \in Proposal : p # Id(c) => proposals'[p] = proposals[p]
        BY <1>1, <3>1
      <3>5. call' \in [Caller -> Calls]
        BY <3>1, ReturnCalls DEF ResolvedInv
      <3>6. LockedPending' /\ \A p \in Proposal : RowStep(p)
        BY <1>1, <2>1, <3>1, <3>4 DEF ResolvedInv, LockedPending, RowStep, Resolvable, Status
      <3>7. QED
        BY <1>1, <3>1, <3>3, <3>5, <3>6 DEF ResolvedInv, TypeOK
    <2>2. CASE ~Resolvable(c)
      BY <1>1, <1>2, <1>13, <2>2, ReturnCalls DEF ResolveOnly, NoWrite, ResolvedInv
    <2>3. QED
      BY <2>1, <2>2
  <1>14. CASE DeadlockVictim(c) \/ StoreError(c)
    BY <1>3, <1>14 DEF DeadlockVictim, StoreError
  <1>15. QED
    BY <1>6, <1>7, <1>8, <1>9, <1>10, <1>11, <1>12, <1>13, <1>14 DEF Step

LEMMA BackgroundRows ==
  ASSUME ResolvedInv, Background
  PROVE  ResolvedInv' /\ \A p \in Proposal : RowStep(p)
  <1> DEFINE Goal == ResolvedInv' /\ \A p \in Proposal : RowStep(p)
  <1>1. proposals \in [Proposal -> Rows] /\ lock \in [Proposal -> Caller \cup {Nobody}]
    BY DEF ResolvedInv, TypeOK
  <1>2. ASSUME UNCHANGED <<created, lock, call, calls>>, proposals' \in [Proposal -> Rows],
               \A p \in Proposal : lock[p] # Nobody => proposals'[p] = proposals[p],
               \A p \in Proposal : RowStep(p)
        PROVE  Goal
    BY <1>2 DEF ResolvedInv, TypeOK, LockedPending
  <1>3. ASSUME NEW p \in Proposal, NEW a \in Accepts, Create(p, a[2]) PROVE Goal
    <2>1. a[2] \in AllTypes
      BY AcceptsAssumption
    <2>2. proposals' = [proposals EXCEPT ![p] = [type |-> a[2], status |-> "pending"]]
          /\ proposals[p].status = "unborn" /\ UNCHANGED <<created, lock, call, calls>>
      BY <1>3 DEF Create
    <2>3. proposals' \in [Proposal -> Rows]
      BY <1>1, <2>1, <2>2 DEF Rows, Statuses
    <2>4. lock[p] = Nobody
      BY <2>2 DEF ResolvedInv, LockedPending
    <2>5. QED
      BY <1>1, <1>2, <2>2, <2>3, <2>4 DEF RowStep
  <1>4. ASSUME NEW rows \in SUBSET Proposal, NEW status \in {"rejected", "deleted"}, Prune(rows, status),
               status = "deleted" \/ \A p \in rows : proposals[p].status = "pending"
        PROVE  Goal
    <2>1. proposals' \in [Proposal -> Rows]
      BY <1>1, <1>4 DEF Prune, Rows, Statuses
    <2>2. \A p \in Proposal : /\ p \notin rows => proposals'[p] = proposals[p]
                              /\ p \in rows => lock[p] = Nobody /\ proposals'[p].status = status
      BY <1>1, <1>4 DEF Prune, Rows
    <2>3. QED
      BY <1>2, <1>4, <2>1, <2>2 DEF Prune, RowStep
  <1>5. ASSUME NEW ps \in SUBSET Proposal, NEW types
        PROVE  Pending(ps, types) \in SUBSET Proposal /\ \A p \in Pending(ps, types) : proposals[p].status = "pending"
    BY DEF Pending
  <1>6. ASSUME NEW ps \in SUBSET Proposal, DeleteStale(ps) PROVE Goal
    <2> DEFINE rows == {p \in ps : proposals[p].status \in {"accepted", "rejected"}} \cup Pending(ps, {"decision"})
    <2>1. rows \in SUBSET Proposal /\ Prune(rows, "deleted")
      BY <1>5, <1>6 DEF DeleteStale
    <2> HIDE DEF rows
    <2>2. QED
      BY <1>4, <2>1
  <1>7. ASSUME NEW ps \in SUBSET Proposal, MarkStaleTasks(ps) \/ MarkStaleGoalFamily(ps) PROVE Goal
    BY <1>4, <1>5, <1>7 DEF MarkStaleTasks, MarkStaleGoalFamily
  <1>8. QED
    BY <1>3, <1>6, <1>7 DEF Background

LEMMA NextRows ==
  ASSUME ResolvedInv, [Next]_vars
  PROVE  ResolvedInv' /\ \A p \in Proposal : RowStep(p)
  <1>1. ASSUME NEW c \in Caller, Begins(c) PROVE ResolvedInv' /\ \A p \in Proposal : RowStep(p)
    BY <1>1, BeginsCalls DEF ResolvedInv, TypeOK, LockedPending, RowStep
  <1>2. CASE UNCHANGED vars
    BY <1>2 DEF vars, ResolvedInv, TypeOK, LockedPending, RowStep
  <1>3. QED
    BY <1>1, <1>2, StepRows, BackgroundRows DEF Next

LEMMA InitRows == Init => ResolvedInv
  <1>1. [type |-> "goal", status |-> "unborn"] \in Rows
    BY DEF Rows, AllTypes, Statuses
  <1>2. QED
    BY <1>1, IdleCall DEF Init, ResolvedInv, TypeOK, LockedPending

(* Every reachable state is well typed and every locked row is pending, for   *)
(* every type, entry point and backend.                                      *)
THEOREM ResolvedInvariant == Spec => []ResolvedInv
  <1>1. ResolvedInv /\ [Next]_vars => ResolvedInv'
    BY NextRows
  <1>2. QED
    BY <1>1, InitRows, PTL DEF Spec

(* Every variable keeps its type, for every type, entry point and backend. *)
THEOREM TypeCorrect == Spec => []TypeOK
  <1>1. ResolvedInv => TypeOK
    BY DEF ResolvedInv
  <1>2. QED
    BY <1>1, ResolvedInvariant, PTL

(* A resolution is final, for every type, entry point and backend: whoever     *)
(* resolves a row has found it pending while nobody else had.                  *)
THEOREM ResolutionIsFinal == Spec => ResolvedOnce
  <1>1. ResolvedInv /\ [Next]_vars =>
          [\A p \in Proposal :
             proposals[p].status \in {"accepted", "rejected"} =>
               proposals'[p].status \in {proposals[p].status, "deleted"}]_vars
    BY NextRows DEF RowStep
  <1>2. QED
    BY <1>1, ResolvedInvariant, PTL DEF Spec, ResolvedOnce

------------------------------------------------------------------------------
(* OneWinner, where each accept is written in its transaction *)

Ids(c) == {call[c].ids[i] : i \in 1..Len(call[c].ids)}
Told(c, op) == call[c].op \in op /\ call[c].result = "ok"

(* What a call that was told "ok" knows of its rows. *)
WonRows ==
  \A c \in Caller :
    /\ Told(c, {"accept"}) => \A p \in Ids(c) : created[p] = 1 /\ proposals[p].status \in {"accepted", "deleted"}
    /\ Told(c, {"reject", "batch"}) => \A p \in Ids(c) : proposals[p].status \in {"rejected", "deleted"}

(* A row that was not accepted has no entity. *)
NotMade == \A p \in Proposal : proposals[p].status \in {"unborn", "pending", "rejected"} => created[p] = 0

(* A transaction has locked every id before the one it resolves. *)
SoFar(c) ==
  /\ call[c].pc \notin {"idle", "done"} => call[c].result = "none"
  /\ call[c].pc = "begin" => call[c].k = 1
  /\ call[c].pc = "resolve" => \A i \in 1..Len(call[c].ids) : i < call[c].k => lock[call[c].ids[i]] = c
  /\ call[c].pc = "commit" => \A i \in 1..Len(call[c].ids) : lock[call[c].ids[i]] = c
  /\ call[c].op = "reject" => Len(call[c].ids) = 1

LockedSoFar == \A c \in Caller : SoFar(c)

WinInv == WonRows /\ NotMade /\ LockedSoFar

(* What one step does to a row and its entities. *)
RowPromise(p) ==
  /\ proposals[p].status = "accepted" => proposals'[p].status \in {"accepted", "deleted"}
  /\ proposals[p].status = "deleted" => proposals'[p].status = "deleted"
  /\ proposals[p].status = "rejected" => proposals'[p].status \in {"rejected", "deleted"}
  /\ created'[p] # created[p] =>
       proposals[p].status = "pending" /\ proposals'[p].status = "accepted"
  /\ proposals'[p].status \in {"unborn", "pending"} => proposals[p].status \in {"unborn", "pending"}
  /\ proposals'[p].status = "rejected" => proposals[p].status \in {"pending", "rejected"}

LEMMA PromiseRows ==
  ASSUME Accepts \subseteq InTx, ConfirmInv, [Next]_vars, NEW p \in Proposal
  PROVE  RowPromise(p)
  <1>1. created \in [Proposal -> Nat] /\ proposals \in [Proposal -> Rows]
    BY DEF ConfirmInv, TypeOK
  <1>2. PromiseStep
    BY NextPromise
  <1>3. CASE UNCHANGED <<StatusOf, created>>
    BY <1>3 DEF StatusOf, RowPromise
  <1>4. ASSUME NEW q \in Proposal, Promise!Propose(q) PROVE RowPromise(p)
    BY <1>4 DEF Promise!Propose, RowPromise
  <1>5. ASSUME NEW q \in Proposal, Promise!Accept(q) PROVE RowPromise(p)
    BY <1>1, <1>5 DEF Promise!Accept, RowPromise
  <1>6. ASSUME NEW ps \in SUBSET Proposal, Promise!Reject(ps) \/ Promise!Forget(ps) PROVE RowPromise(p)
    BY <1>6 DEF Promise!Reject, Promise!Forget, RowPromise
  <1>7. QED
    BY <1>2, <1>3, <1>4, <1>5, <1>6 DEF PromiseStep, Promise!Next

(* What a step of c does to the calls: to its own and to nobody else's. *)
Silent(c) == call'[c].result # "ok"

Same(c) == call'[c].op = call[c].op /\ call'[c].ids = call[c].ids

(* The step that tells c "ok" resolves all its rows, which were pending. *)
Wins(c) ==
  /\ Same(c) /\ call'[c].k = call[c].k /\ call'[c].result = "ok" /\ call[c].op \in {"accept", "reject", "batch"}
  /\ \A p \in Ids(c) :
       /\ p \in Proposal /\ proposals[p].status = "pending" /\ proposals'[p].status = Resolution(c)
       /\ created'[p] = created[p] + IF call[c].op = "accept" THEN 1 ELSE 0

LEMMA ReturnFacts ==
  ASSUME TypeOK, NEW c \in Caller, NEW res, Return(c, res)
  PROVE  /\ Same(c) /\ call'[c].pc = "done" /\ call'[c].result = res /\ call'[c].k = call[c].k
         /\ \A d \in Caller \ {c} : call'[d] = call[d]
  BY DEF Return, TypeOK, Calls, Same

LEMMA MoveFacts ==
  ASSUME TypeOK, NEW c \in Caller, NEW pc,
         \/ call' = [call EXCEPT ![c].pc = pc]
         \/ call' = [call EXCEPT ![c].tx = TRUE, ![c].pc = pc]
         \/ call' = [call EXCEPT ![c].staged = 1, ![c].pc = pc]
  PROVE  /\ Same(c) /\ call'[c].pc = pc /\ call'[c].result = call[c].result /\ call'[c].k = call[c].k
         /\ \A d \in Caller \ {c} : call'[d] = call[d]
  BY DEF TypeOK, Calls, Same

LEMMA BeginsFacts ==
  ASSUME TypeOK, NEW c \in Caller, Begins(c)
  PROVE  /\ Silent(c) /\ SoFar(c)' /\ \A d \in Caller \ {c} : call'[d] = call[d]
         /\ UNCHANGED <<proposals, created, lock>>
  <1>1. ASSUME NEW r, r.result = "none", r.k = 1, r.pc \in {"begin", "get", "resolve_only"}, Start(c, r),
               r.op = "reject" => Len(r.ids) = 1
        PROVE  /\ Silent(c) /\ SoFar(c)' /\ \A d \in Caller \ {c} : call'[d] = call[d]
               /\ UNCHANGED <<proposals, created, lock>>
    <2>1. call' = [call EXCEPT ![c] = r] /\ UNCHANGED <<proposals, created, lock>>
      BY <1>1 DEF Start
    <2>2. call'[c] = r /\ \A d \in Caller \ {c} : call'[d] = call[d]
      BY <2>1 DEF TypeOK
    <2>3. QED
      BY <1>1, <2>1, <2>2 DEF Silent, SoFar
  <1>2. ASSUME NEW p \in Proposal, NEW entry \in Entries, CallAccept(c, p, entry)
        PROVE  \E r : /\ r.result = "none" /\ r.k = 1 /\ r.pc \in {"begin", "get", "resolve_only"} /\ Start(c, r)
                      /\ r.op = "reject" => Len(r.ids) = 1
    <2> DEFINE r == [Idle EXCEPT !.op = "accept", !.entry = entry, !.ids = <<p>>,
                       !.pc = IF entry = "mcp" /\ Backend = "postgres" THEN "begin" ELSE "get"]
    <2>1. r.result = "none" /\ r.k = 1 /\ r.pc \in {"begin", "get", "resolve_only"} /\ (r.op = "reject" => Len(r.ids) = 1)
      BY DEF Idle
    <2>2. Start(c, r)
      BY <1>2 DEF CallAccept
    <2> HIDE DEF r
    <2>3. QED
      BY <2>1, <2>2
  <1>3. ASSUME NEW p \in Proposal, CallReject(c, p)
        PROVE  \E r : /\ r.result = "none" /\ r.k = 1 /\ r.pc \in {"begin", "get", "resolve_only"} /\ Start(c, r)
                      /\ r.op = "reject" => Len(r.ids) = 1
    <2> DEFINE r == [Idle EXCEPT !.op = "reject", !.ids = <<p>>, !.pc = "resolve_only"]
    <2>1. r.result = "none" /\ r.k = 1 /\ r.pc \in {"begin", "get", "resolve_only"} /\ (r.op = "reject" => Len(r.ids) = 1)
      BY DEF Idle
    <2>2. Start(c, r)
      BY <1>3 DEF CallReject
    <2> HIDE DEF r
    <2>3. QED
      BY <2>1, <2>2
  <1>4. ASSUME NEW ids, CallBatchReject(c, ids)
        PROVE  \E r : /\ r.result = "none" /\ r.k = 1 /\ r.pc \in {"begin", "get", "resolve_only"} /\ Start(c, r)
                      /\ r.op = "reject" => Len(r.ids) = 1
    <2> DEFINE r == [Idle EXCEPT !.op = "batch", !.ids = ids, !.pc = "begin"]
    <2>1. r.result = "none" /\ r.k = 1 /\ r.pc \in {"begin", "get", "resolve_only"} /\ (r.op = "reject" => Len(r.ids) = 1)
      BY DEF Idle
    <2>2. Start(c, r)
      BY <1>4 DEF CallBatchReject
    <2> HIDE DEF r
    <2>3. QED
      BY <2>1, <2>2
  <1>5. QED
    BY <1>1, <1>2, <1>3, <1>4 DEF Begins

LEMMA StepFacts ==
  ASSUME Accepts \subseteq InTx, ConfirmInv, WinInv, NEW c \in Caller, Step(c) \/ StoreError(c)
  PROVE  /\ Silent(c) \/ Wins(c)
         /\ SoFar(c)' /\ \A d \in Caller \ {c} : call'[d] = call[d]
         /\ \A p \in Proposal : lock[p] \in Caller \ {c} => lock'[p] = lock[p]
  <1> DEFINE Goal == /\ Silent(c) \/ Wins(c)
                     /\ SoFar(c)' /\ \A d \in Caller \ {c} : call'[d] = call[d]
                     /\ \A p \in Proposal : lock[p] \in Caller \ {c} => lock'[p] = lock[p]
  <1>1. /\ TypeOK /\ SoFar(c)
        /\ call[c].pc \notin {"idle", "done"} => call[c].result = "none"
    BY DEF ConfirmInv, WinInv, LockedSoFar, SoFar
  <1>2. lock \in [Proposal -> Caller \cup {Nobody}] /\ \A p \in Proposal : lock[p] \in Caller \ {c} => Released(c)[p] = lock[p]
    BY <1>1 DEF TypeOK, Released
  <1>3. ASSUME NEW res \in {"gone", "error"}, Rollback(c, res) PROVE Goal
    <2>1. lock' = Released(c) /\ Return(c, res)
      BY <1>3 DEF Rollback
    <2>2. QED
      BY <1>1, <1>2, <2>1, ReturnFacts DEF Silent, SoFar, Same
  <1>4. ASSUME NEW pc, lock' = lock, call[c].pc \notin {"idle", "done"}, 
               pc \notin {"resolve", "commit"} \/ (call[c].k = 1 /\ pc = "resolve"),
               pc = "begin" => call[c].k = 1,
               \/ call' = [call EXCEPT ![c].pc = pc]
               \/ call' = [call EXCEPT ![c].tx = TRUE, ![c].pc = pc]
               \/ call' = [call EXCEPT ![c].staged = 1, ![c].pc = pc]
        PROVE  Goal
    <2>1. /\ Same(c) /\ call'[c].pc = pc /\ call'[c].result = "none" /\ call'[c].k = call[c].k
          /\ \A d \in Caller \ {c} : call'[d] = call[d]
      BY <1>1, <1>4, MoveFacts
    <2>2. call[c].ids \in Seq(Proposal)
      BY <1>1 DEF TypeOK, Calls
    <2>3. SoFar(c)'
      BY <1>1, <1>4, <2>1, <2>2 DEF SoFar, Same
    <2>4. QED
      BY <1>4, <2>1, <2>3 DEF Silent
  <1>5. call[c].op = "accept" => call[c].k = 1
    BY DEF ConfirmInv, CallInv
  <1>6. CASE Get(c) \/ Prepare(c) \/ Materialize(c)
    <2>1. call[c].op = "accept" /\ call[c].pc \in {"get", "read", "prepare", "materialize"}
      BY <1>6, Running DEF Get, Prepare, Materialize, CallInv
    <2>2. AfterGet(c) \notin {"resolve", "commit"}
      BY DEF AfterGet
    <2>3. CASE Get(c)
      BY <1>3, <1>4, <1>5, <2>1, <2>2, <2>3 DEF Get, Goto, NoWrite
    <2>4. CASE Prepare(c)
      <3>1. PICK pc : pc = "begin"
        OBVIOUS
      <3>2. lock' = lock /\ call' = [call EXCEPT ![c].pc = pc]
        BY <2>4, <3>1 DEF Prepare, Goto, NoWrite
      <3>3. pc \notin {"resolve", "commit"} /\ call[c].k = 1 /\ call[c].pc \notin {"idle", "done"}
        BY <1>5, <2>1, <3>1
      <3>4. QED
        BY <1>4, <3>2, <3>3
    <2>5. CASE Materialize(c)
      <3>1. call' = [call EXCEPT ![c].staged = 1, ![c].pc = "resolve"] /\ lock' = lock
        BY <2>1, <2>5, WrittenInTx DEF Materialize, NoWrite
      <3>2. QED
        BY <1>4, <1>5, <2>1, <3>1
    <2>6. QED
      BY <1>6, <2>3, <2>4, <2>5
  <1>7. CASE Begin(c)
    <2>1. call[c].pc = "begin" /\ call[c].k = 1 /\ lock' = lock
          /\ call' = [call EXCEPT ![c].tx = TRUE, ![c].pc = AfterBegin(c)]
      BY <1>1, <1>7 DEF Begin, NoWrite, SoFar
    <2>2. AfterBegin(c) \in {"resolve", "get", "materialize"}
      BY DEF AfterBegin
    <2>3. QED
      BY <1>4, <2>1, <2>2
  <1>8. CASE Resolve(c)
    <2>1. CASE ~Resolvable(c)
      BY <1>3, <1>8, <2>1 DEF Resolve
    <2>2. CASE Resolvable(c)
      <3>1. /\ lock' = [lock EXCEPT ![Id(c)] = c] /\ lock[Id(c)] = Nobody /\ call[c].pc = "resolve"
            /\ call' = IF call[c].k < Len(call[c].ids)
                       THEN [call EXCEPT ![c].k = @ + 1] ELSE [call EXCEPT ![c].pc = "commit"]
        BY <1>8, <2>2 DEF Resolve, Resolvable
      <3>2. /\ call[c] \in Calls /\ call[c].k \in 1..Len(call[c].ids) /\ call[c].ids \in Seq(Proposal)
            /\ Id(c) \in Proposal
        BY <3>1, Running DEF Calls
      <3>3. \A p \in Proposal : p # Id(c) => lock'[p] = lock[p]
        BY <1>2, <3>1
      <3>4. \A i \in 1..Len(call[c].ids) : i <= call[c].k => lock'[call[c].ids[i]] = c
        <4>1. TAKE i \in 1..Len(call[c].ids)
        <4>2. call[c].ids[i] \in Proposal
          BY <3>2
        <4>3. CASE call[c].ids[i] = Id(c)
          BY <1>2, <3>1, <3>2, <4>3
        <4>4. CASE call[c].ids[i] # Id(c)
          <5>1. i # call[c].k
            BY <4>4 DEF Id
          <5>2. i < call[c].k => lock[call[c].ids[i]] = c
            BY <1>1, <3>1 DEF SoFar
          <5>3. QED
            BY <3>2, <3>3, <4>2, <4>4, <5>1, <5>2
        <4>5. QED
          BY <4>3, <4>4
      <3>5. /\ Same(c) /\ call'[c].result = "none" /\ \A d \in Caller \ {c} : call'[d] = call[d]
            /\ \/ call'[c].pc = "resolve" /\ call'[c].k = call[c].k + 1
               \/ call'[c].pc = "commit" /\ call'[c].k = Len(call[c].ids) /\ call[c].k = Len(call[c].ids)
        <4>1. CASE call[c].k < Len(call[c].ids)
          BY <1>1, <3>1, <3>2, <4>1 DEF TypeOK, Calls, Same
        <4>2. CASE ~(call[c].k < Len(call[c].ids))
          <5>1. call[c].k = Len(call[c].ids)
            BY <3>2, <4>2
          <5>2. call' = [call EXCEPT ![c].pc = "commit"]
            BY <3>1, <4>2
          <5>3. QED
            BY <1>1, <3>1, <5>1, <5>2, MoveFacts
        <4>3. QED
          BY <4>1, <4>2
      <3>6. SoFar(c)'
        BY <1>1, <3>2, <3>4, <3>5 DEF SoFar, Same
      <3>7. QED
        BY <1>2, <3>1, <3>3, <3>5, <3>6, NobodyAssumption DEF Silent
    <2>3. QED
      BY <2>1, <2>2
  <1>9. CASE Commit(c)
    <2>1. call[c].pc = "commit" /\ CallInv(call[c]) /\ call[c].op \in {"accept", "batch"} /\ call[c].ids \in Seq(Proposal)
          /\ call[c].staged = IF call[c].op = "accept" THEN 1 ELSE 0
      BY <1>9, Running DEF Commit, CallInv, Calls
    <2>2. \A p \in Ids(c) : p \in Proposal /\ lock[p] = c
      BY <1>1, <2>1 DEF SoFar, Ids
    <2>3. lock' = Released(c) /\ (Return(c, "error") \/ Return(c, "ok"))
      <3>1. call[c].op = "accept" => ~WrittenAfterCommit(call[c].entry, Type(c))
        BY <2>1, WrittenInTx
      <3>2. QED
        BY <1>9, <3>1 DEF Commit
    <2>4. \A p \in Ids(c) : /\ p \in Proposal /\ proposals[p].status = "pending" /\ proposals'[p].status = Resolution(c)
                            /\ created'[p] = created[p] + IF call[c].op = "accept" THEN 1 ELSE 0
      <3>1. TAKE p \in Ids(c)
      <3>2. p \in Proposal /\ lock[p] = c /\ LockInv(p) /\ proposals[p] \in Rows
        BY <1>1, <2>2 DEF ConfirmInv, TypeOK
      <3>3. proposals'[p] = [proposals[p] EXCEPT !.status = Resolution(c)] /\ created'[p] = created[p] + call[c].staged
        BY <1>9, <3>2 DEF Commit
      <3>4. QED
        BY <2>1, <3>2, <3>3, NobodyAssumption DEF LockInv, Rows
    <2>5. CASE Return(c, "ok")
      <3>1. Wins(c)
        BY <1>1, <2>1, <2>4, <2>5, ReturnFacts DEF Wins
      <3>2. QED
        BY <1>1, <1>2, <2>3, <2>5, <3>1, ReturnFacts DEF SoFar, Same
    <2>6. CASE Return(c, "error")
      BY <1>1, <1>2, <2>3, <2>6, ReturnFacts DEF Silent, SoFar, Same
    <2>7. QED
      BY <2>3, <2>5, <2>6
  <1>10. CASE AfterCommit(c)
    BY <1>10, Running DEF AfterCommit, CallInv
  <1>11. CASE ResolveOnly(c)
    <2>1. call[c].pc = "resolve_only" /\ call[c].op = "reject" /\ call[c] \in Calls
          /\ call[c].k \in 1..Len(call[c].ids) /\ Id(c) \in Proposal /\ proposals[Id(c)] \in Rows /\ lock' = lock
      BY <1>11, Running DEF ResolveOnly, CallInv, NoWrite
    <2>2. CASE ~Resolvable(c)
      <3>1. Return(c, "gone")
        BY <1>11, <2>2 DEF ResolveOnly
      <3>2. QED
        BY <1>1, <2>1, <3>1, ReturnFacts DEF Silent, SoFar, Same
    <2>3. CASE Resolvable(c)
      <3>1. /\ Return(c, "ok") /\ proposals' = [proposals EXCEPT ![Id(c)].status = Resolution(c)]
            /\ created' = created /\ proposals[Id(c)].status = "pending"
        BY <1>11, <2>3 DEF ResolveOnly, Resolvable, Status
      <3>2. proposals'[Id(c)].status = Resolution(c)
        BY <1>1, <2>1, <3>1 DEF TypeOK, Rows
      <3>3. Ids(c) = {Id(c)}
        <4>1. Len(call[c].ids) = 1 /\ call[c].k = 1
          <5>1. Len(call[c].ids) = 1
            BY <1>1, <2>1 DEF SoFar
          <5>2. QED
            BY <2>1, <5>1
        <4>2. QED
          BY <4>1 DEF Ids, Id
      <3>4. created[Id(c)] \in Nat
        BY <1>1, <2>1 DEF TypeOK
      <3>5. Wins(c)
        BY <1>1, <2>1, <3>1, <3>2, <3>3, <3>4, ReturnFacts DEF Wins
      <3>6. QED
        BY <1>1, <2>1, <3>1, <3>5, ReturnFacts DEF SoFar, Same
    <2>4. QED
      BY <2>2, <2>3
  <1>12. CASE DeadlockVictim(c)
    BY <1>3, <1>12 DEF DeadlockVictim
  <1>13. CASE StoreError(c)
    <2>1. call[c].pc # "after_commit"
      BY <1>13, Running DEF StoreError, CallInv
    <2>2. QED
      BY <1>3, <1>13, <2>1 DEF StoreError
  <1>14. QED
    BY <1>6, <1>7, <1>8, <1>9, <1>10, <1>11, <1>12, <1>13 DEF Step

LEMMA WinStep ==
  ASSUME Accepts \subseteq InTx, ConfirmInv, WinInv, OneWinner, [Next]_vars
  PROVE  WinInv' /\ OneWinner'
  <1>1. \A p \in Proposal : RowPromise(p)
    BY PromiseRows
  <1>2. \A d \in Caller : Ids(d) \subseteq Proposal
    BY DEF ConfirmInv, TypeOK, Calls, Ids
  <1>3. \A d \in Caller : call[d].op = "accept" => Ids(d) = {Id(d)} /\ Id(d) \in Proposal
    <2>1. TAKE d \in Caller
    <2>2. call[d] \in Calls /\ (call[d].op = "accept" => Len(call[d].ids) = 1 /\ call[d].k = 1)
      BY DEF ConfirmInv, TypeOK, CallInv
    <2>3. QED
      BY <2>2 DEF Ids, Id, Calls
  <1>4. NotMade'
    BY <1>1 DEF WinInv, NotMade, RowPromise
  <1>5. ASSUME NEW d \in Caller, call'[d] = call[d]
        PROVE  /\ Told(d, {"accept"}) =>
                    \A p \in Ids(d) : created'[p] = 1 /\ proposals'[p].status \in {"accepted", "deleted"}
               /\ Told(d, {"reject", "batch"}) => \A p \in Ids(d) : proposals'[p].status \in {"rejected", "deleted"}
               /\ Ids(d)' = Ids(d) /\ Id(d)' = Id(d)
               /\ Told(d, {"accept"})' = Told(d, {"accept"}) /\ Told(d, {"reject", "batch"})' = Told(d, {"reject", "batch"})
    <2>1. Told(d, {"accept"}) =>
            \A p \in Ids(d) : created'[p] = 1 /\ proposals'[p].status \in {"accepted", "deleted"}
      <3>1. SUFFICES ASSUME Told(d, {"accept"}), NEW p \in Ids(d)
                     PROVE  created'[p] = 1 /\ proposals'[p].status \in {"accepted", "deleted"}
        OBVIOUS
      <3>2. p \in Proposal /\ created[p] = 1 /\ proposals[p].status \in {"accepted", "deleted"}
        BY <1>2, <3>1 DEF WinInv, WonRows
      <3>3. QED
        BY <1>1, <3>2 DEF RowPromise
    <2>2. Told(d, {"reject", "batch"}) => \A p \in Ids(d) : proposals'[p].status \in {"rejected", "deleted"}
      <3>1. SUFFICES ASSUME Told(d, {"reject", "batch"}), NEW p \in Ids(d)
                     PROVE  proposals'[p].status \in {"rejected", "deleted"}
        OBVIOUS
      <3>2. p \in Proposal /\ proposals[p].status \in {"rejected", "deleted"}
        BY <1>2, <3>1 DEF WinInv, WonRows
      <3>3. QED
        BY <1>1, <3>2 DEF RowPromise
    <2>3. QED
      BY <1>5, <2>1, <2>2 DEF Ids, Id, Told
  <1>6. CASE \A d \in Caller : call'[d] = call[d] /\ SoFar(d)'
    <2>1. OneWinner'
      <3>1. ASSUME NEW d \in Caller, Told(d, {"accept"}) PROVE created'[Id(d)] = 1
        BY <1>3, <1>5, <1>6, <3>1 DEF Told
      <3>2. QED
        BY <1>6, <3>1 DEF OneWinner, Told, Id
    <2>2. QED
      BY <1>4, <1>5, <1>6, <2>1 DEF WinInv, WonRows, LockedSoFar
  <1>7. ASSUME NEW c \in Caller, Silent(c) \/ Wins(c), SoFar(c)', \A d \in Caller \ {c} : call'[d] = call[d],
               \A d \in Caller \ {c} : SoFar(d)'
        PROVE  WinInv' /\ OneWinner'
    <2>1. CASE Silent(c)
      <3>1. OneWinner'
        <4>1. ASSUME NEW d \in Caller \ {c}, Told(d, {"accept"}) PROVE created'[Id(d)] = 1
          BY <1>3, <1>5, <1>7, <4>1 DEF Told
        <4>2. QED
          BY <1>7, <2>1, <4>1 DEF OneWinner, Told, Id, Silent
      <3>2. WonRows'
        BY <1>5, <1>7, <2>1 DEF WonRows, Told, Silent
      <3>3. QED
        BY <1>4, <1>7, <3>1, <3>2 DEF WinInv, LockedSoFar
    <2>2. CASE Wins(c)
      <3>1. \A p \in Ids(c) : p \in Proposal /\ proposals[p].status = "pending" /\ created[p] = 0
        BY <2>2 DEF Wins, WinInv, NotMade
      <3>2. Ids(c)' = Ids(c) /\ call'[c].op = call[c].op /\ call[c].op \in {"accept", "reject", "batch"}
        BY <2>2 DEF Wins, Same, Ids
      <3>3. call[c].op = "accept" => \A p \in Ids(c) : created'[p] = 1 /\ proposals'[p].status = "accepted"
        BY <2>2, <3>1 DEF Wins, Resolution
      <3>4. call[c].op \in {"reject", "batch"} => \A p \in Ids(c) : proposals'[p].status = "rejected"
        BY <2>2 DEF Wins, Resolution
      <3>5. WonRows'
        BY <1>5, <1>7, <3>2, <3>3, <3>4 DEF WonRows, Told
      <3>6. OneWinner'
        <4>1. ASSUME NEW d \in Caller \ {c}, call[d].op # "none", call[d].result = "ok" PROVE Ids(d) \cap Ids(c) = {}
          <5>1. call[d].op \in {"accept", "reject", "batch"}
            BY <4>1 DEF ConfirmInv, TypeOK, Calls
          <5>2. \A p \in Ids(d) : proposals[p].status # "pending"
            BY <4>1, <5>1 DEF WinInv, WonRows, Told
          <5>3. QED
            BY <3>1, <5>2
        <4>2. ASSUME NEW d \in Caller \ {c}, call[d].op = "accept", call[d].result = "ok"
              PROVE  created'[Id(d)] = 1 /\ Id(d) \in Ids(d)
          BY <1>3, <1>5, <1>7, <4>2 DEF Told
        <4>3. call[c].op = "accept" => Id(c)' = Id(c) /\ Id(c) \in Ids(c) /\ created'[Id(c)] = 1
          <5>1. call[c].op = "accept" => Ids(c) = {Id(c)} /\ Len(call[c].ids) = 1 /\ call[c].k = 1
            BY <1>3 DEF ConfirmInv, CallInv
          <5>2. call[c].op = "accept" => call'[c].k = 1
            BY <2>2, <5>1 DEF Wins
          <5>3. QED
            BY <2>2, <3>3, <5>1, <5>2 DEF Wins, Same, Id
        <4>4. ASSUME NEW d \in Caller PROVE Ids(d) = {call[d].ids[i] : i \in DOMAIN call[d].ids}
          <5>1. call[d].ids \in Seq(Proposal)
            BY DEF ConfirmInv, TypeOK, Calls
          <5>2. DOMAIN call[d].ids = 1..Len(call[d].ids)
            BY <5>1
          <5>3. QED
            BY <5>2 DEF Ids
        <4>5. \A d \in Caller \ {c} : Id(d)' = Id(d) /\ Ids(d)' = Ids(d) /\ call'[d] = call[d]
          BY <1>7, <1>5
        <4>6. ASSUME NEW d \in Caller \ {c}, NEW e \in Caller \ {c, d}, call[d].op = "accept", call[d].result = "ok",
                     call[e].op # "none", call[e].result = "ok"
              PROVE  Id(d) \notin Ids(e)
          BY <4>4, <4>6 DEF OneWinner
        <4>7. \A d \in Caller : {call'[d].ids[i] : i \in DOMAIN call'[d].ids} = Ids(d)
          BY <1>7, <2>2, <4>4 DEF Wins, Same
        <4>8. ASSUME NEW d \in Caller, call'[d].op = "accept", call'[d].result = "ok"
              PROVE  /\ created'[Id(d)'] = 1
                     /\ \A e \in Caller \ {d} : call'[e].op # "none" /\ call'[e].result = "ok" => Id(d)' \notin Ids(e)
          <5>1. CASE d = c
            BY <3>2, <4>1, <4>3, <4>5, <4>8, <5>1
          <5>2. CASE d # c
            BY <4>1, <4>2, <4>5, <4>6, <4>8, <5>2
          <5>3. QED
            BY <5>1, <5>2
        <4>9. QED
          BY <4>7, <4>8 DEF OneWinner, Id
      <3>7. QED
        BY <1>4, <1>7, <3>5, <3>6 DEF WinInv, LockedSoFar
    <2>3. QED
      BY <1>7, <2>1, <2>2
  <1>8. \A d \in Caller : SoFar(d)
    BY DEF WinInv, LockedSoFar
  <1>9. ASSUME NEW d \in Caller, call'[d] = call[d],
               \A p \in Proposal : lock[p] = d => lock'[p] = d
        PROVE  SoFar(d)'
    <2>1. call[d].ids \in Seq(Proposal)
      BY DEF ConfirmInv, TypeOK, Calls
    <2>2. \A i \in 1..Len(call[d].ids) : call[d].ids[i] \in Proposal
      BY <2>1
    <2>3. QED
      BY <1>8, <1>9, <2>2 DEF SoFar
  <1>10. ASSUME NEW c \in Caller, Begins(c) PROVE WinInv' /\ OneWinner'
    <2>1. TypeOK
      BY DEF ConfirmInv
    <2>2. QED
      BY <1>7, <1>9, <1>10, <2>1, BeginsFacts
  <1>11. ASSUME NEW c \in Caller, Step(c) \/ StoreError(c) PROVE WinInv' /\ OneWinner'
    BY <1>7, <1>9, <1>11, StepFacts
  <1>12. ASSUME UNCHANGED <<call, lock>> PROVE WinInv' /\ OneWinner'
    BY <1>6, <1>9, <1>12
  <1>13. CASE Background
    BY <1>12, <1>13 DEF Background, Create, MarkStaleTasks, MarkStaleGoalFamily, DeleteStale, Prune
  <1>14. CASE UNCHANGED vars
    BY <1>12, <1>14 DEF vars
  <1>15. QED
    BY <1>10, <1>11, <1>13, <1>14 DEF Next

LEMMA InitWin == Init => WinInv /\ OneWinner
  BY DEF Init, Idle, WinInv, WonRows, NotMade, LockedSoFar, SoFar, OneWinner, Told

(* Whoever accepts, rejects and prunes one proposal at once, one caller at     *)
(* most is told that it accepted it, nobody else is told "ok" about it, and    *)
(* its entity is there exactly once.                                           *)
THEOREM AtMostOneWinner ==
  ASSUME Accepts \subseteq InTx
  PROVE  Spec => []OneWinner
  <1>1. Init => WinInv /\ OneWinner
    BY InitWin
  <1>2. ConfirmInv /\ WinInv /\ OneWinner /\ [Next]_vars => WinInv' /\ OneWinner'
    BY WinStep
  <1>3. Spec => []ConfirmInv
    BY ConfirmInvariant
  <1>4. QED
    BY <1>1, <1>2, <1>3, PTL DEF Spec

------------------------------------------------------------------------------
(* CreatedOnce, on the one connection of SQLite *)

(* A call on SQLite has one id; it holds the connection from its Begin to its *)
(* Commit, writes in its transaction or after it, and locks its own row only. *)
OneCall(c) ==
  /\ call[c].op # "batch" /\ call[c].k = 1
  /\ call[c].pc \notin {"idle", "done"} => call[c].op \in {"accept", "reject"} /\ Len(call[c].ids) = 1 /\ Id(c) \in Proposal
                                           /\ proposals[Id(c)].status # "unborn"
  /\ call[c].pc \in {"materialize", "resolve", "commit"} => call[c].tx
  /\ call[c].staged = 1 => call[c].pc \in {"resolve", "commit"} /\ ~WrittenAfterCommit(call[c].entry, Type(c))
  /\ call[c].pc = "after_commit" =>
       /\ WrittenAfterCommit(call[c].entry, Type(c))
       /\ proposals[Id(c)].status \in {"accepted", "deleted"} /\ created[Id(c)] = 0
  /\ call[c].pc \in {"get", "read", "prepare", "begin", "materialize", "resolve", "commit"} => call[c].op = "accept"

OneConnection ==
  /\ \A c, d \in Caller : call[c].tx /\ call[d].tx => c = d
  /\ \A c, d \in Caller : call[c].pc = "after_commit" /\ call[d].pc = "after_commit" /\ Id(c) = Id(d) => c = d
  /\ \A p \in Proposal : lock[p] # Nobody => call[lock[p]].pc \in {"resolve", "commit"} /\ Id(lock[p]) = p
  /\ \A c \in Caller : call[c].pc = "commit" => lock[Id(c)] = c

SqliteInv == ResolvedInv /\ (\A c \in Caller : OneCall(c)) /\ OneConnection /\ CreatedOnce

LEMMA NoneFree ==
  ASSUME PoolSize = 1, TypeOK, \A c, d \in Caller : call[c].tx /\ call[d].tx => c = d, Free
  PROVE  \A c \in Caller : ~call[c].tx
  <1> DEFINE S == {c \in Caller : call[c].tx}
  <1>1. SUFFICES ASSUME NEW c \in S PROVE FALSE
    OBVIOUS
  <1>2. S = {c}
    BY <1>1
  <1>3. Cardinality(S) = 1
    BY <1>2, FS_Singleton
  <1>4. QED
    BY <1>3 DEF Free, Open

(* What the steps of the other calls and of the prune do to a row of a call. *)
RowKept(p) ==
  /\ proposals[p].status # "unborn" => proposals'[p].status # "unborn" /\ proposals'[p].type = proposals[p].type
  /\ proposals[p].status \in {"accepted", "deleted"} => proposals'[p].status \in {"accepted", "deleted"}

LEMMA OneCallKept ==
  ASSUME TypeOK, NEW c \in Caller, OneCall(c), call'[c] = call[c],
         call[c].pc \notin {"idle", "done"} => RowKept(Id(c)),
         call[c].pc = "after_commit" => created'[Id(c)] = created[Id(c)]
  PROVE  OneCall(c)'
  <1>1. call[c] \in Calls /\ Id(c)' = Id(c)
    BY DEF TypeOK, Id
  <1>2. CASE call[c].pc \in {"idle", "done"}
    <2>1. call[c].staged # 1 /\ call[c].pc # "after_commit" /\ call[c].pc \notin {"materialize", "resolve", "commit"}
      BY <1>2 DEF OneCall
    <2>2. QED
      BY <1>2, <2>1 DEF OneCall
  <1>3. CASE call[c].pc \notin {"idle", "done"}
    <2>1. Type(c)' = Type(c)
      BY <1>1, <1>3 DEF OneCall, RowKept, Type
    <2>2. WrittenAfterCommit(call[c].entry, Type(c))' <=> WrittenAfterCommit(call[c].entry, Type(c))
      BY <2>1 DEF WrittenAfterCommit
    <2>3. QED
      BY <1>1, <1>3, <2>1, <2>2 DEF OneCall, RowKept
  <1>4. QED
    BY <1>2, <1>3

LEMMA RowsKeptAlways ==
  ASSUME ResolvedInv, [Next]_vars, NEW p \in Proposal
  PROVE  RowKept(p)
  <1>1. proposals \in [Proposal -> Rows] /\ RowStep(p)
    BY NextRows DEF ResolvedInv, TypeOK
  <1>2. SUFFICES ASSUME proposals[p].status # "unborn"
                 PROVE  proposals'[p].status # "unborn" /\ proposals'[p].type = proposals[p].type
    BY <1>1 DEF RowStep, RowKept
  <1>3. CASE proposals' = proposals
    BY <1>2, <1>3
  <1>4. ASSUME NEW c \in Caller, Commit(c)
        PROVE  proposals'[p].status # "unborn" /\ proposals'[p].type = proposals[p].type
    BY <1>1, <1>2, <1>4 DEF Commit, Resolution, Rows
  <1>5. ASSUME NEW c \in Caller, ResolveOnly(c)
        PROVE  proposals'[p].status # "unborn" /\ proposals'[p].type = proposals[p].type
    <2>1. proposals' = proposals \/ proposals' = [proposals EXCEPT ![Id(c)].status = Resolution(c)]
      BY <1>5 DEF ResolveOnly, NoWrite
    <2>2. QED
      BY <1>1, <1>2, <2>1 DEF Resolution, Rows
  <1>6. ASSUME NEW c \in Caller, Begins(c) \/ StoreError(c) \/ DeadlockVictim(c) \/ AfterCommit(c) \/ Resolve(c)
                                 \/ Get(c) \/ Prepare(c) \/ Begin(c) \/ Materialize(c)
        PROVE  proposals' = proposals
    BY <1>6 DEF Begins, CallAccept, CallReject, CallBatchReject, Start, StoreError, DeadlockVictim, Rollback,
       AfterCommit, Resolve, Get, Prepare, Begin, Materialize, NoWrite
  <1>7. ASSUME NEW q \in Proposal, NEW a \in Accepts, Create(q, a[2])
        PROVE  proposals'[p].status # "unborn" /\ proposals'[p].type = proposals[p].type
    BY <1>1, <1>2, <1>7 DEF Create
  <1>8. ASSUME NEW rows, NEW status \in {"rejected", "deleted"}, Prune(rows, status)
        PROVE  proposals'[p].status # "unborn" /\ proposals'[p].type = proposals[p].type
    BY <1>1, <1>2, <1>8 DEF Prune, Rows
  <1>9. CASE UNCHANGED vars
    BY <1>3, <1>9 DEF vars
  <1>10. CASE Background
    BY <1>7, <1>8, <1>10 DEF Background, MarkStaleTasks, MarkStaleGoalFamily, DeleteStale
  <1>11. QED
    BY <1>3, <1>4, <1>5, <1>6, <1>9, <1>10 DEF Next, Step

(* A step of c on SQLite, from what it does to its own call. *)
LEMMA SqliteStep ==
  ASSUME SqliteInv, [Next]_vars, NEW c \in Caller, \A d \in Caller \ {c} : call'[d] = call[d], OneCall(c)',
         call'[c].tx => call[c].tx \/ \A d \in Caller : ~call[d].tx,
         call'[c].pc = "after_commit" => call[c].pc = "after_commit" \/ proposals[Id(c)].status = "pending",
         call'[c].pc = "after_commit" => Id(c)' = Id(c),
         \A p \in Proposal : lock'[p] = c => call'[c].pc \in {"resolve", "commit"} /\ Id(c)' = p,
         \A p \in Proposal : lock'[p] # lock[p] => lock[p] \in {Nobody, c} /\ lock'[p] \in {Nobody, c},
         call'[c].pc = "commit" => \E p \in Proposal : Id(c)' = p /\ lock'[p] = c,
         CreatedOnce',
         \A p \in Proposal : created'[p] = created[p] \/ (p = Id(c) /\ (call[c].pc = "after_commit" \/ proposals[p].status = "pending"))
  PROVE  SqliteInv'
  <1>1. ResolvedInv' /\ TypeOK
    BY NextRows DEF SqliteInv, ResolvedInv
  <1>2. ASSUME NEW d \in Caller \ {c} PROVE OneCall(d)'
    <2>1. OneCall(d) /\ call'[d] = call[d]
      BY DEF SqliteInv
    <2>2. call[d].pc \notin {"idle", "done"} => RowKept(Id(d))
      BY <2>1, RowsKeptAlways DEF SqliteInv, OneCall
    <2>3. ASSUME call[d].pc = "after_commit" PROVE created'[Id(d)] = created[Id(d)]
      <3>1. Id(d) \in Proposal /\ proposals[Id(d)].status \in {"accepted", "deleted"}
        BY <2>1, <2>3 DEF OneCall
      <3>2. call[c].pc = "after_commit" => Id(d) # Id(c)
        BY <2>3 DEF SqliteInv, OneConnection
      <3>3. QED
        BY <3>1, <3>2
    <2>4. QED
      BY <1>1, <2>1, <2>2, <2>3, OneCallKept
  <1>3. \A d, e \in Caller : call'[d].tx /\ call'[e].tx => d = e
    BY DEF SqliteInv, OneConnection
  <1>4. \A d, e \in Caller : call'[d].pc = "after_commit" /\ call'[e].pc = "after_commit" /\ Id(d)' = Id(e)' => d = e
    <2>1. \A d \in Caller \ {c} : Id(d)' = Id(d)
      BY DEF Id
    <2>2. \A d \in Caller \ {c} : call[d].pc = "after_commit" => proposals[Id(d)].status # "pending"
      BY DEF SqliteInv, OneCall
    <2>3. \A d \in Caller \ {c} : call[d].pc = "after_commit" /\ call'[c].pc = "after_commit" => Id(d) # Id(c)
      BY <2>2 DEF SqliteInv, OneConnection
    <2>4. \A d, e \in Caller \ {c} : call[d].pc = "after_commit" /\ call[e].pc = "after_commit" /\ Id(d) = Id(e) => d = e
      BY DEF SqliteInv, OneConnection
    <2>5. QED
      BY <2>1, <2>3, <2>4
  <1>5. ASSUME NEW p \in Proposal, lock'[p] # Nobody
        PROVE  call'[lock'[p]].pc \in {"resolve", "commit"} /\ call'[lock'[p]].ids[call'[lock'[p]].k] = p
    <2>1. CASE lock'[p] = c
      BY <1>5, <2>1 DEF Id
    <2>2. CASE lock'[p] # c
      <3>1. lock'[p] = lock[p] /\ lock[p] \in Caller \ {c} /\ call'[lock[p]] = call[lock[p]]
        BY <1>1, <1>5, <2>2 DEF TypeOK
      <3>2. call[lock[p]].pc \in {"resolve", "commit"} /\ call[lock[p]].ids[call[lock[p]].k] = p
        BY <1>5, <3>1 DEF SqliteInv, OneConnection, Id
      <3>3. QED
        BY <3>1, <3>2
    <2>3. QED
      BY <2>1, <2>2
  <1>6. ASSUME NEW d \in Caller, call'[d].pc = "commit" PROVE lock'[Id(d)'] = d
    <2>1. CASE d = c
      BY <1>6, <2>1
    <2>2. CASE d # c
      <3>1. Id(d)' = Id(d) /\ call[d].pc = "commit"
        BY <1>6, <2>2 DEF Id
      <3>2. lock[Id(d)] = d /\ Id(d) \in Proposal
        BY <3>1 DEF SqliteInv, OneConnection, OneCall
      <3>3. QED
        BY <2>2, <3>1, <3>2, NobodyAssumption
    <2>3. QED
      BY <2>1, <2>2
  <1>7. OneConnection'
    BY <1>3, <1>4, <1>5, <1>6 DEF OneConnection, Id
  <1>8. QED
    BY <1>1, <1>2, <1>7 DEF SqliteInv

(* A step that moves the accept c and writes nothing but, perhaps, its lock. *)
MovesTo(c, pc) ==
  /\ call[c].pc \notin {"idle", "done"} /\ call[c].op = "accept"
  /\ call'[c].op = "accept" /\ call'[c].entry = call[c].entry /\ call'[c].ids = call[c].ids /\ call'[c].k = call[c].k
  /\ call'[c].pc = pc
  /\ \A d \in Caller \ {c} : call'[d] = call[d]
  /\ call'[c].staged = 1 => pc \in {"resolve", "commit"} /\ ~WrittenAfterCommit(call[c].entry, Type(c))
  /\ proposals' = proposals /\ created' = created

LEMMA MovedOne ==
  ASSUME SqliteInv, NEW c \in Caller,
         NEW pc \in {"get", "read", "prepare", "begin", "materialize", "resolve", "commit", "resolve_only"}, MovesTo(c, pc),
         pc \in {"materialize", "resolve", "commit"} => call'[c].tx
  PROVE  OneCall(c)' /\ Id(c)' = Id(c) /\ Id(c) \in Proposal /\ CreatedOnce'
  <1>1. OneCall(c) /\ CreatedOnce
    BY DEF SqliteInv
  <1>2. Id(c)' = Id(c) /\ Type(c)' = Type(c) /\ Id(c) \in Proposal
    BY <1>1 DEF Id, Type, OneCall, MovesTo
  <1>3. WrittenAfterCommit(call[c].entry, Type(c))' <=> WrittenAfterCommit(call[c].entry, Type(c))
    BY <1>2 DEF WrittenAfterCommit, MovesTo
  <1>4. OneCall(c)'
    BY <1>1, <1>2, <1>3 DEF OneCall, MovesTo
  <1>5. QED
    BY <1>1, <1>2, <1>4 DEF CreatedOnce, MovesTo

LEMMA SqliteMove ==
  ASSUME SqliteInv, [Next]_vars, NEW c \in Caller, call[c].pc \notin {"resolve", "commit"},
         NEW pc \in {"get", "read", "prepare", "begin", "materialize", "resolve", "resolve_only"}, MovesTo(c, pc),
         pc \in {"materialize", "resolve"} => call'[c].tx,
         call'[c].tx => call[c].tx \/ \A d \in Caller : ~call[d].tx,
         lock' = lock
  PROVE  SqliteInv'
  <1>1. OneCall(c)' /\ Id(c)' = Id(c) /\ Id(c) \in Proposal /\ CreatedOnce'
    BY MovedOne
  <1>2. \A p \in Proposal : lock[p] # c
    BY NobodyAssumption DEF SqliteInv, OneConnection
  <1>3. call'[c].pc \notin {"commit", "after_commit"} /\ created' = created /\ \A d \in Caller \ {c} : call'[d] = call[d]
    BY DEF MovesTo
  <1>4. QED
    BY <1>1, <1>2, <1>3, SqliteStep

(* A step that ends the call. *)
LEMMA SqliteReturn ==
  ASSUME SqliteInv, [Next]_vars, NEW c \in Caller, NEW res, Return(c, res), lock' = Released(c), CreatedOnce',
         \A p \in Proposal : created'[p] = created[p] \/ (p = Id(c) /\ (call[c].pc = "after_commit" \/ proposals[p].status = "pending"))
  PROVE  SqliteInv'
  <1>1. /\ call \in [Caller -> Calls] /\ OneCall(c) /\ lock \in [Proposal -> Caller \cup {Nobody}]
    BY DEF SqliteInv, ResolvedInv, TypeOK
  <1>2. /\ call'[c].pc = "done" /\ call'[c].tx = FALSE /\ call'[c].staged = 0 /\ call'[c].op = call[c].op
        /\ call'[c].k = call[c].k /\ \A d \in Caller \ {c} : call'[d] = call[d]
    BY <1>1 DEF Return, Calls
  <1>3. OneCall(c)'
    BY <1>1, <1>2 DEF OneCall
  <1>4. \A p \in Proposal : lock'[p] # c /\ (lock'[p] # lock[p] => lock[p] = c /\ lock'[p] = Nobody)
    BY <1>1, NobodyAssumption DEF Released
  <1>5. QED
    BY <1>2, <1>3, <1>4, SqliteStep

LEMMA SqliteRollback ==
  ASSUME SqliteInv, [Next]_vars, NEW c \in Caller, NEW res, Rollback(c, res)
  PROVE  SqliteInv'
  <1>1. Return(c, res) /\ lock' = Released(c) /\ created' = created /\ proposals' = proposals
    BY DEF Rollback
  <1>2. CreatedOnce'
    BY <1>1 DEF SqliteInv, CreatedOnce
  <1>3. QED
    BY <1>1, <1>2, SqliteReturn

LEMMA SqliteBegins ==
  ASSUME Backend = "sqlite", SqliteInv, [Next]_vars, NEW c \in Caller, Begins(c)
  PROVE  SqliteInv'
  <1>1. /\ call \in [Caller -> Calls] /\ TypeOK /\ call[c].pc \in {"idle", "done"}
        /\ UNCHANGED <<proposals, created, lock>> /\ \A d \in Caller \ {c} : call'[d] = call[d]
    <2>1. TypeOK
      BY DEF SqliteInv, ResolvedInv
    <2>2. call[c].pc \in {"idle", "done"}
      BY DEF Begins, CallAccept, CallReject, CallBatchReject, Start
    <2>3. QED
      BY <2>1, <2>2, BeginsFacts DEF TypeOK
  <1>2. PICK p \in Proposal : \/ \E entry \in Entries : CallAccept(c, p, entry)
                              \/ CallReject(c, p)
    BY DEF Begins, CallBatchReject
  <1> DEFINE Fresh(r) == /\ Start(c, r) /\ r.ids = <<p>> /\ r.k = 1 /\ ~r.tx /\ r.staged = 0
                         /\ (r.op = "accept" /\ r.pc = "get") \/ (r.op = "reject" /\ r.pc = "resolve_only")
  <1>3. \E r : Fresh(r)
    <2>1. ASSUME NEW entry \in Entries, CallAccept(c, p, entry) PROVE \E r : Fresh(r)
      <3> DEFINE r == [Idle EXCEPT !.op = "accept", !.entry = entry, !.ids = <<p>>, !.pc = "get"]
      <3>1. Start(c, r)
        BY <2>1 DEF CallAccept
      <3>2. r.ids = <<p>> /\ r.k = 1 /\ ~r.tx /\ r.staged = 0 /\ r.op = "accept" /\ r.pc = "get"
        BY DEF Idle
      <3> HIDE DEF r
      <3>3. QED
        BY <3>1, <3>2
    <2>2. ASSUME CallReject(c, p) PROVE \E r : Fresh(r)
      <3> DEFINE r == [Idle EXCEPT !.op = "reject", !.ids = <<p>>, !.pc = "resolve_only"]
      <3>1. Start(c, r)
        BY <2>2 DEF CallReject
      <3>2. r.ids = <<p>> /\ r.k = 1 /\ ~r.tx /\ r.staged = 0 /\ r.op = "reject" /\ r.pc = "resolve_only"
        BY DEF Idle
      <3> HIDE DEF r
      <3>3. QED
        BY <3>1, <3>2
    <2>3. QED
      BY <1>2, <2>1, <2>2
  <1>4. PICK r : Fresh(r)
    BY <1>3
  <1>5. call'[c] = r /\ proposals[p].status # "unborn" /\ Len(r.ids) = 1 /\ r.staged # 1
    BY <1>1, <1>4 DEF Start
  <1>6. Id(c)' = p
    BY <1>4, <1>5 DEF Id
  <1>7. OneCall(c)'
    BY <1>1, <1>4, <1>5, <1>6 DEF OneCall
  <1>8. \A q \in Proposal : lock[q] # c
    BY <1>1, NobodyAssumption DEF SqliteInv, OneConnection
  <1>9. CreatedOnce'
    BY <1>1 DEF SqliteInv, CreatedOnce
  <1>10. QED
    BY <1>1, <1>4, <1>5, <1>7, <1>8, <1>9, SqliteStep

LEMMA SqliteMaterialize ==
  ASSUME PoolSize = 1, SqliteInv, [Next]_vars, NEW c \in Caller, Materialize(c)
  PROVE  SqliteInv'
  <1>1. call[c].pc = "materialize" /\ call[c].tx /\ call[c].op = "accept" /\ call \in [Caller -> Calls]
    BY DEF Materialize, SqliteInv, OneCall, ResolvedInv, TypeOK
  <1>2. ~Free
    BY <1>1, NoneFree DEF SqliteInv, ResolvedInv, OneConnection
  <1>3. UNCHANGED <<proposals, created, lock>>
    BY <1>2 DEF Materialize, NoWrite
  <1>4. CASE call' = [call EXCEPT ![c].staged = 1, ![c].pc = "resolve"] /\ Accepted(c) \in InTx
    <2>1. ~WrittenAfterCommit(call[c].entry, Type(c))
      BY <1>4 DEF InTx, Accepted
    <2>2. MovesTo(c, "resolve") /\ call'[c].tx
      BY <1>1, <1>3, <1>4, <2>1 DEF Calls, MovesTo
    <2>3. QED
      BY <1>1, <1>3, <2>2, SqliteMove
  <1>5. CASE Goto(c, "resolve")
    <2>1. call[c].staged # 1
      BY <1>1 DEF SqliteInv, OneCall
    <2>2. MovesTo(c, "resolve") /\ call'[c].tx
      BY <1>1, <1>3, <1>5, <2>1 DEF Calls, MovesTo, Goto
    <2>3. QED
      BY <1>1, <1>3, <2>2, SqliteMove
  <1>6. QED
    BY <1>2, <1>4, <1>5 DEF Materialize

LEMMA SqliteResolve ==
  ASSUME SqliteInv, [Next]_vars, NEW c \in Caller, Resolve(c)
  PROVE  SqliteInv'
  <1>1. /\ call[c].pc = "resolve" /\ call[c].tx /\ call[c].op = "accept" /\ call \in [Caller -> Calls] /\ OneCall(c)
        /\ Len(call[c].ids) = 1 /\ call[c].k = 1 /\ call[c].staged \in 0..1 /\ TypeOK /\ Id(c) \in Proposal
    BY DEF Resolve, SqliteInv, OneCall, ResolvedInv, TypeOK, Calls
  <1>2. CASE Rollback(c, "gone")
    BY <1>2, SqliteRollback
  <1>3. CASE Resolvable(c)
    <2>1. /\ lock' = [lock EXCEPT ![Id(c)] = c] /\ UNCHANGED <<proposals, created>>
          /\ call' = [call EXCEPT ![c].pc = "commit"]
      BY <1>1, <1>3 DEF Resolve
    <2>2. call[c].staged = 1 => ~WrittenAfterCommit(call[c].entry, Type(c))
      BY <1>1 DEF OneCall
    <2>3. MovesTo(c, "commit") /\ call'[c].tx
      BY <1>1, <2>1, <2>2 DEF Calls, MovesTo
    <2>4. OneCall(c)' /\ Id(c)' = Id(c) /\ CreatedOnce'
      BY <2>3, MovedOne
    <2>5. lock[Id(c)] = Nobody /\ lock'[Id(c)] = c /\ \A p \in Proposal \ {Id(c)} : lock'[p] = lock[p] /\ lock[p] # c
      BY <1>1, <1>3, <2>1, NobodyAssumption DEF Resolvable, TypeOK, SqliteInv, OneConnection
    <2>6. call'[c].pc = "commit" /\ \A d \in Caller \ {c} : call'[d] = call[d]
      BY <2>3 DEF MovesTo
    <2>7. QED
      BY <1>1, <2>1, <2>4, <2>5, <2>6, SqliteStep
  <1>4. QED
    BY <1>2, <1>3 DEF Resolve

LEMMA SqliteReads ==
  ASSUME Backend = "sqlite", PoolSize = 1, SqliteInv, [Next]_vars, NEW c \in Caller, Get(c) \/ Prepare(c) \/ Begin(c)
  PROVE  SqliteInv'
  <1>1. /\ call[c].pc \in {"get", "read", "prepare", "begin"} /\ call[c].op = "accept"
        /\ call \in [Caller -> Calls] /\ call[c].staged # 1 /\ call[c].entry \in Entries
    <2>1. call[c].pc \in {"get", "read", "prepare", "begin"}
      BY DEF Get, Prepare, Begin
    <2>2. call \in [Caller -> Calls] /\ OneCall(c)
      BY DEF SqliteInv, ResolvedInv, TypeOK
    <2>3. QED
      BY <2>1, <2>2 DEF OneCall, Calls
  <1>2. ASSUME NEW pc \in {"read", "prepare", "begin", "resolve_only"}, Goto(c, pc), NoWrite PROVE SqliteInv'
    <2>1. MovesTo(c, pc) /\ call'[c].tx = call[c].tx
      BY <1>1, <1>2 DEF MovesTo, Goto, NoWrite, Calls
    <2>2. lock' = lock
      BY <1>2 DEF NoWrite
    <2>3. QED
      BY <1>1, <2>1, <2>2, <1>2, SqliteMove
  <1>3. CASE Get(c)
    <2>1. CASE Rollback(c, "gone")
      BY <2>1, SqliteRollback
    <2>2. CASE Goto(c, AfterGet(c)) /\ NoWrite
      <3>1. AfterGet(c) \in {"read", "prepare", "begin", "resolve_only"}
        BY <1>1 DEF AfterGet
      <3>2. QED
        BY <2>2, <3>1, <1>2
    <2>3. QED
      BY <1>3, <2>1, <2>2 DEF Get
  <1>4. CASE Prepare(c)
    BY <1>2, <1>4 DEF Prepare
  <1>5. CASE Begin(c)
    <2>1. \A d \in Caller : ~call[d].tx
      BY <1>5, NoneFree DEF Begin, SqliteInv, ResolvedInv, OneConnection
    <2>2. AfterBegin(c) = "materialize"
      BY <1>1 DEF AfterBegin
    <2>3. call' = [call EXCEPT ![c].tx = TRUE, ![c].pc = "materialize"] /\ NoWrite
      BY <1>5, <2>2 DEF Begin
    <2>4. MovesTo(c, "materialize") /\ call'[c].tx /\ lock' = lock
      BY <1>1, <2>3 DEF MovesTo, NoWrite, Calls
    <2>5. QED
      BY <1>1, <2>1, <2>4, SqliteMove
  <1>6. QED
    BY <1>3, <1>4, <1>5

(* A call that holds no lock releases none. *)
LEMMA NothingReleased ==
  ASSUME SqliteInv, NEW c \in Caller, call[c].pc \notin {"resolve", "commit"}
  PROVE  Released(c) = lock
  <1>1. lock \in [Proposal -> Caller \cup {Nobody}] /\ \A p \in Proposal : lock[p] # c
    BY NobodyAssumption DEF SqliteInv, OneConnection, ResolvedInv, TypeOK
  <1>2. QED
    BY <1>1 DEF Released

LEMMA SqliteWrites ==
  ASSUME SqliteInv, [Next]_vars, NEW c \in Caller, AfterCommit(c) \/ ResolveOnly(c)
  PROVE  SqliteInv'
  <1>1. /\ call[c].pc \in {"after_commit", "resolve_only"} /\ Id(c) \in Proposal
        /\ proposals \in [Proposal -> Rows] /\ created \in [Proposal -> Nat]
    BY DEF AfterCommit, ResolveOnly, SqliteInv, OneCall, ResolvedInv, TypeOK
  <1>2. Released(c) = lock
    BY <1>1, NothingReleased
  <1>3. CASE AfterCommit(c)
    <2>1. /\ call[c].pc = "after_commit" /\ created' = [created EXCEPT ![Id(c)] = @ + 1] /\ Return(c, "ok")
          /\ proposals' = proposals /\ lock' = lock
      BY <1>3 DEF AfterCommit
    <2>2. proposals[Id(c)].status \in {"accepted", "deleted"} /\ created[Id(c)] = 0
      BY <2>1 DEF SqliteInv, OneCall
    <2>3. created'[Id(c)] = 1 /\ \A p \in Proposal \ {Id(c)} : created'[p] = created[p]
      BY <1>1, <2>1, <2>2
    <2>4. CreatedOnce'
      BY <1>1, <2>1, <2>2, <2>3 DEF SqliteInv, CreatedOnce
    <2>5. QED
      BY <1>2, <2>1, <2>3, <2>4, SqliteReturn
  <1>4. CASE ResolveOnly(c)
    <2>1. lock' = lock /\ created' = created /\ \E res : Return(c, res)
      BY <1>4 DEF ResolveOnly, NoWrite
    <2>2. CreatedOnce'
      BY <2>1, RowsKeptAlways DEF SqliteInv, CreatedOnce, RowKept
    <2>3. QED
      BY <1>2, <2>1, <2>2, SqliteReturn
  <1>5. QED
    BY <1>3, <1>4

LEMMA SqliteCommit ==
  ASSUME SqliteInv, [Next]_vars, NEW c \in Caller, Commit(c)
  PROVE  SqliteInv'
  <1>1. /\ call[c].pc = "commit" /\ call[c].op = "accept" /\ call \in [Caller -> Calls] /\ OneCall(c)
        /\ call[c].staged \in 0..1 /\ Id(c) \in Proposal /\ lock[Id(c)] = c
        /\ proposals \in [Proposal -> Rows] /\ created \in [Proposal -> Nat] /\ lock \in [Proposal -> Caller \cup {Nobody}]
    BY DEF Commit, SqliteInv, OneCall, OneConnection, ResolvedInv, TypeOK, Calls
  <1>2. \A p \in Proposal \ {Id(c)} : lock[p] # c
    BY <1>1, NobodyAssumption DEF SqliteInv, OneConnection
  <1>3. proposals[Id(c)].status = "pending"
    BY <1>1, NobodyAssumption DEF SqliteInv, ResolvedInv, LockedPending
  <1>4. created[Id(c)] = 0
    BY <1>1, <1>3 DEF SqliteInv, CreatedOnce
  <1>5. /\ proposals'[Id(c)].status = "accepted" /\ proposals'[Id(c)].type = proposals[Id(c)].type
        /\ created'[Id(c)] = call[c].staged /\ lock' = Released(c)
        /\ \A p \in Proposal \ {Id(c)} : proposals'[p] = proposals[p] /\ created'[p] = created[p]
    BY <1>1, <1>2, <1>4 DEF Commit, Resolution, Rows
  <1>6. CreatedOnce'
    BY <1>1, <1>5 DEF SqliteInv, CreatedOnce
  <1>7. CASE \E res : Return(c, res)
    BY <1>1, <1>3, <1>5, <1>6, <1>7, SqliteReturn
  <1>8. CASE /\ call' = [call EXCEPT ![c].pc = "after_commit", ![c].tx = FALSE]
             /\ WrittenAfterCommit(call[c].entry, Type(c))
    <2>1. /\ call'[c].pc = "after_commit" /\ ~call'[c].tx /\ call'[c].op = "accept" /\ call'[c].entry = call[c].entry
          /\ call'[c].ids = call[c].ids /\ call'[c].k = call[c].k /\ call'[c].staged = call[c].staged
          /\ \A d \in Caller \ {c} : call'[d] = call[d]
      BY <1>1, <1>8 DEF Calls
    <2>2. Id(c)' = Id(c) /\ Type(c)' = Type(c)
      BY <1>5, <2>1 DEF Id, Type
    <2>3. WrittenAfterCommit(call[c].entry, Type(c))' <=> WrittenAfterCommit(call[c].entry, Type(c))
      BY <2>1, <2>2 DEF WrittenAfterCommit
    <2>4. call[c].staged = 0
      BY <1>1, <1>8 DEF OneCall
    <2>5. OneCall(c)'
      BY <1>1, <1>5, <1>8, <2>1, <2>2, <2>3, <2>4 DEF OneCall
    <2>6. \A p \in Proposal : lock'[p] # c /\ (lock'[p] # lock[p] => lock[p] = c /\ lock'[p] = Nobody)
      BY <1>1, <1>5, NobodyAssumption DEF Released
    <2>7. QED
      BY <1>3, <1>5, <1>6, <2>1, <2>2, <2>5, <2>6, SqliteStep
  <1>9. QED
    BY <1>7, <1>8 DEF Commit

LEMMA SqliteNext ==
  ASSUME Backend = "sqlite", PoolSize = 1, SqliteInv, [Next]_vars
  PROVE  SqliteInv'
  <1>1. TypeOK
    BY DEF SqliteInv, ResolvedInv
  <1>2. ASSUME NEW c \in Caller, Begins(c) \/ Step(c) \/ StoreError(c) PROVE SqliteInv'
    <2>1. CASE StoreError(c) \/ DeadlockVictim(c)
      <3>1. \E res : Rollback(c, res)
        BY <2>1 DEF StoreError, DeadlockVictim
      <3>2. QED
        BY <3>1, SqliteRollback
    <2>2. QED
      BY <1>2, <2>1, SqliteBegins, SqliteReads, SqliteMaterialize, SqliteResolve, SqliteCommit, SqliteWrites DEF Step
  <1>3. ASSUME UNCHANGED <<call, lock, created>> PROVE SqliteInv'
    <2>1. \A c \in Caller : OneCall(c)'
      <3>1. TAKE c \in Caller
      <3>2. OneCall(c) /\ call'[c] = call[c] /\ created' = created
        BY <1>3 DEF SqliteInv
      <3>3. call[c].pc \notin {"idle", "done"} => RowKept(Id(c))
        BY <3>2, RowsKeptAlways DEF SqliteInv, OneCall
      <3>4. QED
        BY <1>1, <3>2, <3>3, OneCallKept
    <2>2. OneConnection'
      BY <1>3 DEF SqliteInv, OneConnection, Id
    <2>3. CreatedOnce'
      BY <1>3, RowsKeptAlways DEF SqliteInv, CreatedOnce, RowKept
    <2>4. QED
      BY <2>1, <2>2, <2>3, NextRows DEF SqliteInv
  <1>4. CASE Background
    BY <1>3, <1>4 DEF Background, Create, MarkStaleTasks, MarkStaleGoalFamily, DeleteStale, Prune
  <1>5. CASE UNCHANGED vars
    BY <1>3, <1>5 DEF vars
  <1>6. QED
    BY <1>2, <1>4, <1>5 DEF Next

LEMMA InitSqlite == Init => SqliteInv
  <1>1. Init => \A c \in Caller : OneCall(c)
    BY DEF Init, Idle, OneCall
  <1>2. Init => OneConnection /\ CreatedOnce
    BY DEF Init, Idle, OneConnection, CreatedOnce
  <1>3. QED
    BY <1>1, <1>2, InitRows DEF SqliteInv

(* On SQLite, whatever is accepted and wherever its entity is written, no      *)
(* proposal is materialised twice, and none that was not accepted.  The one    *)
(* connection is what the argument rests on: a call that holds it leaves none  *)
(* to a materialiser outside the transaction, and the row of a call that has   *)
(* committed is no longer pending when its materialiser runs.                  *)
THEOREM SqliteMaterialisesOnce ==
  ASSUME Backend = "sqlite", PoolSize = 1
  PROVE  Spec => []CreatedOnce
  <1>1. SqliteInv /\ [Next]_vars => SqliteInv'
    BY SqliteNext
  <1>2. SqliteInv => CreatedOnce
    BY DEF SqliteInv
  <1>3. QED
    BY <1>1, <1>2, InitSqlite, PTL DEF Spec
==============================================================================
