------------------------- MODULE ProposalEntityProofs -------------------------
(***************************************************************************)
(* On Postgres an accepted proposal has its entity, whichever entry point  *)
(* and whichever connection wrote it, for any types and any pool.  What    *)
(* ConfirmInvariant says of accepts that write in their transaction only   *)
(* is weakened to what an accept of any type knows before it resolves its  *)
(* row: it has staged the entity, or the entity is there.                  *)
(***************************************************************************)
EXTENDS ProposalConfirmProofs

(* What an accept knows at each step. *)
AcceptKnows(c) ==
  /\ call[c].k = 1 /\ Len(call[c].ids) = 1
  /\ Id(c) \in Proposal /\ proposals[Id(c)].status # "unborn"
  /\ call[c].pc = "resolve_only" => Type(c) = "playbook"
  /\ call[c].pc \in {"resolve", "commit"} => call[c].staged = 1 \/ created[Id(c)] >= 1

EntityCall(c) ==
  /\ call[c].pc # "after_commit"
  /\ call[c].staged = 1 => call[c].op = "accept"
  /\ call[c].pc \in {"get", "read", "prepare", "materialize"} => call[c].op = "accept"
  /\ call[c].pc = "begin" => call[c].op \in {"accept", "batch"}
  /\ call[c].op = "accept" /\ call[c].pc \notin {"idle", "done"} => AcceptKnows(c)

(* A lock is held by a call that has yet to end, and an accept locks its row. *)
LockOwn(p) ==
  lock[p] # Nobody => /\ call[lock[p]].pc \in {"resolve", "commit"}
                      /\ call[lock[p]].op = "accept" => Id(lock[p]) = p

UnbornEmpty == \A p \in Proposal : proposals[p].status = "unborn" => created[p] = 0

EntityInv ==
  /\ ResolvedInv
  /\ \A c \in Caller : EntityCall(c)
  /\ \A p \in Proposal : LockOwn(p)
  /\ UnbornEmpty
  /\ EntityWithAcceptance

LEMMA EntityTypes ==
  ASSUME EntityInv
  PROVE  /\ TypeOK /\ call \in [Caller -> Calls] /\ proposals \in [Proposal -> Rows]
         /\ created \in [Proposal -> Nat] /\ lock \in [Proposal -> Caller \cup {Nobody}]
  BY DEF EntityInv, ResolvedInv, TypeOK

(* A call that does not move keeps what it knows: rows keep their type, and *)
(* entities stay.                                                            *)
LEMMA EntityCallKept ==
  ASSUME EntityInv, [Next]_vars, NEW c \in Caller, call'[c] = call[c],
         \A p \in Proposal : created'[p] >= created[p]
  PROVE  EntityCall(c)'
  <1>1. EntityCall(c) /\ Id(c)' = Id(c)
    BY DEF EntityInv, Id
  <1>2. ASSUME call[c].op = "accept", call[c].pc \notin {"idle", "done"} PROVE AcceptKnows(c)'
    <2>1. AcceptKnows(c)
      BY <1>1, <1>2 DEF EntityCall
    <2>2. PICK p \in Proposal : p = Id(c)
      BY <2>1 DEF AcceptKnows
    <2>3. RowKept(p)
      BY RowsKeptAlways DEF EntityInv
    <2>4. proposals'[p].status # "unborn" /\ proposals'[p].type = proposals[p].type
      BY <2>1, <2>2, <2>3 DEF AcceptKnows, RowKept
    <2>5. created[p] >= 1 => created'[p] >= 1
      <3>1. created \in [Proposal -> Nat] /\ created' \in [Proposal -> Nat]
        BY NextRows DEF EntityInv, ResolvedInv, TypeOK
      <3>2. QED
        BY <3>1
    <2>6. QED
      BY <1>1, <2>1, <2>2, <2>4, <2>5 DEF AcceptKnows, Type
  <1>3. QED
    BY <1>1, <1>2 DEF EntityCall

(* A step of c, from what it does to its own call, its locks and the rows. *)
LEMMA EntityStep ==
  ASSUME EntityInv, [Next]_vars, NEW c \in Caller, \A d \in Caller \ {c} : call'[d] = call[d],
         EntityCall(c)',
         \A p \in Proposal : lock'[p] = c =>
            call'[c].pc \in {"resolve", "commit"} /\ (call'[c].op = "accept" => Id(c)' = p),
         \A p \in Proposal : lock'[p] # lock[p] => lock'[p] \in {Nobody, c},
         \A p \in Proposal : created'[p] >= created[p],
         UnbornEmpty', EntityWithAcceptance'
  PROVE  EntityInv'
  <1>1. ResolvedInv' /\ lock \in [Proposal -> Caller \cup {Nobody}]
    BY NextRows, EntityTypes DEF EntityInv
  <1>2. \A d \in Caller : EntityCall(d)'
    BY EntityCallKept
  <1>3. ASSUME NEW p \in Proposal PROVE LockOwn(p)'
    <2>1. CASE lock'[p] \in {c, Nobody}
      BY <2>1 DEF LockOwn, Id
    <2>2. CASE lock'[p] \notin {c, Nobody}
      <3>1. lock'[p] = lock[p] /\ lock[p] \in Caller \ {c} /\ LockOwn(p)
        BY <1>1, <2>2 DEF EntityInv
      <3>2. PICK d \in Caller \ {c} : d = lock[p] /\ call'[d] = call[d]
        BY <3>1
      <3>3. QED
        BY <2>2, <3>1, <3>2 DEF LockOwn, Id
    <2>3. QED
      BY <2>1, <2>2
  <1>4. QED
    BY <1>1, <1>2, <1>3 DEF EntityInv

(* A step that ends the call, having released its locks. *)
LEMMA EntityReturn ==
  ASSUME EntityInv, [Next]_vars, NEW c \in Caller, NEW res, Return(c, res), lock' = Released(c),
         \A p \in Proposal : created'[p] >= created[p], UnbornEmpty', EntityWithAcceptance'
  PROVE  EntityInv'
  <1>1. call \in [Caller -> Calls] /\ lock \in [Proposal -> Caller \cup {Nobody}]
    BY EntityTypes
  <1>2. call'[c].pc = "done" /\ call'[c].staged = 0 /\ \A d \in Caller \ {c} : call'[d] = call[d]
    BY <1>1 DEF Return, Calls
  <1>3. EntityCall(c)'
    BY <1>2 DEF EntityCall
  <1>4. \A p \in Proposal : lock'[p] # c /\ (lock'[p] # lock[p] => lock'[p] = Nobody)
    BY <1>1, NobodyAssumption DEF Released
  <1>5. QED
    BY <1>2, <1>3, <1>4, EntityStep

LEMMA RowsUnchanged ==
  ASSUME EntityInv, proposals' = proposals, created' = created
  PROVE  /\ \A p \in Proposal : created'[p] >= created[p]
         /\ UnbornEmpty' /\ EntityWithAcceptance'
  <1>1. \A p \in Proposal : created'[p] >= created[p]
    BY EntityTypes
  <1>2. QED
    BY <1>1 DEF EntityInv, UnbornEmpty, EntityWithAcceptance

LEMMA EntityRollback ==
  ASSUME EntityInv, [Next]_vars, NEW c \in Caller, NEW res, Rollback(c, res)
  PROVE  EntityInv'
  <1>1. Return(c, res) /\ lock' = Released(c) /\ proposals' = proposals /\ created' = created
    BY DEF Rollback
  <1>2. QED
    BY <1>1, EntityReturn, RowsUnchanged

(* A call that holds no lock. *)
LEMMA HoldsNothing ==
  ASSUME EntityInv, NEW c \in Caller, call[c].pc \notin {"resolve", "commit"}
  PROVE  (\A p \in Proposal : lock[p] # c) /\ Released(c) = lock
  <1>1. \A p \in Proposal : lock[p] # c
    BY NobodyAssumption DEF EntityInv, LockOwn
  <1>2. QED
    BY <1>1, EntityTypes DEF Released
(* A step on which c goes on, without touching a lock or a row. *)
GoesOn(c, pc) ==
  /\ call[c].pc \notin {"idle", "done", "resolve", "commit"}
  /\ Same(c) /\ call'[c].k = call[c].k /\ call'[c].pc = pc
  /\ \A d \in Caller \ {c} : call'[d] = call[d]
  /\ proposals' = proposals /\ lock' = lock

LEMMA EntityGoesOn ==
  ASSUME EntityInv, [Next]_vars, NEW c \in Caller,
         NEW pc \in {"get", "read", "prepare", "begin", "materialize", "resolve", "resolve_only"}, GoesOn(c, pc),
         pc \in {"get", "read", "prepare", "begin", "materialize"} \/ call'[c].staged = 1 => call[c].op = "accept",
         pc = "resolve_only" => Type(c) = "playbook",
         pc = "resolve" /\ call[c].op = "accept" => call'[c].staged = 1 \/ created'[Id(c)] >= 1,
         \A p \in Proposal : created'[p] >= created[p],
         UnbornEmpty', EntityWithAcceptance'
  PROVE  EntityInv'
  <1>1. EntityCall(c) /\ \A p \in Proposal : lock'[p] # c
    BY HoldsNothing DEF EntityInv, GoesOn
  <1>2. Id(c)' = Id(c) /\ Type(c)' = Type(c)
    BY DEF GoesOn, Same, Id, Type
  <1>3. call[c].op = "accept" => AcceptKnows(c)'
    BY <1>1, <1>2 DEF EntityCall, AcceptKnows, GoesOn, Same
  <1>4. EntityCall(c)'
    BY <1>3 DEF EntityCall, GoesOn, Same
  <1>5. QED
    BY <1>1, <1>4, EntityStep DEF GoesOn

LEMMA EntityBegins ==
  ASSUME EntityInv, [Next]_vars, NEW c \in Caller, Begins(c)
  PROVE  EntityInv'
  <1>1. TypeOK /\ call \in [Caller -> Calls]
    BY EntityTypes
  <1>2. call[c].pc \in {"idle", "done"}
    BY DEF Begins, CallAccept, CallReject, CallBatchReject, Start
  <1>3. UNCHANGED <<proposals, created, lock>> /\ \A d \in Caller \ {c} : call'[d] = call[d]
    BY <1>1, BeginsFacts
  <1>4. ASSUME NEW r, Start(c, r), r.staged = 0, r.pc \in {"begin", "get", "resolve_only"},
               r.op \in {"accept", "reject", "batch"},
               r.pc = "get" => r.op = "accept",
               r.pc = "begin" => r.op \in {"accept", "batch"},
               r.op = "accept" => r.pc # "resolve_only" /\ r.k = 1 /\ \E p \in Proposal : r.ids = <<p>>
        PROVE  EntityCall(c)'
    <2>1. call'[c] = r
      BY <1>1, <1>4 DEF Start
    <2>2. CASE r.op = "accept"
      <3>1. PICK p \in Proposal : r.ids = <<p>>
        BY <1>4, <2>2
      <3>2. Len(r.ids) = 1 /\ Id(c)' = p /\ proposals[p].status # "unborn"
        BY <1>4, <2>1, <2>2, <3>1 DEF Start, Id
      <3>3. QED
        BY <1>3, <1>4, <2>1, <2>2, <3>2 DEF EntityCall, AcceptKnows
    <2>3. QED
      BY <1>4, <2>1, <2>2 DEF EntityCall
  <1>5. ASSUME NEW p \in Proposal, NEW entry \in Entries, CallAccept(c, p, entry) PROVE EntityCall(c)'
    <2> DEFINE r == [Idle EXCEPT !.op = "accept", !.entry = entry, !.ids = <<p>>,
                       !.pc = IF entry = "mcp" /\ Backend = "postgres" THEN "begin" ELSE "get"]
    <2>1. Start(c, r)
      BY <1>5 DEF CallAccept
    <2>2. r.staged = 0 /\ r.pc \in {"begin", "get"} /\ r.op = "accept" /\ r.k = 1 /\ r.ids = <<p>>
      BY DEF Idle
    <2> HIDE DEF r
    <2>3. QED
      BY <1>4, <2>1, <2>2
  <1>6. ASSUME NEW p \in Proposal, CallReject(c, p) PROVE EntityCall(c)'
    <2> DEFINE r == [Idle EXCEPT !.op = "reject", !.ids = <<p>>, !.pc = "resolve_only"]
    <2>1. Start(c, r)
      BY <1>6 DEF CallReject
    <2>2. r.staged = 0 /\ r.pc = "resolve_only" /\ r.op = "reject"
      BY DEF Idle
    <2> HIDE DEF r
    <2>3. QED
      BY <1>4, <2>1, <2>2
  <1>7. ASSUME NEW ids, CallBatchReject(c, ids) PROVE EntityCall(c)'
    <2> DEFINE r == [Idle EXCEPT !.op = "batch", !.ids = ids, !.pc = "begin"]
    <2>1. Start(c, r)
      BY <1>7 DEF CallBatchReject
    <2>2. r.staged = 0 /\ r.pc = "begin" /\ r.op = "batch"
      BY DEF Idle
    <2> HIDE DEF r
    <2>3. QED
      BY <1>4, <2>1, <2>2
  <1>8. EntityCall(c)'
    BY <1>5, <1>6, <1>7 DEF Begins
  <1>9. \A p \in Proposal : lock[p] # c
    BY <1>2, HoldsNothing
  <1>10. QED
    BY <1>3, <1>8, <1>9, RowsUnchanged, EntityStep

LEMMA EntityReads ==
  ASSUME EntityInv, [Next]_vars, NEW c \in Caller, Get(c) \/ Prepare(c) \/ Begin(c)
  PROVE  EntityInv'
  <1>1. /\ call[c].pc \in {"get", "read", "prepare", "begin"} /\ TypeOK /\ call[c] \in Calls /\ EntityCall(c)
        /\ call[c].pc # "begin" => call[c].op = "accept"
    <2>1. call[c].pc \in {"get", "read", "prepare", "begin"} /\ EntityCall(c)
      BY DEF Get, Prepare, Begin, EntityInv
    <2>2. QED
      BY <2>1, EntityTypes DEF EntityCall
  <1>2. call[c].staged = 1 => call[c].op = "accept"
    BY <1>1 DEF EntityCall
  <1>3. ASSUME NEW pc \in {"get", "read", "prepare", "begin", "materialize", "resolve", "resolve_only"}, NoWrite,
               \/ call' = [call EXCEPT ![c].pc = pc]
               \/ call' = [call EXCEPT ![c].tx = TRUE, ![c].pc = pc],
               pc \in {"get", "read", "prepare", "begin", "materialize"} => call[c].op = "accept",
               pc = "resolve_only" => Type(c) = "playbook",
               pc = "resolve" => call[c].op # "accept"
        PROVE  EntityInv'
    <2>1. GoesOn(c, pc) /\ created' = created
      BY <1>1, <1>3, MoveFacts DEF GoesOn, NoWrite
    <2>2. call'[c].staged = call[c].staged
      BY <1>3, EntityTypes DEF Calls
    <2>3. proposals' = proposals /\ created' = created
      BY <1>3 DEF NoWrite
    <2>4. UnbornEmpty' /\ EntityWithAcceptance' /\ \A p \in Proposal : created'[p] >= created[p]
      BY <2>3, RowsUnchanged
    <2>5. QED
      BY <1>2, <1>3, <2>1, <2>2, <2>4, EntityGoesOn
  <1>4. CASE Get(c)
    <2>1. CASE Rollback(c, "gone")
      BY <2>1, EntityRollback
    <2>2. CASE Goto(c, AfterGet(c)) /\ NoWrite
      <3>1. AfterGet(c) \in {"materialize", "begin", "read", "prepare", "resolve_only"}
        BY DEF AfterGet
      <3>2. AfterGet(c) = "resolve_only" => Type(c) = "playbook"
        BY DEF AfterGet, NeverWritten
      <3>3. call[c].op = "accept"
        BY <1>1, <1>4 DEF Get
      <3>4. PICK pc : pc = AfterGet(c)
        OBVIOUS
      <3>5. call' = [call EXCEPT ![c].pc = pc] /\ NoWrite
        BY <2>2, <3>4 DEF Goto
      <3>6. QED
        BY <1>3, <3>1, <3>2, <3>3, <3>4, <3>5
    <2>3. QED
      BY <1>4, <2>1, <2>2 DEF Get
  <1>5. CASE Prepare(c)
    <2>1. call' = [call EXCEPT ![c].pc = "begin"] /\ NoWrite
      BY <1>5 DEF Prepare, Goto
    <2>2. call[c].op = "accept"
      BY <1>1, <1>5 DEF Prepare
    <2>3. QED
      BY <1>3, <2>1, <2>2
  <1>6. CASE Begin(c)
    <2>1. call[c].op # "batch" => call[c].op = "accept"
      BY <1>6 DEF EntityInv, EntityCall, Begin
    <2>2. QED
      BY <1>3, <1>6, <2>1 DEF Begin, AfterBegin
  <1>7. QED
    BY <1>4, <1>5, <1>6

LEMMA EntityMaterialize ==
  ASSUME Backend = "postgres", EntityInv, [Next]_vars, NEW c \in Caller, Materialize(c)
  PROVE  EntityInv'
  <1>1. /\ call[c].pc = "materialize" /\ call[c].op = "accept" /\ EntityCall(c) /\ AcceptKnows(c)
        /\ TypeOK /\ call[c] \in Calls /\ Id(c) \in Proposal
        /\ created \in [Proposal -> Nat] /\ proposals \in [Proposal -> Rows]
    <2>1. call[c].pc = "materialize" /\ EntityCall(c)
      BY DEF Materialize, EntityInv
    <2>2. QED
      BY <2>1, EntityTypes DEF EntityCall, AcceptKnows
  <1>2. CASE call' = [call EXCEPT ![c].staged = 1, ![c].pc = "resolve"] /\ NoWrite
    <2>1. proposals' = proposals /\ created' = created /\ lock' = lock
      BY <1>2 DEF NoWrite
    <2>2. GoesOn(c, "resolve")
      BY <1>1, <1>2, <2>1, MoveFacts DEF GoesOn
    <2>3. call'[c].staged = 1
      BY <1>2, EntityTypes DEF Calls
    <2>4. UnbornEmpty' /\ EntityWithAcceptance' /\ \A p \in Proposal : created'[p] >= created[p]
      BY <2>1, RowsUnchanged
    <2>5. QED
      BY <1>1, <2>2, <2>3, <2>4, EntityGoesOn
  <1>3. CASE /\ WrittenOnPool(call[c].entry, Type(c)) /\ created' = [created EXCEPT ![Id(c)] = @ + 1]
             /\ Goto(c, "resolve") /\ UNCHANGED <<proposals, lock, calls>>
    <2>1. GoesOn(c, "resolve") /\ call'[c].staged = call[c].staged
      <3>1. call' = [call EXCEPT ![c].pc = "resolve"] /\ proposals' = proposals /\ lock' = lock
        BY <1>3 DEF Goto
      <3>2. call'[c].staged = call[c].staged
        BY <3>1, EntityTypes DEF Calls
      <3>3. QED
        BY <1>1, <3>1, <3>2, MoveFacts DEF GoesOn
    <2>2. /\ created'[Id(c)] = created[Id(c)] + 1 /\ created'[Id(c)] >= 1
          /\ \A p \in Proposal \ {Id(c)} : created'[p] = created[p]
      BY <1>1, <1>3
    <2>3. \A p \in Proposal : created'[p] >= created[p]
      BY <1>1, <2>2
    <2>4. Type(c) \in {"knowledge", "playbook"}
      BY <1>3 DEF WrittenOnPool
    <2>5. UnbornEmpty'
      BY <1>1, <1>3, <2>2 DEF EntityInv, UnbornEmpty, AcceptKnows
    <2>6. EntityWithAcceptance'
      BY <1>1, <1>3, <2>2, <2>4 DEF EntityInv, EntityWithAcceptance, Type
    <2>7. QED
      BY <1>1, <2>1, <2>2, <2>3, <2>5, <2>6, EntityGoesOn
  <1>4. ~WrittenAfterCommit(call[c].entry, Type(c))
    BY DEF WrittenAfterCommit
  <1>5. QED
    BY <1>2, <1>3, <1>4 DEF Materialize

LEMMA EntityResolve ==
  ASSUME EntityInv, [Next]_vars, NEW c \in Caller, Resolve(c)
  PROVE  EntityInv'
  <1>1. /\ call[c].pc = "resolve" /\ EntityCall(c) /\ TypeOK /\ call[c] \in Calls
        /\ call \in [Caller -> Calls] /\ lock \in [Proposal -> Caller \cup {Nobody}]
    BY EntityTypes DEF Resolve, EntityInv
  <1>2. CASE Rollback(c, "gone")
    BY <1>2, EntityRollback
  <1>3. CASE Resolvable(c)
    <2>1. lock' = [lock EXCEPT ![Id(c)] = c] /\ proposals' = proposals /\ created' = created
      BY <1>3 DEF Resolve
    <2>2. /\ Same(c) /\ call'[c].pc \in {"resolve", "commit"} /\ call'[c].staged = call[c].staged
          /\ call[c].op = "accept" => call'[c].k = call[c].k
          /\ \A d \in Caller \ {c} : call'[d] = call[d]
      <3>1. CASE call[c].k < Len(call[c].ids)
        <4>1. call[c].op # "accept"
          <5>1. call[c].op = "accept" => call[c].k = 1 /\ Len(call[c].ids) = 1
            BY <1>1 DEF EntityCall, AcceptKnows
          <5>2. ASSUME call[c].k = 1, Len(call[c].ids) = 1 PROVE ~(call[c].k < Len(call[c].ids))
            BY <5>2
          <5>3. QED
            BY <3>1, <5>1, <5>2
        <4>2. call' = [call EXCEPT ![c].k = @ + 1]
          BY <1>3, <3>1 DEF Resolve
        <4>3. QED
          BY <1>1, <4>1, <4>2 DEF Calls, Same
      <3>2. CASE ~(call[c].k < Len(call[c].ids))
        <4>1. call' = [call EXCEPT ![c].pc = "commit"]
          BY <1>3, <3>2 DEF Resolve
        <4>2. call'[c].staged = call[c].staged
          BY <1>1, <4>1 DEF Calls
        <4>3. QED
          BY <1>1, <4>1, <4>2, MoveFacts
      <3>3. QED
        BY <3>1, <3>2
    <2>3. call[c].op = "accept" => Id(c)' = Id(c) /\ AcceptKnows(c)
      BY <1>1, <2>2 DEF Id, Same, EntityCall
    <2>4. EntityCall(c)'
      BY <1>1, <2>1, <2>2, <2>3 DEF EntityCall, AcceptKnows, Same, Type
    <2>5. \A p \in Proposal : lock'[p] = c => (call'[c].op = "accept" => Id(c)' = p)
      <3>1. ASSUME NEW p \in Proposal, lock'[p] = c, call[c].op = "accept" PROVE Id(c) = p
        <4>1. CASE lock[p] = c
          BY <3>1, <4>1, NobodyAssumption DEF EntityInv, LockOwn
        <4>2. CASE lock[p] # c
          BY <1>1, <2>1, <3>1, <4>2
        <4>3. QED
          BY <4>1, <4>2
      <3>2. QED
        BY <2>2, <2>3, <3>1 DEF Same
    <2>6. \A p \in Proposal : lock'[p] # lock[p] => lock'[p] = c
      BY <1>1, <2>1
    <2>7. QED
      BY <2>1, <2>2, <2>4, <2>5, <2>6, RowsUnchanged, EntityStep
  <1>4. QED
    BY <1>2, <1>3 DEF Resolve

LEMMA EntityCommit ==
  ASSUME Backend = "postgres", EntityInv, [Next]_vars, NEW c \in Caller, Commit(c)
  PROVE  EntityInv'
  <1>1. /\ call[c].pc = "commit" /\ EntityCall(c) /\ call[c] \in Calls
        /\ proposals \in [Proposal -> Rows] /\ created \in [Proposal -> Nat]
    BY EntityTypes DEF Commit, EntityInv
  <1>2. call[c].staged \in 0..1 /\ (call[c].staged = 1 => call[c].op = "accept")
    BY <1>1 DEF Calls, EntityCall
  <1>3. (\E res : Return(c, res)) /\ lock' = Released(c)
    BY DEF Commit, WrittenAfterCommit
  <1>4. ASSUME NEW p \in Proposal, lock[p] = c
        PROVE  /\ proposals[p].status = "pending" /\ proposals'[p].status = Resolution(c)
               /\ proposals'[p].type = proposals[p].type /\ created'[p] = created[p] + call[c].staged
               /\ call[c].op = "accept" => call[c].staged = 1 \/ created[p] >= 1
    <2>1. LockOwn(p) /\ proposals[p].status = "pending"
      BY <1>4, NobodyAssumption DEF EntityInv, ResolvedInv, LockedPending
    <2>2. call[c].op = "accept" => Id(c) = p /\ AcceptKnows(c)
      BY <1>1, <1>4, <2>1, NobodyAssumption DEF LockOwn, EntityCall
    <2>3. proposals'[p] = [proposals[p] EXCEPT !.status = Resolution(c)] /\ created'[p] = created[p] + call[c].staged
      BY <1>4 DEF Commit
    <2>4. QED
      BY <1>1, <2>1, <2>2, <2>3 DEF AcceptKnows, Rows
  <1>5. \A p \in Proposal : lock[p] # c => proposals'[p] = proposals[p] /\ created'[p] = created[p]
    BY DEF Commit
  <1>6. \A p \in Proposal : created'[p] >= created[p]
    BY <1>1, <1>2, <1>4, <1>5
  <1>7. UnbornEmpty'
    BY <1>4, <1>5 DEF EntityInv, UnbornEmpty, Resolution
  <1>8. ASSUME NEW p \in Proposal
        PROVE  /\ proposals'[p].status = "accepted" => created'[p] >= 1 \/ proposals'[p].type = "playbook"
               /\ proposals'[p].type \notin {"knowledge", "playbook"} =>
                    created'[p] = 0 \/ (created'[p] = 1 /\ proposals'[p].status \in {"accepted", "deleted"})
    <2>1. CASE lock[p] # c
      BY <1>5, <2>1 DEF EntityInv, EntityWithAcceptance
    <2>2. CASE lock[p] = c
      <3>1. proposals[p].type \notin {"knowledge", "playbook"} => created[p] = 0
        BY <1>4, <2>2 DEF EntityInv, EntityWithAcceptance
      <3>2. CASE call[c].op = "accept"
        BY <1>1, <1>2, <1>4, <2>2, <3>1, <3>2 DEF Resolution
      <3>3. CASE call[c].op # "accept"
        BY <1>1, <1>2, <1>4, <2>2, <3>1, <3>3 DEF Resolution
      <3>4. QED
        BY <3>2, <3>3
    <2>3. QED
      BY <2>1, <2>2
  <1>9. EntityWithAcceptance'
    BY <1>8 DEF EntityWithAcceptance
  <1>10. QED
    BY <1>3, <1>6, <1>7, <1>9, EntityReturn

LEMMA EntityResolveOnly ==
  ASSUME EntityInv, [Next]_vars, NEW c \in Caller, ResolveOnly(c)
  PROVE  EntityInv'
  <1>1. /\ call[c].pc = "resolve_only" /\ EntityCall(c) /\ proposals \in [Proposal -> Rows] /\ created \in [Proposal -> Nat]
    BY EntityTypes DEF ResolveOnly, EntityInv
  <1>2. lock' = Released(c) /\ created' = created /\ \E res : Return(c, res)
    BY <1>1, HoldsNothing DEF ResolveOnly, NoWrite
  <1>3. CASE proposals' = proposals
    BY <1>2, <1>3, RowsUnchanged, EntityReturn
  <1>4. CASE Resolvable(c) /\ proposals' = [proposals EXCEPT ![Id(c)].status = Resolution(c)]
    <2>1. \A p \in Proposal : /\ proposals'[p].type = proposals[p].type
                              /\ p # Id(c) => proposals'[p] = proposals[p]
                              /\ p = Id(c) => proposals[p].status = "pending" /\ proposals'[p].status = Resolution(c)
      BY <1>1, <1>4 DEF Rows, Resolvable, Status
    <2>2. Resolution(c) = "accepted" => Type(c) = "playbook"
      BY <1>1 DEF Resolution, EntityCall, AcceptKnows
    <2>3. \A p \in Proposal : created'[p] >= created[p]
      BY <1>1, <1>2
    <2>4. UnbornEmpty'
      BY <1>2, <2>1 DEF EntityInv, UnbornEmpty, Resolution
    <2>5. EntityWithAcceptance'
      BY <1>2, <2>1, <2>2 DEF EntityInv, EntityWithAcceptance, Type
    <2>6. QED
      BY <1>2, <2>3, <2>4, <2>5, EntityReturn
  <1>5. QED
    BY <1>3, <1>4 DEF ResolveOnly, NoWrite

LEMMA EntityBackground ==
  ASSUME EntityInv, [Next]_vars, Background
  PROVE  EntityInv'
  <1>1. proposals \in [Proposal -> Rows] /\ created \in [Proposal -> Nat]
    BY EntityTypes
  <1>2. ASSUME UNCHANGED <<created, lock, call>>, UnbornEmpty', EntityWithAcceptance' PROVE EntityInv'
    <2>1. \A p \in Proposal : created'[p] >= created[p]
      BY <1>1, <1>2
    <2>2. ResolvedInv' /\ \A c \in Caller : EntityCall(c)'
      BY <1>2, <2>1, NextRows, EntityCallKept DEF EntityInv
    <2>3. \A p \in Proposal : LockOwn(p)'
      BY <1>2 DEF EntityInv, LockOwn, Id
    <2>4. QED
      BY <1>2, <2>2, <2>3 DEF EntityInv
  <1>3. ASSUME NEW p \in Proposal, NEW a \in Accepts, Create(p, a[2]) PROVE EntityInv'
    <2>1. /\ created[p] = 0 /\ proposals'[p].status = "pending" /\ UNCHANGED <<created, lock, call>>
          /\ \A q \in Proposal \ {p} : proposals'[q] = proposals[q]
      BY <1>1, <1>3 DEF Create, EntityInv, UnbornEmpty
    <2>2. UnbornEmpty' /\ EntityWithAcceptance'
      BY <2>1 DEF EntityInv, UnbornEmpty, EntityWithAcceptance
    <2>3. QED
      BY <1>2, <2>1, <2>2
  <1>4. ASSUME NEW rows \in SUBSET Proposal, NEW status \in {"rejected", "deleted"}, Prune(rows, status),
               status = "deleted" \/ \A p \in rows : proposals[p].status = "pending",
               \A p \in rows : proposals[p].status # "unborn"
        PROVE  EntityInv'
    <2>1. \A p \in Proposal : /\ p \notin rows => proposals'[p] = proposals[p]
                              /\ p \in rows => proposals'[p].status = status /\ proposals'[p].type = proposals[p].type
      BY <1>1, <1>4 DEF Prune, Rows
    <2>2. UNCHANGED <<created, lock, call>>
      BY <1>4 DEF Prune
    <2>3. UnbornEmpty'
      BY <2>1, <2>2 DEF EntityInv, UnbornEmpty
    <2>4. EntityWithAcceptance'
      BY <1>4, <2>1, <2>2 DEF EntityInv, EntityWithAcceptance
    <2>5. QED
      BY <1>2, <2>2, <2>3, <2>4
  <1>5. ASSUME NEW ps \in SUBSET Proposal, NEW types
        PROVE  Pending(ps, types) \in SUBSET Proposal /\ \A p \in Pending(ps, types) : proposals[p].status = "pending"
    BY DEF Pending
  <1>6. ASSUME NEW ps \in SUBSET Proposal, DeleteStale(ps) PROVE EntityInv'
    <2> DEFINE rows == {p \in ps : proposals[p].status \in {"accepted", "rejected"}} \cup Pending(ps, {"decision"})
    <2>1. rows \in SUBSET Proposal /\ Prune(rows, "deleted") /\ \A p \in rows : proposals[p].status # "unborn"
      BY <1>5, <1>6 DEF DeleteStale
    <2> HIDE DEF rows
    <2>2. QED
      BY <1>4, <2>1
  <1>7. ASSUME NEW ps \in SUBSET Proposal, MarkStaleTasks(ps) \/ MarkStaleGoalFamily(ps) PROVE EntityInv'
    <2>1. PICK types : Prune(Pending(ps, types), "rejected")
      BY <1>7 DEF MarkStaleTasks, MarkStaleGoalFamily
    <2>2. QED
      BY <1>4, <1>5, <2>1
  <1>8. QED
    BY <1>3, <1>6, <1>7 DEF Background

LEMMA EntityNext ==
  ASSUME Backend = "postgres", EntityInv, [Next]_vars
  PROVE  EntityInv'
  <1>1. ASSUME NEW c \in Caller, Step(c) PROVE EntityInv'
    <2>1. ~AfterCommit(c)
      BY DEF EntityInv, EntityCall, AfterCommit
    <2>2. CASE DeadlockVictim(c)
      BY <2>2, EntityRollback DEF DeadlockVictim
    <2>3. QED
      BY <1>1, <2>1, <2>2, EntityReads, EntityMaterialize, EntityResolve, EntityCommit, EntityResolveOnly DEF Step
  <1>2. ASSUME NEW c \in Caller, StoreError(c) PROVE EntityInv'
    BY <1>2, EntityRollback DEF StoreError
  <1>3. CASE UNCHANGED vars
    <2>1. proposals' = proposals /\ created' = created /\ call' = call /\ lock' = lock /\ ResolvedInv'
      BY <1>3, NextRows DEF vars, EntityInv
    <2>2. \A c \in Caller : EntityCall(c)'
      BY <2>1, RowsUnchanged, EntityCallKept
    <2>3. \A p \in Proposal : LockOwn(p)'
      BY <2>1 DEF EntityInv, LockOwn, Id
    <2>4. QED
      BY <2>1, <2>2, <2>3, RowsUnchanged DEF EntityInv
  <1>4. QED
    BY <1>1, <1>2, <1>3, EntityBegins, EntityBackground DEF Next

LEMMA InitEntity == Init => EntityInv
  <1>1. Init => \A c \in Caller : EntityCall(c)
    BY DEF Init, Idle, EntityCall
  <1>2. Init => UnbornEmpty /\ EntityWithAcceptance /\ \A p \in Proposal : LockOwn(p)
    BY DEF Init, UnbornEmpty, EntityWithAcceptance, LockOwn
  <1>3. QED
    BY <1>1, <1>2, InitRows DEF EntityInv

(* On Postgres, with any types accepted through any entry point, an accepted  *)
(* proposal has its entity, playbooks excepted; and except for knowledge and  *)
(* playbooks, which the MCP path writes on the pool, the entity exists once   *)
(* and only where the proposal was accepted.                                  *)
THEOREM AcceptedHasEntity ==
  ASSUME Backend = "postgres"
  PROVE  Spec => []EntityWithAcceptance
  <1>1. EntityInv /\ [Next]_vars => EntityInv'
    BY EntityNext
  <1>2. EntityInv => EntityWithAcceptance
    BY DEF EntityInv
  <1>3. QED
    BY <1>1, <1>2, InitEntity, PTL DEF Spec

===============================================================================
