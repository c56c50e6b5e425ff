-------------------------- MODULE ProposalLockProofs --------------------------
(***************************************************************************)
(* Connections and row locks, for any types through any entry point, any   *)
(* pool and either backend: what a call holds at each of its steps, and    *)
(* from it that the pool is never exceeded, that no lock outlives its      *)
(* transaction, that only batches deadlock, and that a batch reject is one *)
(* or nothing.                                                             *)
(***************************************************************************)
EXTENDS ProposalConfirmProofs

BeginsFirst(c) == call[c].entry = "mcp" /\ Backend = "postgres"

(* When a call has its transaction open, and which rows it has locked: those *)
(* of the ids before the one it resolves.                                    *)
Holds(c) ==
  /\ call[c].pc \in {"materialize", "resolve", "commit"} => call[c].tx
  /\ call[c].pc \in {"idle", "done", "read", "prepare", "begin", "after_commit", "resolve_only"} => ~call[c].tx
  /\ call[c].pc = "get" => (call[c].tx <=> BeginsFirst(c))
  /\ call[c].pc = "read" => call[c].entry = "http"
  /\ call[c].op = "none" => call[c].pc = "idle"
  /\ call[c].op = "reject" => call[c].pc \in {"resolve_only", "done"}
  /\ call[c].op = "batch" => call[c].pc \in {"begin", "resolve", "commit", "done"}
  /\ call[c].op = "accept" => Len(call[c].ids) = 1 /\ call[c].k = 1
  /\ call[c].pc \notin {"idle", "done"} => call[c].k \in 1..Len(call[c].ids)
  /\ call[c].pc = "begin" => call[c].k = 1
  /\ call[c].pc = "resolve" => \A i \in 1..Len(call[c].ids) : i < call[c].k => lock[call[c].ids[i]] = c
  /\ call[c].pc = "commit" => \A i \in 1..Len(call[c].ids) : lock[call[c].ids[i]] = c

HeldBy(p, c) ==
  lock[p] = c => call[c].pc \in {"resolve", "commit"} /\ \E i \in 1..Len(call[c].ids) : call[c].ids[i] = p

HoldInv ==
  /\ ResolvedInv
  /\ \A c \in Caller : Holds(c)
  /\ \A p \in Proposal, c \in Caller : HeldBy(p, c)
  /\ PoolBounded

LEMMA HoldTypes ==
  ASSUME HoldInv, NEW c \in Caller
  PROVE  /\ TypeOK /\ call \in [Caller -> Calls] /\ call[c] \in Calls /\ Holds(c)
         /\ lock \in [Proposal -> Caller \cup {Nobody}] /\ call[c].ids \in Seq(Proposal)
  BY DEF HoldInv, ResolvedInv, TypeOK, Calls

LEMMA PoolStep ==
  ASSUME PoolBounded, NEW c \in Caller, \A d \in Caller \ {c} : call'[d] = call[d],
         call'[c].tx => call[c].tx \/ Free
  PROVE  PoolBounded'
  <1>1. PoolSize \in Nat /\ Cardinality(Open) \in Nat
    BY PoolAssumption, FS_CardinalityType DEF PoolBounded
  <1>2. CASE call'[c].tx /\ ~call[c].tx
    <2>1. Open' = Open \cup {c} /\ c \notin Open
      BY <1>2 DEF Open
    <2>2. IsFiniteSet(Open') /\ Cardinality(Open') = Cardinality(Open) + 1
      BY <2>1, FS_AddElement DEF PoolBounded
    <2>3. Cardinality(Open) < PoolSize
      BY <1>2 DEF Free
    <2>4. QED
      BY <1>1, <2>2, <2>3 DEF PoolBounded
  <1>3. CASE ~(call'[c].tx /\ ~call[c].tx)
    <2>1. Open' \subseteq Open
      BY <1>3 DEF Open
    <2>2. IsFiniteSet(Open') /\ Cardinality(Open') <= Cardinality(Open)
      BY <2>1, FS_Subset DEF PoolBounded
    <2>3. Cardinality(Open') \in Nat
      BY <2>2, FS_CardinalityType
    <2>4. QED
      BY <1>1, <2>2, <2>3 DEF PoolBounded
  <1>4. QED
    BY <1>2, <1>3

(* A step of c keeps HoldInv if it keeps what c holds and takes no lock from *)
(* another call.                                                             *)
LEMMA HoldStep ==
  ASSUME HoldInv, [Next]_vars, NEW c \in Caller, \A d \in Caller \ {c} : call'[d] = call[d],
         Holds(c)', \A p \in Proposal : HeldBy(p, c)',
         \A p \in Proposal : lock'[p] # lock[p] => lock[p] \in {Nobody, c} /\ lock'[p] \in {Nobody, c},
         call'[c].tx => call[c].tx \/ Free
  PROVE  HoldInv'
  <1>1. ResolvedInv'
    BY NextRows DEF HoldInv
  <1>2. ASSUME NEW d \in Caller \ {c} PROVE Holds(d)'
    <2>1. Holds(d) /\ call[d].ids \in Seq(Proposal) /\ d # Nobody
      BY HoldTypes, NobodyAssumption
    <2>2. \A i \in 1..Len(call[d].ids) : call[d].ids[i] \in Proposal
      BY <2>1
    <2>3. \A i \in 1..Len(call[d].ids) : lock[call[d].ids[i]] = d => lock'[call[d].ids[i]] = d
      BY <2>1, <2>2
    <2>4. QED
      BY <2>1, <2>3 DEF Holds, BeginsFirst
  <1>3. ASSUME NEW d \in Caller \ {c}, NEW p \in Proposal PROVE HeldBy(p, d)'
    <2>1. HeldBy(p, d) /\ d # Nobody
      BY NobodyAssumption DEF HoldInv
    <2>2. QED
      BY <2>1 DEF HeldBy
  <1>4. PoolBounded'
    BY PoolStep DEF HoldInv
  <1>5. QED
    BY <1>1, <1>2, <1>3, <1>4 DEF HoldInv

(* The end of a call: it holds nothing any more. *)
LEMMA HoldReturn ==
  ASSUME HoldInv, [Next]_vars, NEW c \in Caller, NEW res, Return(c, res), call[c].op # "none",
         lock' = Released(c) \/ (lock' = lock /\ ~call[c].tx)
  PROVE  HoldInv'
  <1>1. /\ call'[c].pc = "done" /\ ~call'[c].tx /\ call'[c].op = call[c].op /\ call'[c].ids = call[c].ids
        /\ call'[c].k = call[c].k /\ \A d \in Caller \ {c} : call'[d] = call[d]
    BY HoldTypes DEF Return, Calls
  <1>2. Holds(c)'
    BY <1>1, HoldTypes DEF Holds
  <1>3. \A p \in Proposal : lock'[p] # c
    <2>1. ASSUME NEW p \in Proposal, lock' = lock, ~call[c].tx PROVE lock'[p] # c
      BY <2>1, HoldTypes DEF HoldInv, HeldBy, Holds
    <2>2. ASSUME lock' = Released(c) PROVE \A p \in Proposal : lock'[p] # c
      BY <2>2, NobodyAssumption DEF Released
    <2>3. QED
      BY <2>1, <2>2
  <1>4. \A p \in Proposal : lock'[p] # lock[p] => lock[p] = c /\ lock'[p] = Nobody
    BY DEF Released
  <1>5. QED
    BY <1>1, <1>2, <1>3, <1>4, HoldStep DEF HeldBy

LEMMA HoldRollback ==
  ASSUME HoldInv, [Next]_vars, NEW c \in Caller, NEW res, Rollback(c, res), call[c].op # "none"
  PROVE  HoldInv'
  BY HoldReturn DEF Rollback

(* A call goes on without touching a lock. *)
LEMMA HoldMove ==
  ASSUME HoldInv, [Next]_vars, NEW c \in Caller, NEW pc, lock' = lock,
         \/ call' = [call EXCEPT ![c].pc = pc] /\ (call[c].tx <=> pc \in {"materialize", "resolve"})
         \/ call' = [call EXCEPT ![c].staged = 1, ![c].pc = pc] /\ call[c].tx /\ pc = "resolve"
         \/ call' = [call EXCEPT ![c].tx = TRUE, ![c].pc = pc] /\ Free
            /\ (pc \in {"materialize", "resolve"} \/ (pc = "get" /\ BeginsFirst(c))),
         call[c].pc \notin {"idle", "done", "resolve", "commit"},
         pc \in {"read", "prepare", "begin", "resolve_only", "materialize", "resolve", "get"},
         pc = "get" => BeginsFirst(c) /\ call'[c].tx,
         pc = "read" => call[c].entry = "http",
         pc \in {"begin", "resolve"} => call[c].k = 1,
         call[c].op \notin {"accept", "none"} => call[c].op = "batch" /\ pc = "resolve"
  PROVE  HoldInv'
  <1>1. call[c] \in Calls /\ call \in [Caller -> Calls] /\ Holds(c) /\ call[c].ids \in Seq(Proposal)
    BY HoldTypes
  <1>2. /\ call'[c].pc = pc /\ call'[c].op = call[c].op /\ call'[c].ids = call[c].ids
        /\ call'[c].k = call[c].k /\ call'[c].entry = call[c].entry
        /\ \A d \in Caller \ {c} : call'[d] = call[d]
        /\ call'[c].tx => call[c].tx \/ Free
        /\ call'[c].tx <=> pc \in {"materialize", "resolve", "get"}
    BY <1>1 DEF Calls
  <1>3. \A p \in Proposal : lock[p] # c
    BY DEF HoldInv, HeldBy
  <1>4. Len(call[c].ids) \in Nat
    BY <1>1
  <1>5. Holds(c)'
    BY <1>1, <1>2, <1>4 DEF Holds, BeginsFirst
  <1>6. QED
    BY <1>2, <1>3, <1>5, HoldStep DEF HeldBy

LEMMA HoldBegins ==
  ASSUME HoldInv, [Next]_vars, NEW c \in Caller, Begins(c)
  PROVE  HoldInv'
  <1>1. ASSUME NEW r, Start(c, r), r.k = 1, r.tx = FALSE,
               \/ r.op = "accept" /\ Len(r.ids) = 1 /\ r.pc = "begin"
               \/ r.op = "accept" /\ Len(r.ids) = 1 /\ r.pc = "get" /\ ~(r.entry = "mcp" /\ Backend = "postgres")
               \/ r.op = "reject" /\ Len(r.ids) = 1 /\ r.pc = "resolve_only"
               \/ r.op = "batch" /\ Len(r.ids) = 2 /\ r.pc = "begin"
        PROVE  HoldInv'
    <2>1. /\ call'[c] = r /\ lock' = lock /\ call[c].pc \in {"idle", "done"}
          /\ \A d \in Caller \ {c} : call'[d] = call[d]
      BY <1>1, HoldTypes DEF Start
    <2>2. Holds(c)'
      BY <1>1, <2>1 DEF Holds, BeginsFirst
    <2>3. \A p \in Proposal : HeldBy(p, c)'
      <3>1. \A p \in Proposal : lock[p] # c
        BY <2>1 DEF HoldInv, HeldBy
      <3>2. QED
        BY <2>1, <3>1 DEF HeldBy
    <2>4. ~call'[c].tx
      BY <1>1, <2>1
    <2>5. QED
      BY <2>1, <2>2, <2>3, <2>4, HoldStep
  <1>2. ASSUME NEW p \in Proposal, NEW entry \in Entries, CallAccept(c, p, entry) PROVE HoldInv'
    <2> DEFINE r == [Idle EXCEPT !.op = "accept", !.entry = entry, !.ids = <<p>>,
                       !.pc = IF entry = "mcp" /\ Backend = "postgres" THEN "begin" ELSE "get"]
    <2>1. /\ r.k = 1 /\ r.tx = FALSE /\ r.op = "accept" /\ Len(r.ids) = 1 /\ r.entry = entry
          /\ r.pc = IF entry = "mcp" /\ Backend = "postgres" THEN "begin" ELSE "get"
      BY DEF Idle
    <2>2. Start(c, r)
      BY <1>2 DEF CallAccept
    <2> HIDE DEF r
    <2>3. QED
      BY <1>1, <2>1, <2>2
  <1>3. ASSUME NEW p \in Proposal, CallReject(c, p) PROVE HoldInv'
    <2> DEFINE r == [Idle EXCEPT !.op = "reject", !.ids = <<p>>, !.pc = "resolve_only"]
    <2>1. r.k = 1 /\ r.tx = FALSE /\ r.op = "reject" /\ Len(r.ids) = 1 /\ r.pc = "resolve_only"
      BY DEF Idle
    <2>2. Start(c, r)
      BY <1>3 DEF CallReject
    <2> HIDE DEF r
    <2>3. QED
      BY <1>1, <2>1, <2>2
  <1>4. ASSUME NEW p \in Proposal, NEW q \in Proposal, CallBatchReject(c, <<p, q>>) PROVE HoldInv'
    <2> DEFINE r == [Idle EXCEPT !.op = "batch", !.ids = <<p, q>>, !.pc = "begin"]
    <2>1. r.k = 1 /\ r.tx = FALSE /\ r.op = "batch" /\ Len(r.ids) = 2 /\ r.pc = "begin"
      BY DEF Idle
    <2>2. Start(c, r)
      BY <1>4 DEF CallBatchReject
    <2> HIDE DEF r
    <2>3. QED
      BY <1>1, <2>1, <2>2
  <1>5. QED
    BY <1>2, <1>3, <1>4 DEF Begins

(* The steps before the row is resolved. *)
LEMMA HoldBefore ==
  ASSUME HoldInv, [Next]_vars, NEW c \in Caller, Get(c) \/ Prepare(c) \/ Begin(c) \/ Materialize(c)
  PROVE  HoldInv'
  <1>1. call[c] \in Calls /\ Holds(c) /\ call[c].op \in {"none", "accept", "reject", "batch"}
        /\ call[c].entry \in Entries /\ BackendAssumption
    BY HoldTypes, BackendAssumption DEF Calls
  <1>2. CASE Get(c)
    <2>1. call[c].pc \in {"get", "read"} /\ call[c].op = "accept" /\ call[c].k = 1
      BY <1>1, <1>2 DEF Get, Holds
    <2>2. CASE Status(c) = "pending"
      <3>1. PICK pc : pc = AfterGet(c)
        OBVIOUS
      <3>2. call' = [call EXCEPT ![c].pc = pc] /\ lock' = lock
        BY <1>2, <2>2, <3>1 DEF Get, Goto, NoWrite
      <3>3. /\ pc \in {"materialize", "begin", "resolve_only", "read", "prepare"}
            /\ call[c].tx <=> pc = "materialize"
            /\ pc = "read" => call[c].entry = "http"
        BY <1>1, <2>1, <3>1 DEF AfterGet, Holds, BeginsFirst, Entries
      <3>4. QED
        BY <2>1, <3>2, <3>3, HoldMove
    <2>3. CASE Status(c) # "pending"
      BY <1>2, <2>1, <2>3, HoldRollback DEF Get
    <2>4. QED
      BY <2>2, <2>3
  <1>3. CASE Prepare(c)
    <2>1. call[c].pc = "prepare" /\ call[c].op = "accept" /\ call[c].k = 1 /\ ~call[c].tx
      BY <1>1, <1>3 DEF Prepare, Holds
    <2>2. PICK pc : pc = "begin"
      OBVIOUS
    <2>3. call' = [call EXCEPT ![c].pc = pc] /\ lock' = lock
      BY <1>3, <2>2 DEF Prepare, Goto, NoWrite
    <2>4. /\ call[c].tx <=> pc \in {"materialize", "resolve"}
          /\ pc # "get" /\ pc # "read" /\ pc \in {"begin", "resolve"}
      BY <2>1, <2>2
    <2>5. QED
      BY <2>1, <2>3, <2>4, HoldMove
  <1>4. CASE Begin(c)
    <2>1. call[c].pc = "begin" /\ call[c].op \in {"accept", "batch"} /\ call[c].k = 1 /\ Free
      BY <1>1, <1>4 DEF Begin, Holds
    <2>2. PICK pc : pc = AfterBegin(c)
      OBVIOUS
    <2>3. call' = [call EXCEPT ![c].tx = TRUE, ![c].pc = pc] /\ lock' = lock /\ call'[c].tx
      BY <1>4, <2>2, HoldTypes DEF Begin, NoWrite, Calls
    <2>4. /\ pc \in {"materialize", "resolve"} \/ (pc = "get" /\ BeginsFirst(c))
          /\ call[c].op = "batch" => pc = "resolve"
      BY <2>1, <2>2 DEF AfterBegin, BeginsFirst
    <2>5. QED
      BY <2>1, <2>3, <2>4, HoldMove
  <1>5. CASE Materialize(c)
    <2>1. call[c].pc = "materialize" /\ call[c].op = "accept" /\ call[c].k = 1 /\ call[c].tx
      BY <1>1, <1>5 DEF Materialize, Holds
    <2>2. PICK pc : pc = "resolve"
      OBVIOUS
    <2>3. /\ \/ call' = [call EXCEPT ![c].pc = pc]
             \/ call' = [call EXCEPT ![c].staged = 1, ![c].pc = pc]
          /\ lock' = lock
      BY <1>5, <2>2 DEF Materialize, Goto, NoWrite
    <2>4. call[c].tx <=> pc \in {"materialize", "resolve"}
      BY <2>1, <2>2
    <2>5. QED
      BY <2>1, <2>2, <2>3, <2>4, HoldMove
  <1>6. QED
    BY <1>2, <1>3, <1>4, <1>5

(* Resolving a row locks it, and it is the only row an accept locks. *)
LEMMA HoldResolve ==
  ASSUME HoldInv, [Next]_vars, NEW c \in Caller, Resolve(c)
  PROVE  HoldInv'
  <1>1. /\ call[c] \in Calls /\ call \in [Caller -> Calls] /\ Holds(c) /\ call[c].ids \in Seq(Proposal)
        /\ lock \in [Proposal -> Caller \cup {Nobody}] /\ call[c].pc = "resolve"
    BY HoldTypes DEF Resolve
  <1>2. call[c].op # "none" /\ call[c].tx /\ call[c].k \in 1..Len(call[c].ids)
    BY <1>1 DEF Holds
  <1>3. CASE ~Resolvable(c)
    BY <1>2, <1>3, HoldRollback DEF Resolve
  <1>4. CASE Resolvable(c)
    <2>1. PICK k \in 1..Len(call[c].ids) : k = call[c].k
      BY <1>2
    <2>2. PICK p \in Proposal : p = call[c].ids[k]
      BY <1>1, <2>1
    <2>3. /\ lock[p] = Nobody /\ lock' = [lock EXCEPT ![p] = c]
          /\ call' = IF k < Len(call[c].ids) THEN [call EXCEPT ![c].k = @ + 1] ELSE [call EXCEPT ![c].pc = "commit"]
      BY <1>4, <2>1, <2>2 DEF Resolve, Resolvable, Id
    <2>4. /\ call'[c].op = call[c].op /\ call'[c].ids = call[c].ids /\ call'[c].tx
          /\ \A d \in Caller \ {c} : call'[d] = call[d]
          /\ k < Len(call[c].ids) => call'[c].pc = "resolve" /\ call'[c].k = k + 1
          /\ k >= Len(call[c].ids) => call'[c].pc = "commit" /\ call'[c].k = k
      BY <1>1, <1>2, <2>1, <2>3 DEF Calls
    <2>5. /\ lock'[p] = c
          /\ \A q \in Proposal \ {p} : lock'[q] = lock[q]
          /\ \A i \in 1..Len(call[c].ids) : call[c].ids[i] \in Proposal /\ (i < k => lock[call[c].ids[i]] = c)
      BY <1>1, <2>1, <2>3 DEF Holds
    <2>6. \A i \in 1..Len(call[c].ids) : i <= k => lock'[call[c].ids[i]] = c
      BY <2>1, <2>2, <2>5
    <2>7. Holds(c)'
      <3>1. CASE k < Len(call[c].ids)
        <4>1. Len(call[c].ids) \in Nat /\ k \in Nat
          BY <1>1, <2>1
        <4>2. /\ call'[c].k \in 1..Len(call'[c].ids)
              /\ \A i \in 1..Len(call'[c].ids) : i < call'[c].k => lock'[call'[c].ids[i]] = c
          BY <2>1, <2>4, <2>6, <3>1, <4>1
        <4>3. call[c].op \notin {"none", "reject"}
          BY <1>1, <1>2 DEF Holds
        <4>4. call[c].op # "accept"
          <5>1. call[c].op = "accept" => Len(call[c].ids) = 1 /\ call[c].k = 1
            BY <1>1 DEF Holds
          <5>2. ASSUME call[c].op = "accept" PROVE FALSE
            <6>1. k = 1 /\ Len(call[c].ids) = 1
              BY <2>1, <5>1, <5>2
            <6>2. QED
              BY <3>1, <6>1
          <5>3. QED
            BY <5>2
        <4>5. QED
          BY <1>1, <2>4, <3>1, <4>2, <4>3, <4>4 DEF Holds
      <3>2. CASE k >= Len(call[c].ids)
        BY <1>1, <2>1, <2>4, <2>6, <3>2 DEF Holds
      <3>3. QED
        BY <2>1, <3>1, <3>2
    <2>8. ASSUME NEW q \in Proposal PROVE HeldBy(q, c)'
      <3>1. HeldBy(q, c)
        BY DEF HoldInv
      <3>2. call'[c].pc \in {"resolve", "commit"}
        BY <2>1, <2>4
      <3>3. QED
        BY <2>1, <2>2, <2>4, <2>5, <3>1, <3>2 DEF HeldBy
    <2>9. \A q \in Proposal : lock'[q] # lock[q] => lock[q] \in {Nobody, c} /\ lock'[q] \in {Nobody, c}
      BY <2>3, <2>5
    <2>10. QED
      BY <1>2, <2>4, <2>7, <2>8, <2>9, HoldStep
  <1>5. QED
    BY <1>3, <1>4

(* The commit and what follows it, and the statement that is its own *)
(* transaction.                                                       *)
LEMMA HoldAfter ==
  ASSUME HoldInv, [Next]_vars, NEW c \in Caller, Commit(c) \/ AfterCommit(c) \/ ResolveOnly(c)
  PROVE  HoldInv'
  <1>1. /\ call[c] \in Calls /\ call \in [Caller -> Calls] /\ Holds(c) /\ call[c].ids \in Seq(Proposal)
    BY HoldTypes
  <1>2. call[c].op # "none"
    BY <1>1 DEF Holds, Commit, AfterCommit, ResolveOnly
  <1>3. CASE Commit(c)
    <2>1. CASE \E res : Return(c, res)
      BY <1>2, <1>3, <2>1, HoldReturn DEF Commit
    <2>2. CASE ~\E res : Return(c, res)
      <3>1. /\ call' = [call EXCEPT ![c].pc = "after_commit", ![c].tx = FALSE] /\ call[c].op = "accept"
            /\ lock' = Released(c) /\ call[c].pc = "commit"
        BY <1>3, <2>2 DEF Commit
      <3>2. /\ call'[c].pc = "after_commit" /\ ~call'[c].tx /\ call'[c].op = call[c].op
            /\ call'[c].ids = call[c].ids /\ call'[c].k = call[c].k
            /\ \A d \in Caller \ {c} : call'[d] = call[d]
        BY <1>1, <3>1 DEF Calls
      <3>3. Holds(c)'
        BY <1>1, <3>1, <3>2 DEF Holds
      <3>4. \A p \in Proposal : /\ lock'[p] # c
                                /\ lock'[p] # lock[p] => lock[p] = c /\ lock'[p] = Nobody
        BY <3>1, NobodyAssumption DEF Released
      <3>5. QED
        BY <3>2, <3>3, <3>4, HoldStep DEF HeldBy
    <2>3. QED
      BY <2>1, <2>2
  <1>4. CASE AfterCommit(c) \/ ResolveOnly(c)
    <2>1. ~call[c].tx /\ lock' = lock /\ \E res : Return(c, res)
      BY <1>1, <1>4 DEF AfterCommit, ResolveOnly, Holds, NoWrite
    <2>2. QED
      BY <1>2, <2>1, HoldReturn
  <1>5. QED
    BY <1>3, <1>4

(* Only a call that resolves waits for a row. *)
LEMMA Waiter ==
  ASSUME NEW d \in Caller, WaitsFor(d) \in Caller
  PROVE  call[d].pc = "resolve" /\ WaitsFor(d) = lock[Id(d)]
  BY NobodyAssumption DEF WaitsFor

LEMMA HoldFailure ==
  ASSUME HoldInv, [Next]_vars, NEW c \in Caller, DeadlockVictim(c) \/ StoreError(c)
  PROVE  HoldInv'
  <1>1. Holds(c)
    BY DEF HoldInv
  <1>2. CASE StoreError(c)
    <2>1. call[c].op # "none"
      BY <1>1, <1>2 DEF StoreError, Holds
    <2>2. QED
      BY <1>2, <2>1, HoldRollback DEF StoreError
  <1>3. CASE DeadlockVictim(c)
    <2>1. PICK cycle \in SUBSET Caller : c \in cycle /\ WaitsFor(c) \in cycle
      BY <1>3 DEF DeadlockVictim, Deadlocked
    <2>2. call[c].op # "none"
      BY <1>1, <2>1, Waiter DEF Holds
    <2>3. QED
      BY <1>3, <2>2, HoldRollback DEF DeadlockVictim
  <1>4. QED
    BY <1>2, <1>3

LEMMA HoldNext ==
  ASSUME HoldInv, [Next]_vars
  PROVE  HoldInv'
  <1>1. CASE Background \/ UNCHANGED vars
    <2>1. UNCHANGED <<call, lock>>
      BY <1>1 DEF Background, Create, MarkStaleTasks, MarkStaleGoalFamily, DeleteStale, Prune, vars
    <2>2. ResolvedInv'
      BY NextRows DEF HoldInv
    <2>3. QED
      BY <2>1, <2>2 DEF HoldInv, Holds, HeldBy, BeginsFirst, PoolBounded, Open
  <1>2. ASSUME NEW c \in Caller, Begins(c) \/ Step(c) \/ StoreError(c) PROVE HoldInv'
    BY <1>2, HoldBegins, HoldBefore, HoldResolve, HoldAfter, HoldFailure DEF Step
  <1>3. QED
    BY <1>1, <1>2 DEF Next

LEMMA InitHold == Init => HoldInv
  <1> SUFFICES ASSUME Init PROVE HoldInv
    OBVIOUS
  <1>1. ResolvedInv
    BY InitRows
  <1>2. \A c \in Caller : call[c] = Idle
    BY DEF Init
  <1>3. Open = {}
    BY <1>2 DEF Open, Idle
  <1>4. IsFiniteSet(Open) /\ Cardinality(Open) = 0
    BY <1>3, FS_EmptySet
  <1>5. PoolBounded
    BY <1>4, PoolAssumption DEF PoolBounded
  <1>6. \A p \in Proposal, c \in Caller : lock[p] # c
    BY NobodyAssumption DEF Init
  <1>7. \A c \in Caller : Holds(c)
    BY <1>2 DEF Holds, Idle
  <1>8. QED
    BY <1>1, <1>5, <1>6, <1>7 DEF HoldInv, HeldBy

(* What every call holds at each of its steps, on either backend. *)
THEOREM HoldInvariant == Spec => []HoldInv
  BY InitHold, HoldNext, PTL DEF Spec

(* Never more transactions than connections. *)
THEOREM PoolIsBounded == Spec => []PoolBounded
  <1>1. HoldInv => PoolBounded
    BY DEF HoldInv
  <1>2. QED
    BY <1>1, HoldInvariant, PTL

(* No lock outlives the transaction that took it. *)
THEOREM LocksAreReleased == Spec => []LocksEnd
  <1>1. ASSUME HoldInv, NEW p \in Proposal, lock[p] # Nobody PROVE call[lock[p]].tx
    <2>1. PICK c \in Caller : lock[p] = c
      BY <1>1 DEF HoldInv, ResolvedInv, TypeOK
    <2>2. QED
      BY <1>1, <2>1 DEF HoldInv, HeldBy, Holds
  <1>2. HoldInv => LocksEnd
    BY <1>1 DEF LocksEnd
  <1>3. QED
    BY <1>2, HoldInvariant, PTL

(* An accept that waits for its row holds no other, so nobody waits for it: *)
(* every member of a deadlock is a batch.                                   *)
THEOREM OnlyBatchesDeadlock == Spec => []DeadlocksAreBatches
  <1>1. ASSUME HoldInv, NEW cycle \in SUBSET Caller, Deadlocked(cycle), NEW c \in cycle
        PROVE  call[c].op = "batch"
    <2>1. WaitsFor(c) \in cycle \ {c} /\ \E e \in cycle : WaitsFor(e) = c
      BY <1>1 DEF Deadlocked
    <2>2. call[c].pc = "resolve" /\ lock[Id(c)] # c /\ Holds(c) /\ call[c] \in Calls
      BY <1>1, <2>1, Waiter, HoldTypes
    <2>3. PICK e \in cycle : call[e].pc = "resolve" /\ lock[Id(e)] = c
      BY <2>1, Waiter
    <2>4. Holds(e) /\ call[e].ids \in Seq(Proposal)
      BY <1>1, HoldTypes
    <2>5. Id(e) \in Proposal
      BY <2>3, <2>4 DEF Holds, Id
    <2>6. HeldBy(Id(e), c)
      BY <1>1, <2>5 DEF HoldInv
    <2>7. PICK i \in 1..Len(call[c].ids) : call[c].ids[i] = Id(e)
      BY <2>3, <2>6 DEF HeldBy
    <2>8. call[c].op # "accept"
      <3>1. SUFFICES ASSUME call[c].op = "accept" PROVE FALSE
        OBVIOUS
      <3>2. i = 1 /\ call[c].k = 1
        BY <2>2, <2>7, <3>1 DEF Holds
      <3>3. Id(c) = Id(e)
        BY <2>7, <3>2 DEF Id
      <3>4. QED
        BY <2>2, <2>3, <3>3
    <2>9. QED
      BY <2>2, <2>8 DEF Holds, Calls
  <1>2. HoldInv => DeadlocksAreBatches
    BY <1>1 DEF DeadlocksAreBatches
  <1>3. QED
    BY <1>2, HoldInvariant, PTL

------------------------------------------------------------------------------
(* Batches *)

(* The step that ends a batch's transaction resolves all its rows or none,   *)
(* and its answer says which.                                                *)
Resolved(c) ==
  \A p \in {call[c].ids[i] : i \in DOMAIN call[c].ids} :
    proposals[p].status = "pending" /\ proposals'[p].status = "rejected"

BatchEnd(c) ==
  \/ call'[c].result \in {"ok", "error"} /\ Resolved(c)
  \/ call'[c].result # "ok" /\ proposals' = proposals

(* At its commit a batch has locked all its rows, and they are pending. *)
LEMMA BatchCommits ==
  ASSUME HoldInv, NEW c \in Caller, call[c].op = "batch", Commit(c)
  PROVE  BatchEnd(c)
  <1>1. TypeOK /\ Holds(c) /\ call[c].ids \in Seq(Proposal) /\ call[c].pc = "commit"
    BY HoldTypes DEF Commit
  <1>2. Return(c, "error") \/ Return(c, "ok")
    BY DEF Commit
  <1>3. call'[c].result \in {"ok", "error"}
    BY <1>1, <1>2, ReturnFacts
  <1>4. ASSUME NEW i \in DOMAIN call[c].ids
        PROVE  proposals[call[c].ids[i]].status = "pending" /\ proposals'[call[c].ids[i]].status = "rejected"
    <2>1. i \in 1..Len(call[c].ids) /\ call[c].ids[i] \in Proposal
      BY <1>1
    <2>2. PICK p \in Proposal : p = call[c].ids[i]
      BY <2>1
    <2>3. lock[p] = c /\ proposals[p].status = "pending" /\ proposals[p] \in Rows
      BY <1>1, <2>1, <2>2, NobodyAssumption DEF HoldInv, ResolvedInv, LockedPending, TypeOK, Holds
    <2>4. proposals'[p] = [proposals[p] EXCEPT !.status = "rejected"]
      BY <2>3 DEF Commit, Resolution
    <2>5. QED
      BY <2>2, <2>3, <2>4 DEF Rows
  <1>5. QED
    BY <1>3, <1>4 DEF BatchEnd, Resolved

LEMMA BatchEnds ==
  ASSUME HoldInv, [Next]_vars, NEW c \in Caller, call[c].op = "batch", call[c].tx, ~call'[c].tx
  PROVE  BatchEnd(c)
  <1>1. TypeOK /\ Holds(c) /\ call \in [Caller -> Calls] /\ call[c] \in Calls
    BY HoldTypes
  <1>2. call[c].pc \in {"resolve", "commit"}
    BY <1>1 DEF Holds
  <1>3. ASSUME NEW res \in {"gone", "error"}, Rollback(c, res) PROVE BatchEnd(c)
    <2>1. Return(c, res) /\ proposals' = proposals
      BY <1>3 DEF Rollback
    <2>2. call'[c].result = res
      BY <1>1, <2>1, ReturnFacts
    <2>3. QED
      BY <2>1, <2>2 DEF BatchEnd
  <1>4. CASE Resolve(c)
    <2>1. CASE Resolvable(c)
      <3>1. \/ call' = [call EXCEPT ![c].k = call[c].k + 1]
            \/ call' = [call EXCEPT ![c].pc = "commit"]
        BY <1>4, <2>1 DEF Resolve
      <3>2. call'[c].tx = call[c].tx
        BY <1>1, <3>1 DEF Calls
      <3>3. QED
        BY <3>2
    <2>2. QED
      BY <1>3, <1>4, <2>1 DEF Resolve
  <1>5. CASE Commit(c)
    BY <1>5, BatchCommits
  <1>6. CASE DeadlockVictim(c) \/ StoreError(c)
    BY <1>2, <1>3, <1>6 DEF DeadlockVictim, StoreError
  <1>7. ~(Begins(c) \/ Get(c) \/ Prepare(c) \/ Begin(c) \/ Materialize(c) \/ AfterCommit(c) \/ ResolveOnly(c))
    BY <1>2 DEF Begins, CallAccept, CallReject, CallBatchReject, Start, Get, Prepare, Begin, Materialize,
       AfterCommit, ResolveOnly
  <1>8. ASSUME NEW d \in Caller \ {c}, Begins(d) \/ Step(d) \/ StoreError(d) PROVE call'[c] = call[c]
    <2>1. CASE Begins(d)
      BY <1>1, <2>1, BeginsFacts
    <2>2. CASE Get(d) \/ Prepare(d) \/ AfterCommit(d) \/ ResolveOnly(d) \/ DeadlockVictim(d) \/ StoreError(d)
      BY <1>1, <2>2 DEF Get, Prepare, AfterCommit, ResolveOnly, DeadlockVictim, StoreError, Rollback, Goto,
         Return
    <2>3. CASE Begin(d) \/ Materialize(d) \/ Resolve(d) \/ Commit(d)
      BY <1>1, <2>3 DEF Begin, Materialize, Resolve, Commit, Rollback, Goto, Return
    <2>4. QED
      BY <1>8, <2>1, <2>2, <2>3 DEF Step
  <1>9. ~Background /\ ~UNCHANGED vars
    BY DEF Background, Create, MarkStaleTasks, MarkStaleGoalFamily, DeleteStale, Prune, vars
  <1>10. QED
    BY <1>4, <1>5, <1>6, <1>7, <1>8, <1>9 DEF Next, Step

(* BatchConfirm rejects the whole batch or nothing, whoever else resolves or  *)
(* prunes its rows: "ok" only for all of it, "gone" only for none of it.      *)
THEOREM BatchIsAtomic == Spec => BatchAllOrNothing
  <1>1. HoldInv /\ [Next]_vars =>
          [\A c \in Caller : call[c].op = "batch" /\ call[c].tx /\ ~call'[c].tx =>
             LET ids == {call[c].ids[i] : i \in DOMAIN call[c].ids}
                 all == \A p \in ids : proposals[p].status = "pending" /\ proposals'[p].status = "rejected"
             IN  CASE call'[c].result = "ok"   -> all
                   [] call'[c].result = "gone" -> proposals' = proposals
                   [] OTHER                    -> all \/ proposals' = proposals]_vars
    BY BatchEnds DEF BatchEnd, Resolved
  <1>2. QED
    BY <1>1, HoldInvariant, PTL DEF Spec, BatchAllOrNothing
==============================================================================
