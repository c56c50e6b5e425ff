---------------------------- MODULE BackgroundProofs ----------------------------
(***************************************************************************)
(* Proofs about Background, for any events, any finite set of work         *)
(* requests and any capacities of the channel and the semaphore.           *)
(***************************************************************************)
EXTENDS Background, SequenceTheorems, FiniteSetTheorems, TLAPS

LEMMA InitIInv == Init => IInv
  <1> SUFFICES ASSUME Init PROVE IInv
    OBVIOUS
  <1>1. TypeOK
    <2>1. /\ queue \in Seq(Event) /\ hand \in Seq(Event) /\ sent \in Seq(Event) /\ tried \in Seq(Event)
          /\ Len(queue) = 0 /\ Len(hand) = 0
      BY DEF Init
    <2>2. /\ request \in [Request -> {"new", "open", "answered"}]
          /\ job \in [Work -> {"none", "spawned", "running", "skipped", "ended"}]
      BY DEF Init
    <2>3. slots \in 0..Slots /\ due \in Nat /\ Len(queue) <= QueueSize /\ Len(hand) <= 1
      BY <2>1, CapAssumption DEF Init
    <2>4. QED
      BY <2>1, <2>2, <2>3 DEF Init, TypeOK
  <1>2. Running = {}
    BY DEF Init, Running
  <1>3. SlotsHeld
    BY <1>2, FS_EmptySet DEF Init, SlotsHeld
  <1>4. InOrder
    BY DEF Init, InOrder
  <1>5. QED
    BY <1>1, <1>3, <1>4 DEF Init, IInv, BackgroundInv, StopFlushes, WorkerHolds, JobHolds

------------------------------------------------------------------------------
(* The channel: what is taken from its head and added at its end. *)
LEMMA Sent ==
  ASSUME NEW t \in Seq(Event), NEW h \in Seq(Event), NEW q \in Seq(Event), NEW e \in Event
  PROVE  (t \o h) \o Append(q, e) = Append((t \o h) \o q, e)
  <1>1. t \o h \in Seq(Event) /\ (t \o h) \o q \in Seq(Event) /\ <<e>> \in Seq(Event)
    BY ConcatProperties
  <1>2. Append(q, e) = q \o <<e>> /\ Append((t \o h) \o q, e) = ((t \o h) \o q) \o <<e>>
    BY <1>1, AppendIsConcat
  <1>3. QED
    BY <1>1, <1>2, ConcatAssociative

LEMMA Taken ==
  ASSUME NEW t \in Seq(Event), NEW q \in Seq(Event), q # <<>>
  PROVE  (t \o <<>>) \o q = (t \o <<Head(q)>>) \o Tail(q)
  <1>1. <<Head(q)>> \in Seq(Event) /\ Tail(q) \in Seq(Event)
    BY HeadTailProperties
  <1>2. q = <<Head(q)>> \o Tail(q)
    BY <1>1
  <1>3. t \o <<>> = t
    BY ConcatEmptySeq
  <1>4. QED
    BY <1>1, <1>2, <1>3, ConcatAssociative

LEMMA Tried ==
  ASSUME NEW t \in Seq(Event), NEW h \in Seq(Event), NEW q \in Seq(Event)
  PROVE  ((t \o h) \o <<>>) \o q = (t \o h) \o q
  <1>1. t \o h \in Seq(Event)
    BY ConcatProperties
  <1>2. QED
    BY <1>1, ConcatEmptySeq

(* The semaphore: a goroutine that starts or ends. *)
LEMMA RunningFinite == Running \in SUBSET Work /\ IsFiniteSet(Running) /\ Cardinality(Running) \in Nat
  <1>1. Running \in SUBSET Work
    BY DEF Running
  <1>2. QED
    BY <1>1, RequestAssumption, FS_Subset, FS_CardinalityType

LEMMA AcquireHeld ==
  ASSUME IInv, NEW w \in Work, Acquire(w), job[w] \notin {"running"}
  PROVE  /\ SlotsHeld' /\ slots' \in 0..Slots
         /\ job' \in [Work -> {"none", "spawned", "running", "skipped", "ended"}]
  <1>1. job \in [Work -> {"none", "spawned", "running", "skipped", "ended"}] /\ slots \in 0..Slots
        /\ slots = Cardinality(Running)
    BY DEF IInv, TypeOK, BackgroundInv, SlotsHeld
  <1>2. CASE slots < Slots /\ slots' = slots + 1 /\ job' = [job EXCEPT ![w] = "running"]
    <2>1. Running' = Running \cup {w} /\ w \notin Running
      BY <1>1, <1>2 DEF Running
    <2>2. Cardinality(Running \cup {w}) = Cardinality(Running) + 1
      BY <2>1, RunningFinite, FS_AddElement
    <2>3. QED
      BY <1>1, <1>2, <2>1, <2>2, CapAssumption DEF SlotsHeld
  <1>3. CASE slots >= Slots /\ job' = [job EXCEPT ![w] = "skipped"] /\ UNCHANGED slots
    <2>1. Running' = Running
      BY <1>1, <1>3 DEF Running
    <2>2. QED
      BY <1>1, <1>3, <2>1 DEF SlotsHeld
  <1>4. QED
    BY <1>2, <1>3 DEF Acquire

(* A step that leaves the worker, the channel and run() alone. *)
LEMMA JobInv ==
  ASSUME IInv, SlotsHeld', slots' \in 0..Slots,
         job' \in [Work -> {"none", "spawned", "running", "skipped", "ended"}],
         request' \in [Request -> {"new", "open", "answered"}], JobHolds',
         UNCHANGED <<queue, worker, hand, main, signalled, sent, tried, due>>
  PROVE  IInv'
  <1>1. TypeOK'
    BY DEF IInv, TypeOK
  <1>2. InOrder' /\ StopFlushes' /\ WorkerHolds'
    BY DEF IInv, BackgroundInv, InOrder, StopFlushes, WorkerHolds, Stopped
  <1>3. QED
    BY <1>1, <1>2 DEF IInv, BackgroundInv

LEMMA SameJobs == ASSUME IInv, UNCHANGED <<job, slots>> PROVE SlotsHeld'
  BY DEF IInv, BackgroundInv, SlotsHeld, Running

------------------------------------------------------------------------------
LEMMA RequestsInv ==
  ASSUME IInv, NEW r \in Request, Accept(r) \/ Refuse(r) PROVE IInv'
  <1>1. /\ request' \in [Request -> {"new", "open", "answered"}]
        /\ UNCHANGED <<queue, worker, hand, job, slots, main, signalled, sent, tried, due>>
        /\ JobHolds'
    BY DEF Accept, Refuse, Answer, Request, IInv, TypeOK, JobHolds
  <1>2. QED
    BY <1>1, SameJobs, JobInv DEF IInv, TypeOK

LEMMA PostToolUseInv == ASSUME IInv, NEW e \in Event, PostToolUse(e) PROVE IInv'
  <1>1. /\ request' \in [Request -> {"new", "open", "answered"}]
        /\ UNCHANGED <<worker, hand, job, slots, main, signalled, tried, due>>
        /\ JobHolds'
    BY DEF PostToolUse, Answer, Request, IInv, TypeOK, JobHolds
  <1>2. CASE Len(queue) < QueueSize /\ queue' = Append(queue, e) /\ sent' = Append(sent, e)
    <2>1. queue \in Seq(Event) /\ sent \in Seq(Event) /\ hand \in Seq(Event) /\ tried \in Seq(Event)
          /\ due \in Nat
      BY DEF IInv, TypeOK
    <2>2. /\ queue' \in Seq(Event) /\ Len(queue') = Len(queue) + 1
          /\ sent' \in Seq(Event) /\ Len(sent') = Len(sent) + 1
      BY <1>2, <2>1, AppendProperties
    <2>3. TypeOK'
      BY <1>1, <1>2, <2>2, <2>1, CapAssumption DEF IInv, TypeOK
    <2>4. InOrder'
      BY <1>1, <1>2, <2>1, Sent, ZenonT(40) DEF IInv, BackgroundInv, InOrder
    <2>5. StopFlushes'
      BY <1>1 DEF IInv, BackgroundInv, StopFlushes
    <2>6. WorkerHolds'
      BY <1>1, <2>1, <2>2 DEF IInv, WorkerHolds, Stopped
    <2>7. QED
      BY <1>1, <2>3, <2>4, <2>5, <2>6, SameJobs DEF IInv, BackgroundInv
  <1>3. CASE UNCHANGED <<queue, sent>>
    BY <1>1, <1>3, SameJobs, JobInv DEF IInv, TypeOK
  <1>4. QED
    BY <1>2, <1>3 DEF PostToolUse, Offer

LEMMA WorkInv ==
  ASSUME IInv, NEW w \in Work, Launch(w) \/ LaunchAtomize(w) \/ AtomizeAcquires(w) \/ EndJob(w)
  PROVE  IInv'
  <1> DEFINE Rest == UNCHANGED <<queue, worker, hand, main, signalled, sent, tried, due>>
  <1>1. /\ Rest /\ request' \in [Request -> {"new", "open", "answered"}]
        /\ job \in [Work -> {"none", "spawned", "running", "skipped", "ended"}]
        /\ slots \in 0..Slots /\ slots = Cardinality(Running)
    BY DEF Launch, LaunchAtomize, AtomizeAcquires, EndJob, Answer, Request, IInv, TypeOK, BackgroundInv, SlotsHeld
  <1>2. request'[w] = "answered" /\ \A v \in Work \ {w} : request'[v] = request[v] /\ job'[v] = job[v]
    <2>1. request \in [Request -> {"new", "open", "answered"}] /\ Work \subseteq Request
      BY DEF IInv, TypeOK, Request
    <2>2. QED
      BY <1>1, <2>1 DEF Launch, LaunchAtomize, AtomizeAcquires, EndJob, Answer, Acquire, IInv, JobHolds
  <1>3. JobHolds'
    BY <1>2 DEF IInv, JobHolds
  <1>4. job[w] \in {"none", "spawned"} \/ EndJob(w)
    <2>1. w \in Request
      BY DEF Request
    <2>2. QED
      BY <2>1 DEF Launch, LaunchAtomize, AtomizeAcquires, Answer, IInv, JobHolds
  <1>5. CASE Acquire(w) /\ job[w] # "running"
    BY <1>1, <1>5, <1>3, AcquireHeld, JobInv
  <1>6. CASE job' = [job EXCEPT ![w] = "spawned"] /\ job[w] # "running" /\ UNCHANGED slots
    <2>1. Running' = Running
      BY <1>1, <1>6 DEF Running
    <2>2. QED
      BY <1>1, <1>6, <1>3, <2>1, JobInv DEF SlotsHeld
  <1>7. CASE EndJob(w)
    <2>1. /\ Running' = Running \ {w} /\ w \in Running
          /\ job' \in [Work -> {"none", "spawned", "running", "skipped", "ended"}]
          /\ slots' = slots - 1
      BY <1>1, <1>7 DEF EndJob, Release, Running
    <2>2. Cardinality(Running \ {w}) = Cardinality(Running) - 1
      BY <2>1, RunningFinite, FS_RemoveElement
    <2>3. Cardinality(Running \ {w}) \in Nat
      BY RunningFinite, FS_RemoveElement, FS_CardinalityType
    <2>4. SlotsHeld' /\ slots' \in 0..Slots
      BY <1>1, <2>1, <2>2, <2>3, CapAssumption DEF SlotsHeld
    <2>5. QED
      BY <1>1, <1>3, <2>1, <2>4, JobInv
  <1>8. QED
    BY <1>5, <1>6, <1>7, <1>4 DEF Launch, LaunchAtomize, AtomizeAcquires

------------------------------------------------------------------------------
LEMMA SelectInv == ASSUME IInv, Select \/ Flush PROVE IInv'
  <1>1. /\ queue \in Seq(Event) /\ hand = <<>> /\ tried \in Seq(Event) /\ due \in Nat /\ sent \in Seq(Event)
        /\ sent = (tried \o hand) \o queue /\ due <= Len(sent)
        /\ UNCHANGED <<request, job, slots, main, signalled, sent, tried, due>>
    BY DEF Select, Flush, IInv, TypeOK, BackgroundInv, InOrder, WorkerHolds
  <1>2. SlotsHeld' /\ JobHolds'
    BY <1>1, SameJobs DEF IInv, JobHolds
  <1>3. main \in {"closed", "exited"} => worker = "done"
    BY DEF IInv, BackgroundInv, StopFlushes
  <1>4. CASE (Take("write") /\ worker = "select") \/ (Take("flushing") /\ worker = "flush")
    <2>1. queue # <<>> /\ hand' = <<Head(queue)>> /\ queue' = Tail(queue)
      BY <1>4 DEF Take
    <2>2. /\ Head(queue) \in Event /\ Tail(queue) \in Seq(Event) /\ Len(Tail(queue)) = Len(queue) - 1
          /\ <<Head(queue)>> \in Seq(Event) /\ Len(<<Head(queue)>>) = 1
      BY <1>1, <2>1, HeadTailProperties
    <2>3. TypeOK'
      BY <1>1, <1>4, <2>1, <2>2, CapAssumption DEF Take, IInv, TypeOK
    <2>4. InOrder'
      BY <1>1, <2>1, Taken DEF InOrder
    <2>5. StopFlushes'
      BY <1>1, <1>3, <1>4 DEF StopFlushes
    <2>6. WorkerHolds'
      BY <1>1, <1>4 DEF Take, IInv, WorkerHolds, Stopped
    <2>7. QED
      BY <1>2, <2>3, <2>4, <2>5, <2>6 DEF IInv, BackgroundInv
  <1>5. CASE UNCHANGED <<queue, hand>> /\ worker = "select" /\ Stopped /\ worker' = "flush"
    <2>1. TypeOK'
      BY <1>1, <1>5 DEF IInv, TypeOK
    <2>2. InOrder' /\ StopFlushes' /\ WorkerHolds'
      BY <1>1, <1>3, <1>5 DEF InOrder, StopFlushes, WorkerHolds, Stopped
    <2>3. QED
      BY <1>2, <2>1, <2>2 DEF IInv, BackgroundInv
  <1>6. CASE UNCHANGED <<queue, hand>> /\ worker = "flush" /\ queue = <<>> /\ worker' = "done"
    <2>1. tried \o <<>> = tried
      BY <1>1, ConcatEmptySeq
    <2>2. sent = tried
      BY <1>1, <1>6, <2>1
    <2>3. TypeOK'
      BY <1>1, <1>6 DEF IInv, TypeOK
    <2>4. InOrder' /\ StopFlushes'
      BY <1>1, <1>3, <1>6 DEF InOrder, StopFlushes
    <2>5. WorkerHolds'
      BY <1>1, <1>6, <2>2 DEF IInv, WorkerHolds, Stopped
    <2>6. QED
      BY <1>2, <2>3, <2>4, <2>5 DEF IInv, BackgroundInv
  <1>7. CASE Select
    <2>1. CASE Take("write")
      BY <1>4, <1>7, <2>1 DEF Select
    <2>2. CASE Stopped /\ worker' = "flush" /\ UNCHANGED <<queue, hand>>
      BY <1>5, <1>7, <2>2 DEF Select
    <2>3. QED
      BY <1>7, <2>1, <2>2 DEF Select
  <1>8. CASE Flush
    BY <1>4, <1>6, <1>8 DEF Flush, Flushed
  <1>9. QED
    BY <1>7, <1>8

LEMMA WriteOneInv == ASSUME IInv, WriteOne PROVE IInv'
  <1>1. /\ queue \in Seq(Event) /\ hand \in Seq(Event) /\ tried \in Seq(Event) /\ due \in Nat
        /\ sent = (tried \o hand) \o queue
        /\ tried' = tried \o hand /\ hand' = <<>>
        /\ UNCHANGED <<request, queue, job, slots, main, signalled, sent, due>>
    BY DEF WriteOne, IInv, TypeOK, BackgroundInv, InOrder
  <1>2. tried' \in Seq(Event) /\ hand' \in Seq(Event) /\ Len(hand') <= 1
    BY <1>1, ConcatProperties
  <1>3. TypeOK'
    BY <1>1, <1>2 DEF WriteOne, IInv, TypeOK
  <1>4. InOrder'
    BY <1>1, Tried DEF InOrder
  <1>5. StopFlushes'
    BY <1>1 DEF WriteOne, IInv, BackgroundInv, StopFlushes
  <1>6. WorkerHolds'
    BY <1>1 DEF WriteOne, IInv, WorkerHolds, Stopped
  <1>7. SlotsHeld' /\ JobHolds'
    BY <1>1, SameJobs DEF IInv, JobHolds
  <1>8. QED
    BY <1>3, <1>4, <1>5, <1>6, <1>7 DEF IInv, BackgroundInv

LEMMA MainInv == ASSUME IInv, Signal \/ ServeReturns \/ Unwind PROVE IInv'
  <1>1. /\ UNCHANGED <<request, queue, worker, hand, job, slots, sent, tried>>
        /\ main' \in {"serving", "unwinding", "waiting", "closed", "exited"} /\ signalled' \in BOOLEAN
    BY DEF Signal, ServeReturns, Unwind, Stop, CloseStores, Exit, IInv, TypeOK
  <1>2. (Stop /\ ~Stopped /\ due' = Len(sent)) \/ ((Stopped => Stopped') /\ due' = due)
    BY DEF Signal, ServeReturns, Unwind, Stop, CloseStores, Exit, Stopped
  <1>3. due' \in Nat /\ due' <= Len(sent)
    BY <1>2, LenProperties DEF IInv, TypeOK, WorkerHolds
  <1>4. TypeOK'
    BY <1>1, <1>3 DEF IInv, TypeOK
  <1>5. InOrder'
    BY <1>1 DEF IInv, BackgroundInv, InOrder
  <1>6. WorkerHolds'
    BY <1>1, <1>2, <1>3 DEF IInv, WorkerHolds, Stop
  <1>7. StopFlushes'
    BY DEF Signal, ServeReturns, Unwind, Stop, CloseStores, Exit, WorkerDone, IInv, BackgroundInv, StopFlushes,
       WorkerHolds
  <1>8. SlotsHeld' /\ JobHolds'
    BY <1>1, SameJobs DEF IInv, JobHolds
  <1>9. QED
    BY <1>4, <1>5, <1>6, <1>7, <1>8 DEF IInv, BackgroundInv

LEMMA NextInv == ASSUME IInv, [Next]_vars PROVE IInv'
  <1>1. CASE Next
    BY <1>1, RequestsInv, PostToolUseInv, WorkInv, SelectInv, WriteOneInv, MainInv DEF Next, Drain
  <1>2. CASE UNCHANGED vars
    BY <1>2, SameJobs DEF vars, IInv, TypeOK, BackgroundInv, InOrder, StopFlushes, WorkerHolds, JobHolds, Stopped
  <1>3. QED
    BY <1>1, <1>2

(* The inductive invariant: the order of the events, what Stop has waited for *)
(* and the tokens of the semaphore.                                           *)
THEOREM Invariant == Spec => []IInv
  BY InitIInv, NextInv, PTL DEF Spec

(* Every variable keeps its type, the channel and the semaphore their caps. *)
THEOREM TypeCorrect == Spec => []TypeOK
  <1>1. IInv => TypeOK
    BY DEF IInv
  <1>2. QED
    BY <1>1, Invariant, PTL

(* Events are written in the order they were sent, each once; Stop returns    *)
(* when those sent before it have been written; no slot leaks.                *)
THEOREM BackgroundCorrect == Spec => []BackgroundInv
  <1>1. IInv => BackgroundInv
    BY DEF IInv
  <1>2. QED
    BY <1>1, Invariant, PTL
==============================================================================
