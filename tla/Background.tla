------------------------------ MODULE Background ------------------------------
(***************************************************************************)
(* What the server does behind the answers of its handlers, and what its   *)
(* shutdown leaves of it: the queue of POST /api/activity/posttooluse with *)
(* its drain worker, the capped goroutines of classification, autologging, *)
(* decision proposals, atomization and the cost ledger, and the deferred   *)
(* calls of run().                                                         *)
(*                                                                         *)
(* Whether a write succeeds only changes a log line, so a write is one     *)
(* action.  Of the capped goroutines one semaphore is modelled: they share *)
(* nothing.  The rate limiters before the handlers are not represented.    *)
(***************************************************************************)
EXTENDS Naturals, Sequences, FiniteSets

CONSTANTS
  Event,     \* requests of the activity hook, one event each
  Work,      \* requests that hand work to a capped goroutine
  QueueSize, \* postToolUseChannelSize
  Slots      \* capacity of the semaphore

ASSUME RequestAssumption == Event \cap Work = {} /\ IsFiniteSet(Work)
ASSUME CapAssumption == QueueSize \in Nat \ {0} /\ Slots \in Nat \ {0}

VARIABLES
  request,   \* per request: not arrived, being handled or answered
  queue,     \* the channel
  worker,    \* where drainWorker is
  hand,      \* the event it is writing, if any
  job,       \* per work request, its goroutine
  slots,     \* tokens in the semaphore
  main,      \* where run() is
  signalled, \* SIGTERM has been received and Shutdown called
  sent,      \* history: the events that entered the channel, in order
  tried,     \* history: the events whose write has been attempted, in order
  due        \* history: how many had been sent when stopCh was closed

vars == <<request, queue, worker, hand, job, slots, main, signalled, sent, tried, due>>

Request == Event \cup Work

Init ==
  /\ request = [r \in Request |-> "new"]
  /\ queue = <<>> /\ worker = "select" /\ hand = <<>>
  /\ job = [w \in Work |-> "none"] /\ slots = 0
  /\ main = "serving" /\ signalled = FALSE
  /\ sent = <<>> /\ tried = <<>> /\ due = 0

Running == {w \in Work : job[w] = "running"}

(* Nothing of the process is left once run() has returned. *)
Up == main # "exited"
Stopped == main \notin {"serving", "unwinding"}   \* stopCh is closed

------------------------------------------------------------------------------
(* Requests.  After Shutdown, or once Serve has failed, none is accepted, but *)
(* those being handled go on.                                                 *)
Accept(r) ==
  /\ main = "serving" /\ ~signalled /\ request[r] = "new"
  /\ request' = [request EXCEPT ![r] = "open"]
  /\ UNCHANGED <<queue, worker, hand, job, slots, main, signalled, sent, tried, due>>

Answer(r) == Up /\ request[r] = "open" /\ request' = [request EXCEPT ![r] = "answered"]

(* A body that is not accepted, or an error before anything is handed over. *)
Refuse(r) ==
  /\ Answer(r)
  /\ UNCHANGED <<queue, worker, hand, job, slots, main, signalled, sent, tried, due>>

(* Mutant: the oldest event makes room for the new one. *)
MutOffer(e) ==
  queue' = Append(IF Len(queue) < QueueSize THEN queue ELSE Tail(queue), e) /\ sent' = Append(sent, e)

(* The non-blocking send: a full channel drops the event. *)
Offer(e) ==
  \/ Len(queue) < QueueSize /\ queue' = Append(queue, e) /\ sent' = Append(sent, e)
  \/ Len(queue) >= QueueSize /\ UNCHANGED <<queue, sent>>

PostToolUse(e) ==
  /\ Answer(e)
  /\ Offer(e)
  /\ UNCHANGED <<worker, hand, job, slots, main, signalled, tried, due>>

(* Mutant: one token too many. *)
MutAcquire(w) ==
  \/ slots <= Slots /\ slots' = slots + 1 /\ job' = [job EXCEPT ![w] = "running"]
  \/ slots > Slots /\ job' = [job EXCEPT ![w] = "skipped"] /\ UNCHANGED slots

(* select on the semaphore: a full one skips the work. *)
Acquire(w) ==
  \/ slots < Slots /\ slots' = slots + 1 /\ job' = [job EXCEPT ![w] = "running"]
  \/ slots >= Slots /\ job' = [job EXCEPT ![w] = "skipped"] /\ UNCHANGED slots

(* The slot is taken before the goroutine starts .. *)
Launch(w) ==
  /\ Answer(w)
  /\ Acquire(w)
  /\ UNCHANGED <<queue, worker, hand, main, signalled, sent, tried, due>>

(* .. or, for atomization, by the goroutine itself. *)
LaunchAtomize(w) ==
  /\ Answer(w)
  /\ job' = [job EXCEPT ![w] = "spawned"]
  /\ UNCHANGED <<queue, worker, hand, slots, main, signalled, sent, tried, due>>

AtomizeAcquires(w) ==
  /\ Up /\ job[w] = "spawned"
  /\ Acquire(w)
  /\ UNCHANGED <<request, queue, worker, hand, main, signalled, sent, tried, due>>

(* The deferred receive, whether the work failed or not. *)
Release == slots' = slots - 1

EndJob(w) ==
  /\ Up /\ job[w] = "running"
  /\ job' = [job EXCEPT ![w] = "ended"]
  /\ Release
  /\ UNCHANGED <<request, queue, worker, hand, main, signalled, sent, tried, due>>

------------------------------------------------------------------------------
(* drainWorker *)

Take(pc) == queue # <<>> /\ hand' = <<Head(queue)>> /\ queue' = Tail(queue) /\ worker' = pc

(* select: of two ready cases either may be taken. *)
Select ==
  /\ Up /\ worker = "select"
  /\ \/ Take("write")
     \/ Stopped /\ worker' = "flush" /\ UNCHANGED <<queue, hand>>
  /\ UNCHANGED <<request, job, slots, main, signalled, sent, tried, due>>

(* writeOne: the insert, or its error or timeout, and back to the loop. *)
WriteOne ==
  /\ Up /\ worker \in {"write", "flushing"}
  /\ tried' = tried \o hand /\ hand' = <<>>
  /\ worker' = IF worker = "write" THEN "select" ELSE "flush"
  /\ UNCHANGED <<request, queue, job, slots, main, signalled, sent, due>>

Flushed == queue = <<>>

Flush ==
  /\ Up /\ worker = "flush"
  /\ \/ Take("flushing")
     \/ Flushed /\ worker' = "done" /\ UNCHANGED <<queue, hand>>
  /\ UNCHANGED <<request, job, slots, main, signalled, sent, tried, due>>

------------------------------------------------------------------------------
(* run() *)

Signal ==
  /\ main = "serving" /\ ~signalled
  /\ signalled' = TRUE
  /\ UNCHANGED <<request, queue, worker, hand, job, slots, main, sent, tried, due>>

(* Start returns as soon as Shutdown has closed the listener (signalled), or  *)
(* fails before any signal; either way run() unwinds.  The goroutine that     *)
(* waits in Shutdown for open requests is not waited for.                     *)
ServeReturns ==
  /\ main = "serving"
  /\ main' = "unwinding"
  /\ UNCHANGED <<request, queue, worker, hand, job, slots, signalled, sent, tried, due>>

(* The deferred calls, last first: the bot and the scheduler are stopped, *)
(* then PostToolUseHandler.Stop, and the stores are closed.               *)
Stop ==
  /\ main = "unwinding"
  /\ main' = "waiting" /\ due' = Len(sent)
  /\ UNCHANGED <<request, queue, worker, hand, job, slots, signalled, sent, tried>>

(* Mutant: Stop does not wait for the worker. *)
MutWorkerDone == TRUE

(* wg.Wait *)
WorkerDone == worker = "done"

CloseStores ==
  /\ main = "waiting" /\ WorkerDone
  /\ main' = "closed"
  /\ UNCHANGED <<request, queue, worker, hand, job, slots, signalled, sent, tried, due>>

Exit ==
  /\ main = "closed"
  /\ main' = "exited"
  /\ UNCHANGED <<request, queue, worker, hand, job, slots, signalled, sent, tried, due>>

Drain == Select \/ WriteOne \/ Flush
Unwind == Stop \/ CloseStores \/ Exit

Next ==
  \/ \E r \in Request : Accept(r) \/ Refuse(r)
  \/ \E e \in Event : PostToolUse(e)
  \/ \E w \in Work : Launch(w) \/ LaunchAtomize(w) \/ AtomizeAcquires(w) \/ EndJob(w)
  \/ Drain
  \/ Signal \/ ServeReturns \/ Unwind

Spec == Init /\ [][Next]_vars

(* Go schedules every goroutine that can run, and every write and every LLM  *)
(* call has a timeout.  No request has to arrive or to be answered, and the  *)
(* signal need not come.                                                     *)
FairSpec ==
  /\ Spec
  /\ WF_vars(Drain) /\ WF_vars(Unwind) /\ WF_vars(signalled /\ ServeReturns)
  /\ \A w \in Work : WF_vars(AtomizeAcquires(w) \/ EndJob(w))

------------------------------------------------------------------------------
(* Properties *)

TypeOK ==
  /\ request \in [Request -> {"new", "open", "answered"}]
  /\ queue \in Seq(Event) /\ Len(queue) <= QueueSize
  /\ worker \in {"select", "write", "flush", "flushing", "done"}
  /\ hand \in Seq(Event) /\ Len(hand) <= 1
  /\ job \in [Work -> {"none", "spawned", "running", "skipped", "ended"}]
  /\ slots \in 0..Slots
  /\ main \in {"serving", "unwinding", "waiting", "closed", "exited"}
  /\ signalled \in BOOLEAN
  /\ sent \in Seq(Event) /\ tried \in Seq(Event) /\ due \in Nat

(* No event is lost, doubled or overtaken between the channel and the store,  *)
(* whichever case select picks.                                               *)
InOrder == sent = (tried \o hand) \o queue

(* Every event that was in the channel when Stop was called has had its write *)
(* before the stores are closed, and the worker writes nothing to a closed    *)
(* store.                                                                     *)
StopFlushes == main \in {"closed", "exited"} => worker = "done" /\ Len(tried) >= due

(* A token of the semaphore stands for a goroutine that is running: work is   *)
(* skipped only while as many as there are slots really run.                  *)
SlotsHeld == slots = Cardinality(Running)

BackgroundInv == InOrder /\ StopFlushes /\ SlotsHeld

(* What makes it inductive: where the worker is between two steps, and that a *)
(* goroutine belongs to a request that has been handled.                      *)
WorkerHolds ==
  /\ worker \in {"select", "flush", "done"} => hand = <<>>
  /\ worker \in {"flush", "flushing", "done"} => Stopped
  /\ worker = "done" => Len(tried) >= due
  /\ due <= Len(sent)

JobHolds == \A w \in Work : request[w] # "answered" => job[w] = "none"

IInv == TypeOK /\ BackgroundInv /\ WorkerHolds /\ JobHolds

(* While the server is up every queued event is written at last and every     *)
(* goroutine ends; a signal, or a failing listener, ends the process.         *)
Written(e) == \E i \in 1..Len(tried) : tried[i] = e
Queued(e) == \E i \in 1..Len(sent) : sent[i] = e
WorkEnds ==
  /\ \A e \in Event : (Queued(e) /\ ~Stopped) ~> Written(e)
  /\ \A w \in Work : (job[w] \in {"spawned", "running"}) ~> (job[w] \in {"skipped", "ended"} \/ ~Up)
  /\ (signalled \/ main # "serving") ~> ~Up

(* "so that in-flight events are never lost on server shutdown" (Stop): a     *)
(* process that a signal has ended has written every event it queued.  (Start *)
(* may also fail without a signal; Stop's comment says nothing of that.)      *)
NoneLost == signalled /\ ~Up => sent = tried
==============================================================================
