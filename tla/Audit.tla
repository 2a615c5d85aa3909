-------------------------------- MODULE Audit --------------------------------
(***************************************************************************)
(* Decision audit (internal/audit): evaluate goroutines call Emit, which   *)
(* signs the record, in DB mode persists it (WithSyncPersist), and puts it *)
(* on a bounded queue without ever blocking; one worker goroutine takes    *)
(* records off the queue, persists them when Emit did not, and publishes   *)
(* them to the audit-event-log; Close stops the worker.                    *)
(***************************************************************************)
EXTENDS Integers, Sequences, FiniteSets

CONSTANTS
  Records,      \* decision ids; each is emitted at most once
  QueueSize     \* capacity of Service.queue

ASSUME AuditAssumption ==
  /\ IsFiniteSet(Records)
  /\ QueueSize \in Nat \ {0}

VARIABLES
  emit,      \* progress of the Emit call of each record, then its outcome
  queue,     \* Service.queue
  worker,    \* what the worker goroutine is doing
  current,   \* the record the worker holds, as a set of at most one
  store,     \* records in the decision store
  sink,      \* records the audit-event-log has received
  drops,     \* Service.drops
  stopping,  \* stopCh is closed
  closed,    \* Close has returned
  syncPersist  \* Service.syncPersist: TRUE with the DB store, FALSE in memory

vars == <<emit, queue, worker, current, store, sink, drops, stopping, closed, syncPersist>>

\* Emit has returned: nil, ErrDropped (which finalize ignores), or an error.
Accepted(d) == emit[d] = "accepted"
Answered(d) == emit[d] \in {"accepted", "dropped"}

Init ==
  /\ emit = [d \in Records |-> "idle"]
  /\ queue = <<>>
  /\ worker = "select"
  /\ current = {}
  /\ store = {}
  /\ sink = {}
  /\ drops = 0
  /\ stopping = FALSE
  /\ closed = FALSE
  /\ syncPersist \in BOOLEAN

-----------------------------------------------------------------------------
\* Service.Emit, up to the queue: sign, then in DB mode store.Put.  A Put that
\* fails may have reached the database: its commit can outlive a lost reply.
SignFails(d) ==
  /\ emit[d] = "idle"
  /\ emit' = [emit EXCEPT ![d] = "unsigned"]
  /\ UNCHANGED <<queue, worker, current, store, sink, drops, stopping, closed, syncPersist>>

PersistSync(d) ==
  /\ syncPersist
  /\ emit[d] = "idle"
  /\ store' = store \cup {d}
  /\ emit' = [emit EXCEPT ![d] = "ready"]
  /\ UNCHANGED <<queue, worker, current, sink, drops, stopping, closed, syncPersist>>

PersistSyncFails(d) ==
  /\ syncPersist
  /\ emit[d] = "idle"
  /\ store' \in {store, store \cup {d}}
  /\ drops' = drops + 1
  /\ emit' = [emit EXCEPT ![d] = "failed"]
  /\ UNCHANGED <<queue, worker, current, sink, stopping, closed, syncPersist>>

\* Fault: the store is left to the worker, as in memory mode.
FaultSkipPersist(d) == emit[d] = "idle"

\* The record is at the non-blocking send of Emit.
AtSend(d) == emit[d] = IF syncPersist THEN "ready" ELSE "idle"

\* The select of Emit: send if there is room, otherwise count a drop.  Nothing
\* here looks at stopCh.
Enqueue(d) ==
  /\ AtSend(d)
  /\ Len(queue) < QueueSize
  /\ queue' = Append(queue, d)
  /\ emit' = [emit EXCEPT ![d] = "accepted"]
  /\ UNCHANGED <<worker, current, store, sink, drops, stopping, closed, syncPersist>>

\* Fault: the full queue is reported to the caller but not counted.
FaultUncountedDrop(d) ==
  /\ AtSend(d)
  /\ Len(queue) = QueueSize
  /\ emit' = [emit EXCEPT ![d] = "dropped"]
  /\ UNCHANGED <<queue, worker, current, store, sink, drops, stopping, closed, syncPersist>>

QueueFull(d) ==
  /\ AtSend(d)
  /\ Len(queue) = QueueSize
  /\ drops' = drops + 1
  /\ emit' = [emit EXCEPT ![d] = "dropped"]
  /\ UNCHANGED <<queue, worker, current, store, sink, stopping, closed, syncPersist>>

-----------------------------------------------------------------------------
\* Service.run.  When both a record and stopCh are ready, select takes either.
Receive ==
  /\ worker = "select"
  /\ queue # <<>>
  /\ current' = {Head(queue)}
  /\ queue' = Tail(queue)
  /\ worker' = IF syncPersist THEN "publish" ELSE "put"
  /\ UNCHANGED <<emit, store, sink, drops, stopping, closed, syncPersist>>

WorkerPut ==
  /\ worker = "put"
  /\ store' = store \cup current
  /\ worker' = "publish"
  /\ UNCHANGED <<emit, queue, current, sink, drops, stopping, closed, syncPersist>>

\* Fault: publish all the same.
FaultPutFailsPublishes ==
  /\ worker = "put"
  /\ drops' = drops + 1
  /\ worker' = "publish"
  /\ UNCHANGED <<emit, queue, current, store, sink, stopping, closed, syncPersist>>

\* The record is given up: no retry, no publication.
WorkerPutFails ==
  /\ worker = "put"
  /\ drops' = drops + 1
  /\ worker' = "select"
  /\ current' = {}
  /\ UNCHANGED <<emit, queue, store, sink, stopping, closed, syncPersist>>

Publish ==
  /\ worker = "publish"
  /\ sink' = sink \cup current
  /\ worker' = "select"
  /\ current' = {}
  /\ UNCHANGED <<emit, queue, store, drops, stopping, closed, syncPersist>>

\* Fault: an error ends the worker (return for continue).
FaultPublishEndsWorker ==
  /\ worker = "publish"
  /\ drops' = drops + 1
  /\ worker' = "stopped"
  /\ current' = {}
  /\ UNCHANGED <<emit, queue, store, sink, stopping, closed, syncPersist>>

\* An error of the sink (the 5s timeout included) is counted and not retried;
\* the broker may have taken the message all the same.
PublishFails ==
  /\ worker = "publish"
  /\ sink' \in {sink, sink \cup current}
  /\ drops' = drops + 1
  /\ worker' = "select"
  /\ current' = {}
  /\ UNCHANGED <<emit, queue, store, stopping, closed, syncPersist>>

\* Fault: break for return, which only leaves the select.
FaultBreak ==
  /\ worker = "select"
  /\ stopping
  /\ UNCHANGED vars

WorkerStops ==
  /\ worker = "select"
  /\ stopping
  /\ worker' = "stopped"
  /\ UNCHANGED <<emit, queue, current, store, sink, drops, stopping, closed, syncPersist>>

\* Service.Close: close stopCh, then wait for the worker.
CloseStop ==
  /\ ~stopping
  /\ stopping' = TRUE
  /\ UNCHANGED <<emit, queue, worker, current, store, sink, drops, closed, syncPersist>>

CloseReturns ==
  /\ stopping
  /\ worker = "stopped"
  /\ closed' = TRUE
  /\ UNCHANGED <<emit, queue, worker, current, store, sink, drops, stopping, syncPersist>>

Emit(d) ==
  SignFails(d) \/ PersistSync(d) \/ PersistSyncFails(d) \/ Enqueue(d) \/ QueueFull(d)

Worker ==
  Receive \/ WorkerPut \/ WorkerPutFails \/ Publish \/ PublishFails \/ WorkerStops

Next == (\E d \in Records : Emit(d)) \/ Worker \/ CloseStop \/ CloseReturns

\* The worker is a goroutine that never blocks for good: Put and Publish return
\* (Publish under a 5s timeout).  Emit calls and Close are up to the callers.
Fairness == WF_vars(Worker) /\ WF_vars(CloseReturns)

Spec == Init /\ [][Next]_vars /\ Fairness

-----------------------------------------------------------------------------
Queued == {queue[i] : i \in DOMAIN queue}

TypeOK ==
  /\ emit \in [Records -> {"idle", "unsigned", "ready", "accepted", "dropped", "failed"}]
  /\ queue \in Seq(Records) /\ Len(queue) <= QueueSize
  /\ worker \in {"select", "put", "publish", "stopped"}
  /\ current \subseteq Records
  /\ store \subseteq Records
  /\ sink \subseteq Records
  /\ drops \in Nat
  /\ stopping \in BOOLEAN
  /\ closed \in BOOLEAN
  /\ syncPersist \in BOOLEAN

\* README.md:120 "decision record committed before responding to the caller":
\* with the DB store, when Emit has come back and finalize answers without an
\* error (nil or ErrDropped), the decision record is in the store.
DurableBeforeResponse == syncPersist => \A d \in Records : Answered(d) => d \in store

\* PROJECT_PLAN.md:182: no event is published for a record whose persistence
\* failed, in either persistence mode and whatever the worker does meanwhile.
PublishedIsStored == sink \subseteq store

\* The records on a queue that nobody empties any more.
Left == IF worker = "stopped" THEN Queued ELSE {}

\* The records that Emit took on and that are neither published nor on their way.
Lost ==
  {d \in Records : emit[d] \in {"accepted", "dropped", "failed"}}
    \ ((Queued \ Left) \cup current \cup sink)

\* Service.Drops counts every record that did not make it to the audit-event-log,
\* on all four paths that give one up, but not those that the worker leaves on the
\* queue when it sees stopCh or that Emit puts there later: run returns without
\* emptying the queue, although "Close drains and stops the worker" (audit.go:237).
\* These, at most a queueful, are the only ones that no counter shows.
UncountedOnlyAtClose == Cardinality(Lost) <= drops + Cardinality(Left)

\* Unless the service is shut down, the worker gets to every record Emit
\* accepted: failures of earlier records never stop it.
AcceptedIsHandled ==
  \A d \in Records : Accepted(d) ~> (stopping \/ d \notin Queued \cup current)

\* Close always returns: the worker cannot be kept from seeing stopCh.
CloseTerminates == stopping ~> closed
=============================================================================
