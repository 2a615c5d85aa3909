--------------------------- MODULE LifecycleProofs ----------------------------
(***************************************************************************)
(* Proofs about Audit and about Lifecycle, whose handlers, worker and      *)
(* Close are those of Audit: for any finite number of requests, any queue  *)
(* size and both persistence modes.                                        *)
(*                                                                         *)
(* For the audit service, AuditInv adds to the properties where a record   *)
(* can be: what the worker holds (Holds), that only accepted records       *)
(* travel (Travelling), and which of the records on their way have been    *)
(* persisted (Persisted).                                                  *)
(*                                                                         *)
(* The process takes only steps of the audit service on its state, so that *)
(* it inherits AuditInv.  Shutdown is a sequence of steps each of which    *)
(* closes something for good; IInv says, for each phase, what has been     *)
(* closed by then.                                                         *)
(***************************************************************************)
EXTENDS Lifecycle, FiniteSetTheorems, TLAPS

Holds ==
  /\ worker \in {"select", "stopped"} => current = {}
  /\ worker \in {"put", "publish"} => \E d \in Records : current = {d}

Travelling == \A d \in Queued \cup current : emit[d] = "accepted"

Persisted ==
  /\ syncPersist =>
       \A d \in Records : emit[d] \in {"ready", "accepted", "dropped"} => d \in store
  /\ worker = "publish" => current \subseteq store
  /\ worker = "put" => ~syncPersist

\* The records that were given up, and that each of them was counted; Left adds
\* to these the records that wait in vain.
GivenUp ==
  {d \in Records : emit[d] \in {"accepted", "dropped", "failed"}} \ (Queued \cup current \cup sink)

Counted == Cardinality(GivenUp) <= drops

AuditInv ==
  /\ TypeOK /\ Holds /\ Travelling /\ Persisted
  /\ PublishedIsStored /\ Counted

-----------------------------------------------------------------------------
\* Losing at most one more record while counting one more drop keeps the count.
LEMMA CountedLoss ==
  ASSUME NEW S \in SUBSET Records, NEW T \in SUBSET Records, NEW n \in Nat,
         NEW d, T \subseteq S \cup {d}, Cardinality(S) <= n
  PROVE  Cardinality(T) <= n + 1
<1>1. IsFiniteSet(S) /\ Cardinality(S) \in Nat
  BY AuditAssumption, FS_Subset, FS_CardinalityType
<1>2. IsFiniteSet(S \cup {d}) /\ Cardinality(S \cup {d}) <= Cardinality(S) + 1
  BY <1>1, FS_AddElement
<1>3. Cardinality(T) <= Cardinality(S \cup {d}) /\ Cardinality(T) \in Nat
      /\ Cardinality(S \cup {d}) \in Nat
  BY <1>2, FS_Subset, FS_CardinalityType
<1> QED
  BY <1>1, <1>2, <1>3

\* Losing nothing more keeps the count.
LEMMA NoLoss ==
  ASSUME NEW S \in SUBSET Records, NEW T \in SUBSET S, NEW n \in Nat, Cardinality(S) <= n
  PROVE  Cardinality(T) <= n
<1>1. IsFiniteSet(S) /\ Cardinality(S) \in Nat
  BY AuditAssumption, FS_Subset, FS_CardinalityType
<1>2. Cardinality(T) <= Cardinality(S) /\ Cardinality(T) \in Nat
  BY <1>1, FS_Subset, FS_CardinalityType
<1> QED
  BY <1>1, <1>2

\* A send adds its record to the queue, a receive takes the head off.
LEMMA QueuedAppend ==
  ASSUME TypeOK, NEW d \in Records, queue' = Append(queue, d)
  PROVE  Queued' = Queued \cup {d}
<1>1. queue \in Seq(Records)
  BY DEF TypeOK
<1>2. DOMAIN queue = 1..Len(queue) /\ Len(queue) \in Nat
  BY <1>1
<1>3. DOMAIN queue' = 1..(Len(queue) + 1)
  BY <1>1
<1>4. /\ \A i \in 1..Len(queue) : queue'[i] = queue[i]
      /\ queue'[Len(queue) + 1] = d
  BY <1>1
<1> QED
  BY <1>2, <1>3, <1>4 DEF Queued

\* A receive takes the head off the queue.
LEMMA QueuedTail ==
  ASSUME TypeOK, queue # <<>>, queue' = Tail(queue)
  PROVE  /\ Head(queue) \in Records
         /\ Queued \subseteq Queued' \cup {Head(queue)}
         /\ Queued' \subseteq Queued
         /\ Head(queue) \in Queued
<1>1. queue \in Seq(Records)
  BY DEF TypeOK
<1>2. DOMAIN queue = 1..Len(queue) /\ Len(queue) \in Nat /\ Len(queue) > 0
  BY <1>1
<1>3. DOMAIN queue' = 1..(Len(queue) - 1)
  BY <1>1, <1>2
<1>4. \A i \in 1..(Len(queue) - 1) : queue'[i] = queue[i + 1]
  BY <1>1, <1>2
<1>5. Head(queue) = queue[1]
  BY <1>1, <1>2
<1>6. \A i \in DOMAIN queue : i # 1 => i - 1 \in DOMAIN queue' /\ queue'[i - 1] = queue[i]
  BY <1>2, <1>3, <1>4
<1>7. \A i \in DOMAIN queue' : i + 1 \in DOMAIN queue /\ queue'[i] = queue[i + 1]
  BY <1>2, <1>3, <1>4
<1>8. 1 \in DOMAIN queue /\ Head(queue) \in Records
  BY <1>1, <1>2, <1>5
<1>9. Queued \subseteq Queued' \cup {Head(queue)}
  BY <1>5, <1>6 DEF Queued
<1>10. Queued' \subseteq Queued
  BY <1>7 DEF Queued
<1>11. Head(queue) \in Queued
  BY <1>5, <1>8 DEF Queued
<1> QED
  BY <1>8, <1>9, <1>10, <1>11

-----------------------------------------------------------------------------
\* Nothing has been emitted.
LEMMA AuditInit == Init => AuditInv
<1> SUFFICES ASSUME Init PROVE AuditInv
  OBVIOUS
<1>1. Queued = {} /\ GivenUp = {}
  BY DEF Init, Queued, GivenUp
<1>2. TypeOK
  <2>1. queue \in Seq(Records) /\ Len(queue) = 0
    BY DEF Init
  <2>2. emit \in [Records -> {"idle", "unsigned", "ready", "accepted", "dropped", "failed"}]
    BY DEF Init
  <2>3. Len(queue) <= QueueSize
    BY <2>1, AuditAssumption
  <2>4. stopping \in BOOLEAN /\ closed \in BOOLEAN /\ syncPersist \in BOOLEAN
    BY Zenon DEF Init
  <2>5. /\ drops \in Nat /\ store \subseteq Records /\ sink \subseteq Records
        /\ current \subseteq Records
        /\ worker \in {"select", "put", "publish", "stopped"}
    BY DEF Init
  <2> QED
    BY <2>1, <2>2, <2>3, <2>4, <2>5 DEF TypeOK
<1>3. Holds /\ Travelling /\ Persisted /\ PublishedIsStored
  BY <1>1 DEF Init, Holds, Travelling, Persisted, PublishedIsStored
<1>4. Counted
  BY <1>1, FS_EmptySet DEF Init, Counted
<1> QED
  BY <1>2, <1>3, <1>4 DEF AuditInv


\* Emit: what each of its outcomes does to the record d.
LEMMA AuditEmit ==
  ASSUME AuditInv, NEW d \in Records, Emit(d)
  PROVE  AuditInv'
<1> USE DEF AuditInv
<1>0. GivenUp \in SUBSET Records /\ GivenUp' \in SUBSET Records /\ drops \in Nat
  BY DEF GivenUp, TypeOK
<1>1. CASE SignFails(d)
  <2>1. /\ Queued' = Queued /\ current' = current /\ sink' = sink
        /\ store' = store /\ drops' = drops
    BY <1>1 DEF SignFails, Queued
  <2>2. \A e \in Records : emit'[e] = IF e = d THEN "unsigned" ELSE emit[e]
    BY <1>1 DEF SignFails, TypeOK
  <2>3. TypeOK' /\ Holds' /\ PublishedIsStored'
    BY <1>1 DEF SignFails, TypeOK, Holds, PublishedIsStored
  <2>4. Travelling'
    BY <1>1, <2>2 DEF SignFails, Travelling, TypeOK, Queued
  <2>5. Persisted'
    BY <1>1, <2>2 DEF SignFails, Persisted
  <2>6. GivenUp' \subseteq GivenUp
    BY <2>1, <2>2 DEF GivenUp
  <2>7. Counted'
    BY <1>0, <2>1, <2>6, NoLoss DEF Counted
  <2> QED
    BY <2>3, <2>4, <2>5, <2>7
<1>2. CASE PersistSync(d)
  <2>1. Queued' = Queued /\ current' = current /\ sink' = sink /\ drops' = drops
    BY <1>2 DEF PersistSync, Queued
  <2>2. \A e \in Records : emit'[e] = IF e = d THEN "ready" ELSE emit[e]
    BY <1>2 DEF PersistSync, TypeOK
  <2>3. TypeOK' /\ Holds' /\ PublishedIsStored'
    BY <1>2 DEF PersistSync, TypeOK, Holds, PublishedIsStored
  <2>4. Travelling'
    BY <1>2, <2>1, <2>2 DEF PersistSync, Travelling, TypeOK, Queued
  <2>5. Persisted'
    BY <1>2, <2>1, <2>2 DEF PersistSync, Persisted
  <2>6. GivenUp' \subseteq GivenUp
    BY <2>1, <2>2 DEF GivenUp
  <2>7. Counted'
    BY <1>0, <2>1, <2>6, NoLoss DEF Counted
  <2> QED
    BY <2>3, <2>4, <2>5, <2>7
<1>3. CASE PersistSyncFails(d)
  <2>1. Queued' = Queued /\ current' = current /\ sink' = sink /\ drops' = drops + 1
        /\ store \subseteq store'
    BY <1>3 DEF PersistSyncFails, Queued
  <2>2. \A e \in Records : emit'[e] = IF e = d THEN "failed" ELSE emit[e]
    BY <1>3 DEF PersistSyncFails, TypeOK
  <2>3. TypeOK' /\ Holds' /\ PublishedIsStored'
    BY <1>3, <2>1 DEF PersistSyncFails, TypeOK, Holds, PublishedIsStored
  <2>4. Travelling'
    BY <1>3, <2>1, <2>2 DEF PersistSyncFails, Travelling, TypeOK, Queued
  <2>5. Persisted'
    BY <1>3, <2>1, <2>2 DEF PersistSyncFails, Persisted
  <2>6. GivenUp' \subseteq GivenUp \cup {d}
    BY <2>1, <2>2 DEF GivenUp
  <2>7. Counted'
    BY <1>0, <2>1, <2>6, CountedLoss DEF Counted
  <2> QED
    BY <2>3, <2>4, <2>5, <2>7
<1>4. CASE Enqueue(d)
  <2>1. Queued' = Queued \cup {d}
    BY <1>4, QueuedAppend DEF Enqueue
  <2>2. \A e \in Records : emit'[e] = IF e = d THEN "accepted" ELSE emit[e]
    BY <1>4 DEF Enqueue, TypeOK
  <2>3. current' = current /\ sink' = sink /\ store' = store /\ drops' = drops
    BY <1>4 DEF Enqueue
  <2>4. queue' \in Seq(Records) /\ Len(queue') = Len(queue) + 1
    BY <1>4 DEF Enqueue, TypeOK
  <2>5. TypeOK'
    BY <1>4, <2>4, AuditAssumption DEF Enqueue, TypeOK
  <2>6. Holds' /\ PublishedIsStored'
    BY <1>4 DEF Enqueue, Holds, PublishedIsStored
  <2>7. Travelling'
    <3>1. Queued' \cup current' \subseteq Records
      BY <2>5 DEF TypeOK, Queued
    <3> QED
      BY <2>1, <2>2, <2>3, <3>1 DEF Travelling
  <2>8. Persisted'
    BY <1>4, <2>2, <2>3 DEF Enqueue, AtSend, Persisted
  <2>9. GivenUp' \subseteq GivenUp
    BY <2>1, <2>2, <2>3 DEF GivenUp
  <2>10. Counted'
    BY <1>0, <2>3, <2>9, NoLoss DEF Counted
  <2> QED
    BY <2>5, <2>6, <2>7, <2>8, <2>10
<1>5. CASE QueueFull(d)
  <2>1. /\ Queued' = Queued /\ current' = current /\ sink' = sink
        /\ store' = store /\ drops' = drops + 1
    BY <1>5 DEF QueueFull, Queued
  <2>2. \A e \in Records : emit'[e] = IF e = d THEN "dropped" ELSE emit[e]
    BY <1>5 DEF QueueFull, TypeOK
  <2>3. TypeOK' /\ Holds' /\ PublishedIsStored'
    BY <1>5 DEF QueueFull, TypeOK, Holds, PublishedIsStored
  <2>4. Travelling'
    BY <1>5, <2>1, <2>2 DEF QueueFull, AtSend, Travelling, TypeOK, Queued
  <2>5. Persisted'
    BY <1>5, <2>1, <2>2 DEF QueueFull, AtSend, Persisted
  <2>6. GivenUp' \subseteq GivenUp \cup {d}
    BY <2>1, <2>2 DEF GivenUp
  <2>7. Counted'
    BY <1>0, <2>1, <2>6, CountedLoss DEF Counted
  <2> QED
    BY <2>3, <2>4, <2>5, <2>7
<1> QED
  BY <1>1, <1>2, <1>3, <1>4, <1>5 DEF Emit

\* The worker: a record it gives up is counted, one it publishes is persisted.
LEMMA AuditWorker == AuditInv /\ Worker => AuditInv'
<1> SUFFICES ASSUME AuditInv, Worker PROVE AuditInv'
  OBVIOUS
<1> USE DEF AuditInv
<1>0. /\ GivenUp \in SUBSET Records /\ GivenUp' \in SUBSET Records /\ drops \in Nat
      /\ Queued \subseteq Records /\ current \subseteq Records
  BY DEF GivenUp, TypeOK, Queued
<1>1. CASE Receive
  <2>1. /\ Head(queue) \in Records /\ Head(queue) \in Queued
        /\ Queued \subseteq Queued' \cup {Head(queue)}
        /\ Queued' \subseteq Queued
    BY <1>1, QueuedTail DEF Receive
  <2>2. /\ current' = {Head(queue)} /\ current = {} /\ emit' = emit /\ store' = store
        /\ sink' = sink /\ drops' = drops
    BY <1>1 DEF Receive, Holds
  <2>3. queue' \in Seq(Records) /\ Len(queue') <= Len(queue) /\ Len(queue') \in Nat
    BY <1>1 DEF Receive, TypeOK
  <2>4. TypeOK'
    BY <1>1, <2>1, <2>2, <2>3, AuditAssumption DEF Receive, TypeOK
  <2>5. Holds' /\ PublishedIsStored'
    <3>1. \E d \in Records : current' = {d}
      BY <2>1, <2>2
    <3>2. worker' \in {"put", "publish"}
      BY <1>1 DEF Receive
    <3> QED
      BY <2>2, <3>1, <3>2 DEF Holds, PublishedIsStored
  <2>6. Travelling'
    BY <2>1, <2>2 DEF Travelling
  <2>7. Persisted'
    <3>1. emit[Head(queue)] = "accepted"
      BY <2>1 DEF Travelling
    <3> QED
      BY <1>1, <2>1, <2>2, <3>1 DEF Receive, Persisted
  <2>8. GivenUp' \subseteq GivenUp
    BY <2>1, <2>2 DEF GivenUp
  <2>9. Counted'
    BY <1>0, <2>2, <2>8, NoLoss DEF Counted
  <2> QED
    BY <2>4, <2>5, <2>6, <2>7, <2>9
<1>2. CASE WorkerPut
  <2>1. /\ Queued' = Queued /\ emit' = emit /\ current' = current
        /\ sink' = sink /\ drops' = drops
        /\ store' = store \cup current
    BY <1>2 DEF WorkerPut, Queued
  <2>2. TypeOK' /\ Holds' /\ Travelling' /\ Persisted' /\ PublishedIsStored'
    BY <1>2, <2>1 DEF WorkerPut, TypeOK, Holds, Travelling, Persisted,
                      PublishedIsStored
  <2>3. GivenUp' = GivenUp
    BY <2>1 DEF GivenUp
  <2> QED
    BY <2>1, <2>2, <2>3 DEF Counted
<1>3. ASSUME NEW d \in Records, current = {d},
             worker' = "select", current' = {}, sink \subseteq sink', store' = store,
             drops' = drops + 1, UNCHANGED <<emit, queue, stopping, closed, syncPersist>>,
             sink' \subseteq store'
      PROVE  AuditInv'
  <2>1. Queued' = Queued
    BY <1>3 DEF Queued
  <2>2. TypeOK' /\ Holds' /\ Travelling' /\ Persisted' /\ PublishedIsStored'
    BY <1>3, <2>1 DEF TypeOK, Holds, Travelling, Persisted, PublishedIsStored
  <2>3. GivenUp' \subseteq GivenUp \cup {d}
    BY <1>3, <2>1 DEF GivenUp
  <2>4. Counted'
    BY <1>0, <1>3, <2>3, CountedLoss DEF Counted
  <2> QED
    BY <2>2, <2>4
<1>4. CASE WorkerPutFails
  <2>1. PICK d \in Records : current = {d}
    BY <1>4 DEF WorkerPutFails, Holds
  <2> QED
    BY <1>3, <1>4, <2>1 DEF WorkerPutFails, PublishedIsStored
<1>5. CASE PublishFails
  <2>1. PICK d \in Records : current = {d}
    BY <1>5 DEF PublishFails, Holds
  <2>2. sink' \subseteq store' /\ sink \subseteq sink'
    BY <1>5 DEF PublishFails, PublishedIsStored, Persisted
  <2> QED
    BY <1>3, <1>5, <2>1, <2>2 DEF PublishFails
<1>6. CASE Publish
  <2>1. Queued' = Queued /\ emit' = emit /\ store' = store /\ drops' = drops
        /\ sink' = sink \cup current /\ current' = {}
    BY <1>6 DEF Publish, Queued
  <2>2. TypeOK' /\ Holds' /\ Travelling' /\ Persisted' /\ PublishedIsStored'
    BY <1>6, <2>1 DEF Publish, TypeOK, Holds, Travelling, Persisted,
                      PublishedIsStored
  <2>3. GivenUp' = GivenUp
    BY <2>1 DEF GivenUp
  <2> QED
    BY <2>1, <2>2, <2>3 DEF Counted
<1>7. CASE WorkerStops
  <2>1. Queued' = Queued /\ GivenUp' = GivenUp
    BY <1>7 DEF WorkerStops, Queued, GivenUp
  <2> QED
    BY <1>7, <2>1 DEF WorkerStops, TypeOK, Holds, Travelling, Persisted,
                      PublishedIsStored,
                      Counted
<1> QED
  BY <1>1, <1>2, <1>4, <1>5, <1>6, <1>7 DEF Worker

\* Close touches no record.
LEMMA AuditClose == AuditInv /\ (CloseStop \/ CloseReturns) => AuditInv'
<1> SUFFICES ASSUME AuditInv, CloseStop \/ CloseReturns PROVE AuditInv'
  OBVIOUS
<1>1. UNCHANGED <<emit, queue, worker, current, store, sink, drops, syncPersist>>
  BY DEF CloseStop, CloseReturns
<1>2. stopping' \in BOOLEAN /\ closed' \in BOOLEAN
  BY DEF CloseStop, CloseReturns, AuditInv, TypeOK
<1>3. Queued' = Queued /\ GivenUp' = GivenUp
  BY <1>1 DEF Queued, GivenUp
<1> QED
  BY <1>1, <1>2, <1>3 DEF AuditInv, TypeOK, Holds, Travelling, Persisted,
                          PublishedIsStored,
                          Counted

-----------------------------------------------------------------------------
\* The invariant is inductive, whatever Emit, the worker and Close do.
LEMMA AuditNext == AuditInv /\ [Next]_vars => AuditInv'
<1> SUFFICES ASSUME AuditInv, [Next]_vars PROVE AuditInv'
  OBVIOUS
<1>1. ASSUME NEW d \in Records, Emit(d) PROVE AuditInv'
  BY <1>1, AuditEmit
<1>2. CASE Worker
  BY <1>2, AuditWorker
<1>3. CASE CloseStop \/ CloseReturns
  BY <1>3, AuditClose
<1>4. CASE UNCHANGED vars
  <2>1. Queued' = Queued /\ GivenUp' = GivenUp
    BY <1>4 DEF vars, Queued, GivenUp
  <2> QED
    BY <1>4, <2>1 DEF vars, AuditInv, TypeOK, Holds, Travelling, Persisted,
                      PublishedIsStored, Counted
<1> QED
  BY <1>1, <1>2, <1>3, <1>4 DEF Next

\* Every reachable state of the audit service satisfies the invariant.
THEOREM AuditInvariance == Spec => []AuditInv
  BY AuditInit, AuditNext, PTL DEF Spec

\* The audit service's state keeps its type; the queue never exceeds its
\* capacity.
THEOREM AuditTypeCorrect == Spec => []TypeOK
<1>1. AuditInv => TypeOK
  BY DEF AuditInv
<1> QED
  BY <1>1, AuditInvariance, PTL

\* With WithSyncPersist, evaluate answers without an error only for decisions
\* whose record is in the store.
THEOREM SyncIsDurable == Spec => []DurableBeforeResponse
<1>1. AuditInv => DurableBeforeResponse
  BY DEF AuditInv, Persisted, DurableBeforeResponse, Answered
<1> QED
  BY <1>1, AuditInvariance, PTL

\* In both modes no event reaches the audit-event-log for a record that is not
\* in the store.
THEOREM NothingUnstoredPublished == Spec => []PublishedIsStored
<1>1. AuditInv => PublishedIsStored
  BY DEF AuditInv
<1> QED
  BY <1>1, AuditInvariance, PTL

\* What is lost was given up or is left on the queue.
LEMMA LostIsCountedOrLeft == AuditInv => UncountedOnlyAtClose
<1> SUFFICES ASSUME AuditInv PROVE UncountedOnlyAtClose
  OBVIOUS
<1> DEFINE G == GivenUp
           L == Left
<1>1. G \in SUBSET Records /\ L \in SUBSET Records /\ drops \in Nat /\ Cardinality(G) <= drops
  BY DEF AuditInv, TypeOK, GivenUp, Left, Queued, Counted
<1>2. IsFiniteSet(G) /\ IsFiniteSet(L)
  BY <1>1, AuditAssumption, FS_Subset
<1>3. Lost \subseteq G \cup L
  BY DEF Lost, GivenUp
<1> HIDE DEF G, L
<1>4. /\ IsFiniteSet(G \cup L) /\ IsFiniteSet(G \cap L)
      /\ Cardinality(G \cup L) = Cardinality(G) + Cardinality(L) - Cardinality(G \cap L)
  <2>1. IsFiniteSet(G \cap L)
    BY <1>2, FS_Subset
  <2> QED
    BY <1>2, <2>1, FS_Union
<1>5. /\ Cardinality(G) \in Nat /\ Cardinality(L) \in Nat /\ Cardinality(G \cap L) \in Nat
      /\ Cardinality(G \cup L) \in Nat
  BY <1>2, <1>4, FS_CardinalityType
<1>6. Cardinality(Lost) <= Cardinality(G \cup L) /\ Cardinality(Lost) \in Nat
  BY <1>3, <1>4, FS_Subset, FS_CardinalityType
<1>7. Cardinality(Lost) <= drops + Cardinality(L)
  BY <1>1, <1>4, <1>5, <1>6
<1> QED
  BY <1>7 DEF UncountedOnlyAtClose, L

\* Service.Drops counts every record that is lost, on every path that loses one,
\* except those that the worker leaves on the queue when Close stops it: Close
\* does not drain.
THEOREM LossesCounted == Spec => []UncountedOnlyAtClose
  BY LostIsCountedOrLeft, AuditInvariance, PTL

-----------------------------------------------------------------------------
\* The phases from Shutdown on, and those of the deferred calls.
Late == {"shutdown", "stop", "close", "return", "exited"}
Deferred == {"stop", "close", "return"}

\* No gRPC call comes in after GracefulStop, and none is left after it has returned.
GrpcOver ==
  /\ phase \in Late \cup {"graceful"} => grpc \in {"nil", "stopped"}
  /\ phase \in Late => Running("grpc") = {}

\* Likewise for REST, but for the deadline.
RestOver ==
  /\ phase \in Late => rest = "closed"
  /\ phase \in Deferred => Running("rest") = {} \/ deadline = "passed"

\* Close is called when the poller is gone.
PollOver ==
  /\ phase \in {"close", "return", "exited"} => poll \in {"none", "stopped"}
  /\ phase = "boot" => poll = "none"
  /\ stopping => phase \in {"close", "return", "exited"}

\* Requests are cut by the end of the process only.
CutAtEnd ==
  /\ Alive => \A r \in Records : req[r] # "cut"
  /\ phase = "exited" =>
       /\ Running("rest") = {}
       /\ \A r \in Records : req[r] = "cut" => transport[r] = "rest" /\ deadline = "passed"

\* The types of what main.go owns: the flags, and the rest.
Flags == signalled \in BOOLEAN /\ pollStop \in BOOLEAN

OwnTypes ==
  /\ phase \in {"boot", "serving", "graceful", "shutdown", "stop", "close", "return",
                "exited", "fatal"}
  /\ rest \in {"new", "listening", "closed"}
  /\ grpc \in {"nil", "new", "serving", "stopped"}
  /\ deadline \in {"unset", "running", "passed"}
  /\ poll \in {"none", "select", "fetch", "stopped"}
  /\ transport \in [Records -> {"rest", "grpc"}]
  /\ req \in [Records -> {"idle", "running", "answered", "failed", "cut"}]

\* The order of the shutdown.
Orderly == GrpcOver /\ RestOver /\ PollOver /\ CutAtEnd

IInv == Flags /\ OwnTypes /\ Orderly

-----------------------------------------------------------------------------
\* A step of the process is a step of its audit service, or leaves it alone.
LEMMA StepIsAuditStep == [ProcessNext]_processVars => [Next]_vars
<1> SUFFICES ASSUME [ProcessNext]_processVars PROVE [Next]_vars
  OBVIOUS
<1>1. UNCHANGED auditVars => UNCHANGED vars
  BY DEF auditVars, vars
<1>2. CASE UNCHANGED processVars
  BY <1>1, <1>2 DEF processVars
<1>3. CASE Signal \/ Boot \/ Serve \/ ListenAndServe \/ ListenFails
  BY <1>1, <1>3 DEF Signal, Boot, BootFails, Booted, Serve, ListenAndServe, ListenFails
<1>4. ASSUME NEW r \in Records, Accept(r) \/ Return(r) PROVE UNCHANGED vars
  BY <1>1, <1>4 DEF Accept, Return
<1>5. ASSUME NEW r \in Records, Finalize(r) PROVE Next
  BY <1>5 DEF Finalize, Next
<1>6. CASE WorkerRuns
  BY <1>6 DEF WorkerRuns, Next
<1>7. CASE PollTick \/ PollDone \/ PollStops \/ DeadlinePasses
  BY <1>1, <1>7 DEF PollTick, PollDone, PollStops, DeadlinePasses
<1>8. CASE Close \/ CloseEnds
  BY <1>8 DEF Close, CloseEnds, Next
<1>9. CASE GracefulStop \/ Shutdown \/ ShutdownReturns \/ Stop \/ StopReturns \/ Exit
  BY <1>1, <1>9 DEF GracefulStop, Shutdown, ShutdownReturns, Stop, StopReturns, Exit
<1> QED
  BY <1>2, <1>3, <1>4, <1>5, <1>6, <1>7, <1>8, <1>9 DEF ProcessNext, Handle, Run

\* The process runs the audit service as Audit specifies it, through boot, signals,
\* deadlines, hanging handlers and either end of the process.
THEOREM RunsAuditService == ProcessSpec => Init /\ [][Next]_vars
<1>1. ProcessInit => Init
  BY DEF ProcessInit
<1> QED
  BY <1>1, StepIsAuditStep, PTL DEF ProcessSpec

\* So the records of the process are where those of the audit service are.
LEMMA ProcessAuditInv == ProcessSpec => []AuditInv
  BY RunsAuditService, AuditInit, AuditNext, PTL

-----------------------------------------------------------------------------
\* Neither Emit nor the worker closes stopCh.
LEMMA StopChKept ==
  ASSUME Worker \/ \E r \in Records : Emit(r)
  PROVE  stopping' = stopping
  BY DEF Worker, Receive, WorkerPut, WorkerPutFails, Publish, PublishFails, WorkerStops,
         Emit, SignFails, PersistSync, PersistSyncFails, Enqueue, QueueFull

\* At boot nothing runs and nothing is promised.
LEMMA InitIInv == ProcessInit => IInv
<1> SUFFICES ASSUME ProcessInit PROVE IInv
  OBVIOUS
<1>0. Flags
  BY Zenon DEF ProcessInit, Flags
<1>1. OwnTypes
  BY DEF ProcessInit, OwnTypes
<1>2. Orderly
  BY DEF ProcessInit, Init, Orderly, GrpcOver, RestOver, PollOver, CutAtEnd, Alive, Late, Deferred
<1> QED
  BY <1>0, <1>1, <1>2 DEF IInv

\* The flags are only ever set.
LEMMA FlagsKept == Flags /\ [ProcessNext]_processVars => Flags'
<1> SUFFICES ASSUME Flags, [ProcessNext]_processVars PROVE Flags'
  OBVIOUS
<1>1. CASE Signal
  BY <1>1, Zenon DEF Signal, Flags, pollVars
<1>2. CASE Stop
  BY <1>2, Zenon DEF Stop, Flags
<1>3. ASSUME UNCHANGED <<signalled, pollStop>> PROVE Flags'
  BY <1>3, Zenon DEF Flags
<1>4. CASE UNCHANGED processVars
  BY <1>3, <1>4 DEF processVars, pollVars
<1>5. CASE Boot \/ Serve \/ ListenAndServe \/ ListenFails
  BY <1>3, <1>5 DEF Boot, BootFails, Booted, Serve, ListenAndServe, ListenFails, pollVars
<1>6. CASE \E r \in Records : Accept(r) \/ Handle(r)
  BY <1>3, <1>6 DEF Accept, Handle, Finalize, Return, pollVars
<1>7. CASE WorkerRuns \/ PollTick \/ PollDone \/ PollStops \/ DeadlinePasses
  BY <1>3, <1>7 DEF WorkerRuns, PollTick, PollDone, PollStops, DeadlinePasses, pollVars
<1>8. CASE GracefulStop \/ Shutdown \/ ShutdownReturns \/ StopReturns
  BY <1>3, <1>8 DEF GracefulStop, Shutdown, ShutdownReturns, StopReturns, pollVars
<1>9. CASE Close \/ CloseEnds \/ Exit
  BY <1>3, <1>9 DEF Close, CloseEnds, Exit, pollVars
<1> QED
  BY <1>1, <1>2, <1>4, <1>5, <1>6, <1>7, <1>8, <1>9 DEF ProcessNext, Run

\* The steps of the servers, the signal and the handlers.
LEMMA ServeOrderly ==
  ASSUME IInv,
         \/ Signal \/ Serve \/ ListenAndServe
         \/ \E r \in Records : Accept(r) \/ Return(r)
  PROVE  OwnTypes' /\ Orderly'
<1> USE DEF serverVars, pollVars, auditVars, vars
<1> OwnTypes /\ GrpcOver /\ RestOver /\ PollOver /\ CutAtEnd
  BY DEF IInv, Orderly
<1>1. CASE Signal \/ Serve \/ ListenAndServe
  <2>1. OwnTypes'
    <3>1. CASE Signal
      BY <3>1 DEF Signal, OwnTypes
    <3>2. CASE Serve \/ ListenAndServe
      BY <3>2 DEF Serve, ListenAndServe, OwnTypes
    <3> QED
      BY <1>1, <3>1, <3>2
  <2>2. /\ phase' = phase /\ deadline' = deadline /\ poll' = poll /\ stopping' = stopping
        /\ req' = req /\ transport' = transport
    BY <1>1 DEF Signal, Serve, ListenAndServe
  <2>3. /\ phase \in Late \cup {"graceful"} => grpc' = grpc
        /\ phase \in Late => rest' = rest
    BY <1>1 DEF GrpcOver, RestOver, Signal, Serve, ListenAndServe
  <2>4. \A t \in {"rest", "grpc"} : Running(t)' = Running(t)
    BY <2>2 DEF Running
  <2>5. GrpcOver' /\ RestOver'
    BY <2>2, <2>3, <2>4 DEF GrpcOver, RestOver, Deferred, Late
  <2>6. PollOver' /\ CutAtEnd'
    BY <2>2, <2>4 DEF PollOver, CutAtEnd, Alive
  <2> QED
    BY <2>1, <2>5, <2>6 DEF Orderly
<1>2. ASSUME NEW r \in Records, Accept(r) PROVE OwnTypes' /\ Orderly'
  <2>0. rest = "listening" \/ grpc = "serving"
    BY <1>2 DEF Accept
  <2>1. OwnTypes'
    BY <1>2 DEF Accept, OwnTypes
  <2>2. /\ phase' = phase /\ deadline' = deadline /\ poll' = poll /\ stopping' = stopping
        /\ grpc' = grpc /\ rest' = rest /\ transport' = transport /\ Alive
        /\ \A q \in Records : req'[q] = req[q] \/ (q = r /\ req'[q] = "running")
    BY <1>2 DEF Accept
  <2>3. phase \notin Late
    BY <2>0 DEF GrpcOver, RestOver, Late
  <2>4. GrpcOver' /\ RestOver'
    BY <2>2, <2>3 DEF GrpcOver, RestOver, Late, Deferred
  <2>5. PollOver' /\ CutAtEnd'
    BY <2>2, <2>3 DEF PollOver, CutAtEnd, Alive, Late
  <2> QED
    BY <2>1, <2>4, <2>5 DEF Orderly
<1>3. ASSUME NEW r \in Records, Return(r) PROVE OwnTypes' /\ Orderly'
  <2>1. OwnTypes'
    BY <1>3 DEF Return, OwnTypes
  <2>2. /\ phase' = phase /\ deadline' = deadline /\ poll' = poll /\ stopping' = stopping
        /\ grpc' = grpc /\ rest' = rest /\ transport' = transport /\ Alive
        /\ \A q \in Records : req'[q] = req[q] \/ req'[q] \in {"answered", "failed"}
    BY <1>3 DEF Return
  <2>3. \A t \in {"rest", "grpc"} : Running(t) = {} => Running(t)' = {}
    BY <2>2 DEF Running
  <2> QED
    BY <2>1, <2>2, <2>3 DEF Orderly, GrpcOver, RestOver, PollOver, CutAtEnd, Alive
<1> QED
  BY <1>1, <1>2, <1>3

\* The ends of the process: in boot, on a listener that fails, and after Close.
LEMMA EndOrderly ==
  ASSUME IInv, BootFails \/ ListenFails \/ Exit
  PROVE  OwnTypes' /\ Orderly'
<1> USE DEF serverVars, pollVars, auditVars, vars
<1> OwnTypes /\ GrpcOver /\ RestOver /\ PollOver /\ CutAtEnd
  BY DEF IInv, Orderly
<1>1. \A r \in Records : req'[r] = IF req[r] = "running" THEN "cut" ELSE req[r]
  BY DEF BootFails, ListenFails, Exit, Dies
<1>2. /\ transport' = transport /\ deadline' = deadline /\ grpc' = grpc /\ rest' = rest
      /\ poll' = poll /\ stopping' = stopping
      /\ phase' \in {"exited", "fatal"}
  BY DEF BootFails, ListenFails, Exit, Dies
<1>3. OwnTypes'
  <2>1. req' \in [Records -> {"idle", "running", "answered", "failed", "cut"}]
    BY DEF BootFails, ListenFails, Exit, Dies, OwnTypes
  <2> QED
    BY <1>2, <2>1 DEF OwnTypes
<1>4. \A t \in {"rest", "grpc"} : Running(t)' = {}
  BY <1>1 DEF Running
<1>5. CASE BootFails \/ ListenFails
  <2>1. phase' = "fatal" /\ ~stopping
    BY <1>5 DEF BootFails, ListenFails, Dies, PollOver, RestOver, Late
  <2> QED
    BY <1>2, <1>3, <2>1
       DEF Orderly, GrpcOver, RestOver, PollOver, CutAtEnd, Alive, Late, Deferred
<1>6. CASE Exit
  <2>1. phase = "return" /\ phase' = "exited"
    BY <1>6 DEF Exit, Dies
  <2>2. \A r \in Records : req'[r] = "cut" => transport[r] = "rest" /\ deadline = "passed"
    <3> SUFFICES ASSUME NEW r \in Records, req'[r] = "cut"
                 PROVE  transport[r] = "rest" /\ deadline = "passed"
      OBVIOUS
    <3>1. req[r] = "running"
      BY <1>1, <2>1 DEF CutAtEnd, Alive
    <3>2. transport[r] # "grpc" /\ transport[r] \in {"rest", "grpc"}
      BY <2>1, <3>1 DEF GrpcOver, Late, Running, OwnTypes
    <3> QED
      BY <2>1, <3>1, <3>2 DEF RestOver, Deferred, Running
  <2>3. GrpcOver' /\ RestOver'
    BY <1>2, <1>4, <2>1 DEF GrpcOver, RestOver, Late, Deferred
  <2>4. PollOver' /\ CutAtEnd'
    BY <1>2, <1>4, <2>1, <2>2 DEF PollOver, CutAtEnd, Alive
  <2> QED
    BY <1>3, <2>3, <2>4 DEF Orderly
<1> QED
  BY <1>5, <1>6

\* The goroutine that polls, and the timer.
LEMMA PollOrderly ==
  ASSUME IInv, Booted \/ PollTick \/ PollDone \/ PollStops \/ DeadlinePasses
  PROVE  OwnTypes' /\ Orderly'
<1> USE DEF serverVars, pollVars, auditVars, vars
<1> OwnTypes /\ GrpcOver /\ RestOver /\ PollOver /\ CutAtEnd
  BY DEF IInv, Orderly
<1>1. OwnTypes'
  <2>1. CASE Booted
    BY <2>1 DEF Booted, OwnTypes
  <2>2. CASE PollTick \/ PollDone \/ PollStops
    BY <2>2 DEF PollTick, PollDone, PollStops, OwnTypes
  <2>3. CASE DeadlinePasses
    BY <2>3 DEF DeadlinePasses, OwnTypes
  <2> QED
    BY <2>1, <2>2, <2>3
<1>2. /\ transport' = transport /\ req' = req /\ grpc' = grpc /\ rest' = rest
      /\ stopping' = stopping
      /\ deadline' = deadline \/ deadline' = "passed"
  BY DEF Booted, PollTick, PollDone, PollStops, DeadlinePasses
<1>3. \A t \in {"rest", "grpc"} : Running(t)' = Running(t)
  BY <1>2 DEF Running
<1>4. \/ phase' = phase /\ poll' = poll
      \/ phase' = phase /\ poll # "none" /\ poll # "stopped"
      \/ phase = "boot" /\ phase' = "serving"
  BY DEF Booted, PollTick, PollDone, PollStops, DeadlinePasses
<1>5. GrpcOver' /\ RestOver'
  BY <1>2, <1>3, <1>4 DEF GrpcOver, RestOver, Late, Deferred
<1>6. PollOver'
  BY <1>2, <1>4 DEF PollOver
<1>7. CutAtEnd'
  BY <1>2, <1>3, <1>4 DEF CutAtEnd, Alive
<1> QED
  BY <1>1, <1>5, <1>6, <1>7 DEF Orderly

\* The steps of run from the signal on: each closes its part and keeps the rest.
LEMMA RunOrderly ==
  ASSUME IInv, Run, ~Exit
  PROVE  OwnTypes' /\ Orderly'
<1> USE DEF serverVars, pollVars, auditVars, vars
<1> OwnTypes /\ GrpcOver /\ RestOver /\ PollOver /\ CutAtEnd
  BY DEF IInv, Orderly
<1>1. transport' = transport /\ req' = req
  BY DEF Run, GracefulStop, Shutdown, ShutdownReturns, Stop, StopReturns, Close, CloseEnds
<1>2. \A t \in {"rest", "grpc"} : Running(t)' = Running(t)
  BY <1>1 DEF Running
<1>3. Alive /\ Alive'
  BY DEF Run, GracefulStop, Shutdown, ShutdownReturns, Stop, StopReturns, Close,
         CloseEnds, Alive
<1>4. CutAtEnd'
  BY <1>1, <1>3 DEF CutAtEnd, Alive
<1>5. OwnTypes'
  <2>2. CASE GracefulStop \/ Shutdown
    BY <1>1, <2>2 DEF GracefulStop, Shutdown, OwnTypes
  <2>3. CASE ShutdownReturns \/ Stop \/ StopReturns
    BY <1>1, <2>3 DEF ShutdownReturns, Stop, StopReturns, OwnTypes
  <2>4. CASE Close \/ CloseEnds
    BY <1>1, <2>4 DEF Close, CloseEnds, OwnTypes
  <2> QED
    BY <2>2, <2>3, <2>4 DEF Run
<1>6. CASE GracefulStop
  <2>1. GrpcOver'
    BY <1>6 DEF GracefulStop, GrpcOver, Late
  <2>2. RestOver' /\ PollOver'
    BY <1>6 DEF GracefulStop, RestOver, PollOver, Late, Deferred
  <2> QED
    BY <1>4, <1>5, <2>1, <2>2 DEF Orderly
<1>7. CASE Shutdown
  <2>1. GrpcOver'
    BY <1>2, <1>7 DEF Shutdown, Drained, GrpcOver, Late
  <2>2. RestOver' /\ PollOver'
    BY <1>7 DEF Shutdown, RestOver, PollOver, Late, Deferred
  <2> QED
    BY <1>4, <1>5, <2>1, <2>2 DEF Orderly
<1>8. CASE ShutdownReturns \/ Stop \/ StopReturns
  <2>1. GrpcOver' /\ RestOver'
    BY <1>2, <1>8 DEF ShutdownReturns, ShutdownEnds, Stop, StopReturns, GrpcOver, RestOver,
                      Late, Deferred
  <2>2. PollOver'
    BY <1>8 DEF ShutdownReturns, Stop, StopReturns, Stopped, PollOver
  <2> QED
    BY <1>4, <1>5, <2>1, <2>2 DEF Orderly
<1>9. CASE Close \/ CloseEnds
  <2>1. GrpcOver' /\ RestOver'
    BY <1>2, <1>9 DEF Close, CloseEnds, GrpcOver, RestOver, Late, Deferred
  <2>2. PollOver'
    BY <1>9 DEF Close, CloseEnds, PollOver
  <2> QED
    BY <1>4, <1>5, <2>1, <2>2 DEF Orderly
<1> QED
  BY <1>6, <1>7, <1>8, <1>9 DEF Run

\* Each step of the process keeps IInv.
LEMMA NextIInv == IInv /\ [ProcessNext]_processVars => IInv'
<1> SUFFICES ASSUME IInv, [ProcessNext]_processVars PROVE IInv'
  OBVIOUS
<1>0. Orderly /\ OwnTypes
  BY DEF IInv
<1>1. ASSUME OwnTypes', Orderly' PROVE IInv'
  BY <1>1, FlagsKept DEF IInv
<1>2. CASE UNCHANGED processVars
  <2>1. OwnTypes'
    BY <1>0, <1>2 DEF OwnTypes, processVars, serverVars, pollVars
  <2>2. Orderly'
    BY <1>0, <1>2 DEF Orderly, GrpcOver, RestOver, PollOver, CutAtEnd, Running, Alive,
                      processVars, serverVars, pollVars, auditVars, vars
  <2> QED
    BY <1>1, <2>1, <2>2
<1>3. CASE Signal \/ Serve \/ ListenAndServe \/ \E r \in Records : Accept(r) \/ Return(r)
  BY <1>1, <1>3, ServeOrderly
<1>4. CASE BootFails \/ ListenFails \/ Exit
  BY <1>1, <1>4, EndOrderly
<1>5. CASE Booted \/ PollTick \/ PollDone \/ PollStops \/ DeadlinePasses
  BY <1>1, <1>5, PollOrderly
<1>6. ASSUME UNCHANGED <<phase, signalled, serverVars, deadline, pollVars, transport, req>>,
             stopping' = stopping
      PROVE  IInv'
  <2>1. OwnTypes'
    BY <1>0, <1>6 DEF OwnTypes, serverVars, pollVars
  <2>2. Orderly'
    BY <1>0, <1>6 DEF Orderly, GrpcOver, RestOver, PollOver, CutAtEnd, Running, Alive,
                      serverVars, pollVars
  <2> QED
    BY <1>1, <2>1, <2>2
<1>7. ASSUME NEW r \in Records, Finalize(r) PROVE IInv'
  BY <1>6, <1>7, StopChKept DEF Finalize
<1>8. CASE WorkerRuns
  BY <1>6, <1>8, StopChKept DEF WorkerRuns
<1>9. CASE Run /\ ~Exit
  BY <1>1, <1>9, RunOrderly
<1> QED
  BY <1>2, <1>3, <1>4, <1>5, <1>7, <1>8, <1>9 DEF ProcessNext, Boot, Handle, Run

\* IInv holds throughout.
LEMMA Invariance == ProcessSpec => []IInv
  BY InitIInv, NextIInv, PTL DEF ProcessSpec

-----------------------------------------------------------------------------
\* Each variable of the process keeps its type, the audit queue its bound.
THEOREM Typing == ProcessSpec => []ProcessTypeOK
<1>1. IInv /\ AuditInv => ProcessTypeOK
  BY DEF IInv, Flags, OwnTypes, AuditInv, ProcessTypeOK
<1> QED
  BY <1>1, Invariance, ProcessAuditInv, PTL

\* An orderly shutdown cuts no gRPC call off, and a REST request only after the
\* deadline of Shutdown, for any number of requests that come in meanwhile.
THEOREM CutLate == ProcessSpec => []CutOnlyLate
<1>1. IInv => CutOnlyLate
  BY DEF IInv, Orderly, CutAtEnd, CutOnlyLate
<1> QED
  BY <1>1, Invariance, PTL

\* When Audit.Close is called, the gRPC calls and the bundle poll are over, and
\* the REST requests too unless the deadline has passed: the order in which run
\* and its deferred calls go about the shutdown.
THEOREM CloseLast == ProcessSpec => []CloseComesLast
<1>1. IInv => CloseComesLast
  <2> SUFFICES ASSUME IInv, stopping PROVE
                 /\ Running("grpc") = {}
                 /\ poll \in {"none", "stopped"}
                 /\ Running("rest") = {} \/ deadline = "passed"
    BY DEF CloseComesLast
  <2>1. phase \in {"close", "return", "exited"}
    BY DEF IInv, Orderly, PollOver
  <2>2. Running("grpc") = {} /\ poll \in {"none", "stopped"}
    BY <2>1 DEF IInv, Orderly, PollOver, GrpcOver, Late
  <2>3. Running("rest") = {} \/ deadline = "passed"
    BY <2>1 DEF IInv, Orderly, RestOver, CutAtEnd, Deferred
  <2> QED
    BY <2>2, <2>3
<1> QED
  BY <1>1, Invariance, PTL

\* What Audit says of its records holds in the whole process: with the DB store no
\* decision is answered before its record is stored, no event is published for a
\* record that is not, and the events that Drops does not count are those left on
\* the queue at Close, the ones of handlers past the deadline included.  (A listener
\* that fails ends the process, and what is queued then goes with it, as Drops does.)
THEOREM ProcessKeepsRecords ==
  ProcessSpec => [](DurableBeforeResponse /\ PublishedIsStored /\ UncountedOnlyAtClose)
<1>1. AuditInv => DurableBeforeResponse /\ PublishedIsStored
  BY DEF AuditInv, Persisted, DurableBeforeResponse, Answered
<1> QED
  BY <1>1, LostIsCountedOrLeft, ProcessAuditInv, PTL

=============================================================================
