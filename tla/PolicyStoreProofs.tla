-------------------------- MODULE PolicyStoreProofs --------------------------
(***************************************************************************)
(* Proofs about PolicyStore, for any number of replicas, any versions, any *)
(* versionToInt and any number of transactions.                            *)
(*                                                                         *)
(* IInv says that a row's hash folds into the number of the row's key      *)
(* (Rows), that decisions (Decided) and the replicas (Serving) refer to    *)
(* rows that are there, and what a transaction has in hand (Serving).      *)
(* OneClaim adds that, without a race, the rows of policies and those that *)
(* open transactions have found or are to insert are one and the same.     *)
(***************************************************************************)
EXTENDS PolicyStore, TLAPS

Rows ==
  /\ \A k \in Keys : versions[k] # NoRow => VersionToInt(versions[k].hash) = k[2]
  /\ \A p \in policies : active[p] \in Keys /\ active[p][1] = p /\ versions[active[p]] # NoRow

Decided ==
  \A d \in Ids : decisions[d] # NoDecision =>
    /\ decisions[d].row \in Keys
    /\ versions[decisions[d].row] # NoRow
    /\ decisions[d].row[2] = VersionToInt(decisions[d].booted)

Serving(r) ==
  /\ pc[r] \in {"boot", "bootCommit", "select", "commit", "swap"} => draft[r].version \in Versions
  /\ pc[r] \in {"boot", "bootCommit"} => draft[r].version = booted[r]
  /\ pc[r] \in {"bootCommit", "commit"} => found[r] \in PolicyIds
  /\ pc[r] # "down" => booted[r] \in Versions
  /\ pc[r] \in Up =>
       /\ policies # {}
       /\ rowID[r] \in Keys
       /\ versions[rowID[r]] # NoRow
       /\ rowID[r][2] = VersionToInt(booted[r])

AllServing == \A r \in Replicas : Serving(r)

IInv == TypeOK /\ Rows /\ Decided /\ AllServing

-----------------------------------------------------------------------------
\* Rows and policies are only added.
Kept ==
  /\ policies \subseteq policies'
  /\ \A k \in Keys : versions[k] # NoRow => versions'[k] # NoRow

\* The tables are in order.
Tables ==
  /\ policies \subseteq PolicyIds
  /\ active \in [PolicyIds -> Keys \cup {NoKey}]
  /\ versions \in [Keys -> [hash : Versions, source : Versions \cup {Nil}] \cup {NoRow}]
  /\ Rows

\* NoKey is no row's key.
LEMMA NoKeyIsNone == NoKey \notin Keys
  BY NilAssumption DEF NoKey, Keys

\* The key of the row a call writes: its policy and the number of its version.
LEMMA KeyType ==
  ASSUME NEW r \in Replicas, found[r] \in PolicyIds, draft[r].version \in Versions
  PROVE  Key(r) \in Keys /\ Key(r)[1] = found[r] /\ Key(r)[2] = VersionToInt(draft[r].version)
  BY DEF Key, Keys

\* A commit puts one row and the policy that points to it in place.
LEMMA CommitTables ==
  ASSUME IInv, NEW r \in Replicas, pc[r] \in {"bootCommit", "commit"}, Committed(r)
  PROVE  /\ Tables' /\ Kept
         /\ policies' = policies \cup {found[r]} /\ found[r] \in PolicyIds
         /\ Key(r) \in Keys /\ versions'[Key(r)] # NoRow
         /\ Key(r)[2] = VersionToInt(draft[r].version)
         /\ \A k \in Keys : versions[k] # NoRow => versions'[k].source = versions[k].source
<1> DEFINE k == Key(r)
           v == draft[r].version
<1>1. v \in Versions /\ found[r] \in PolicyIds
  BY DEF IInv, AllServing, Serving
<1>2. k \in Keys /\ k[1] = found[r] /\ k[2] = VersionToInt(v)
  BY <1>1, KeyType
<1>3. Upsert(r) \in [hash : Versions, source : Versions \cup {Nil}] /\ Upsert(r).hash = v
  BY <1>1, <1>2 DEF Upsert, RegoSource, IInv, TypeOK
<1>4. Upsert(r) # NoRow
  BY <1>1, <1>3, NilAssumption DEF NoRow
<1>5. versions[k] # NoRow => Upsert(r).source = versions[k].source
  BY DEF Upsert
<1>6. versions' = [versions EXCEPT ![k] = Upsert(r)] /\ active' = [active EXCEPT ![found[r]] = k]
      /\ policies' = policies \cup {found[r]}
  BY DEF Committed
<1> HIDE DEF k, v
<1>7. \A j \in Keys : versions'[j] = IF j = k THEN Upsert(r) ELSE versions[j]
  BY <1>6 DEF IInv, TypeOK
<1>8. \A p \in PolicyIds : active'[p] = IF p = found[r] THEN k ELSE active[p]
  BY <1>6 DEF IInv, TypeOK
<1>9. Rows'
  <2>1. \A j \in Keys : versions'[j] # NoRow => VersionToInt(versions'[j].hash) = j[2]
    BY <1>2, <1>3, <1>7 DEF IInv, Rows
  <2>2. \A p \in policies' : active'[p] \in Keys /\ active'[p][1] = p /\ versions'[active'[p]] # NoRow
    BY <1>1, <1>2, <1>4, <1>6, <1>7, <1>8 DEF IInv, TypeOK, Rows
  <2> QED
    BY <2>1, <2>2, Zenon DEF Rows, VersionToInt
<1>10. /\ policies' \subseteq PolicyIds
       /\ active' \in [PolicyIds -> Keys \cup {NoKey}]
       /\ versions' \in [Keys -> [hash : Versions, source : Versions \cup {Nil}] \cup {NoRow}]
  BY <1>1, <1>2, <1>3, <1>6 DEF IInv, TypeOK
<1>11. Tables'
  BY <1>9, <1>10 DEF Tables
<1>12. Kept
  BY <1>4, <1>6, <1>7 DEF Kept
<1>13. \A j \in Keys : versions[j] # NoRow => versions'[j].source = versions[j].source
  BY <1>5, <1>7
<1>14. versions'[k] # NoRow
  BY <1>2, <1>4, <1>7
<1> QED
  BY <1>1, <1>2, <1>6, <1>11, <1>12, <1>13, <1>14 DEF k, v

\* A transaction that fails has committed or has left nothing.
LEMMA FailTables ==
  ASSUME IInv, NEW r \in Replicas, Failed(r)
  PROVE  Tables' /\ Kept
<1>1. CASE UNCHANGED tables
  BY <1>1 DEF tables, IInv, TypeOK, Tables, Rows, Kept
<1>2. CASE pc[r] \in {"bootCommit", "commit"} /\ Committed(r)
  BY <1>2, CommitTables
<1> QED
  BY <1>1, <1>2 DEF Failed

-----------------------------------------------------------------------------
\* A replica that does nothing keeps what it refers to.
Idle(r) ==
  /\ pc'[r] = pc[r] /\ booted'[r] = booted[r] /\ rowID'[r] = rowID[r]
  /\ draft'[r] = draft[r] /\ found'[r] = found[r]

\* A replica that does nothing goes on serving what it serves.
LEMMA IdleServing ==
  ASSUME NEW r \in Replicas, Kept, Idle(r), Serving(r)
  PROVE  Serving(r)'
  BY DEF Kept, Idle, Serving, Up, VersionToInt

\* Decision records go on naming rows that exist.
LEMMA KeptDecided ==
  ASSUME Kept, Decided, decisions' = decisions
  PROVE  Decided'
  BY DEF Kept, Decided, VersionToInt

\* The part of the type invariant that is about the replicas.
Progress ==
  /\ pc \in [Replicas -> Up \cup {"down", "boot", "bootCommit"}]
  /\ booted \in [Replicas -> Versions \cup {Nil}]
  /\ ran \in [Replicas -> SUBSET Versions]
  /\ rowID \in [Replicas -> Keys \cup {NoKey}]
  /\ draft \in [Replicas -> [version : Versions \cup {Nil}, activate : BOOLEAN]]
  /\ found \in [Replicas -> PolicyIds \cup {Nil}]
  /\ begun \in 0 .. MaxBegun

\* The history flag is only ever set.
LEMMA RacedType == TypeOK /\ [Next]_vars => raced' \in BOOLEAN
<1> SUFFICES ASSUME raced \in BOOLEAN, [Next]_vars PROVE raced' \in BOOLEAN
  BY DEF TypeOK
<1>1. raced' = raced \/ \E r \in Replicas : EnsurePolicy(r)
  BY DEF Next, Step, vars, Boot, Publish, EnsurePolicyVersion, BootFails, ActivatePolicyVersion,
         PublishFails, Swap, HotReload, Put, Crash, Exited, Ended
<1>2. ASSUME NEW r \in Replicas, EnsurePolicy(r) PROVE raced' \in BOOLEAN
  BY <1>2, Zenon DEF EnsurePolicy
<1> QED
  BY <1>1, <1>2

\* How the invariant follows for a step of replica r that adds no decision.
LEMMA StepParts ==
  ASSUME IInv, NEW r \in Replicas, Step(r), Tables', Kept, Progress', decisions' = decisions,
         Serving(r)', \A o \in Replicas \ {r} : Idle(o)
  PROVE  IInv'
<1>1. TypeOK' /\ Rows'
  <2>1. raced' \in BOOLEAN
    BY RacedType DEF IInv, Next
  <2> QED
    BY <2>1 DEF IInv, TypeOK, Tables, Progress
<1>2. Decided'
  BY KeptDecided DEF IInv
<1>3. \A o \in Replicas \ {r} : Serving(o)'
  BY IdleServing DEF IInv, AllServing
<1>4. AllServing'
  BY <1>3 DEF AllServing
<1> QED
  BY <1>1, <1>2, <1>4 DEF IInv

\* Steps that leave the tables alone.
LEMMA QuietInv ==
  ASSUME IInv, NEW r \in Replicas,
         Boot(r) \/ Publish(r) \/ EnsurePolicy(r) \/ Swap(r) \/ HotReload(r) \/ Crash(r)
  PROVE  IInv' /\ UNCHANGED tables
<1>0. decisions' = decisions /\ UNCHANGED tables /\ Step(r)
  BY DEF Boot, Publish, EnsurePolicy, Swap, HotReload, Crash, Step
<1>1. Tables' /\ Kept
  BY <1>0 DEF tables, IInv, TypeOK, Tables, Rows, Kept
<1>2. \A o \in Replicas \ {r} : Idle(o)
  BY DEF Boot, Publish, EnsurePolicy, Swap, HotReload, Crash, Exited, Ended, Idle, replica,
         IInv, TypeOK
<1>s. Serving(r)
  BY DEF IInv, AllServing
<1>3. CASE Boot(r)
  <2>1. Progress' /\ Serving(r)'
    BY <1>3, PolicyStoreAssumption DEF Boot, Begin, IInv, TypeOK, Progress, Serving, Up
  <2> QED
    BY <1>0, <1>1, <1>2, <2>1, StepParts
<1>4. CASE Publish(r)
  <2>1. Progress'
    BY <1>4, PolicyStoreAssumption DEF Publish, Begin, IInv, TypeOK, Progress, Up, replica
  <2>2. Serving(r)'
    BY <1>4, <1>0, <1>s DEF Publish, IInv, TypeOK, Serving, Up, replica, tables, VersionToInt
  <2> QED
    BY <1>0, <1>1, <1>2, <2>1, <2>2, StepParts
<1>5. CASE EnsurePolicy(r)
  <2>1. PICK p \in PolicyIds : found' = [found EXCEPT ![r] = p]
    BY <1>5 DEF EnsurePolicy, Found, Fresh, IInv, TypeOK
  <2>2. Progress'
    BY <1>5, <2>1 DEF EnsurePolicy, IInv, TypeOK, Progress, Up, replica
  <2>3. Serving(r)'
    BY <1>5, <1>0, <1>s, <2>1 DEF EnsurePolicy, IInv, TypeOK, Serving, Up, replica, tables, VersionToInt
  <2> QED
    BY <1>0, <1>1, <1>2, <2>2, <2>3, StepParts
<1>6. CASE Crash(r)
  <2>1. Progress'
    BY <1>6 DEF Crash, Exited, Ended, NoDraft, IInv, TypeOK, Progress
  <2>2. Serving(r)'
    BY <1>6 DEF Crash, Exited, IInv, TypeOK, Serving, Up
  <2> QED
    BY <1>0, <1>1, <1>2, <2>1, <2>2, StepParts
<1>7. CASE Swap(r)
  <2>0. draft[r].version \in Versions /\ pc'[r] = "serving" /\ rowID' = rowID /\ booted' = booted
    BY <1>7, <1>s DEF Swap, Serving, IInv, TypeOK
  <2>1. Progress'
    BY <1>7, <2>0 DEF Swap, Ended, NoDraft, IInv, TypeOK, Progress, Up
  <2>2. Serving(r)'
    BY <1>7, <1>0, <1>s, <2>0 DEF Swap, Serving, Up, tables, VersionToInt
  <2> QED
    BY <1>0, <1>1, <1>2, <2>1, <2>2, StepParts
<1>8. CASE HotReload(r)
  <2>1. Progress'
    BY <1>8 DEF HotReload, IInv, TypeOK, Progress
  <2>2. Serving(r)'
    BY <1>8, <1>0, <1>s DEF HotReload, Serving, Up, tables, VersionToInt
  <2> QED
    BY <1>0, <1>1, <1>2, <2>1, <2>2, StepParts
<1> QED
  BY <1>0, <1>3, <1>4, <1>5, <1>6, <1>7, <1>8

\* Steps that end a transaction.
LEMMA CommitInv ==
  ASSUME IInv, NEW r \in Replicas, EnsurePolicyVersion(r) \/ ActivatePolicyVersion(r)
  PROVE  IInv'
<1>0. decisions' = decisions /\ pc[r] \in {"bootCommit", "commit"} /\ Committed(r) /\ Step(r)
  BY DEF EnsurePolicyVersion, ActivatePolicyVersion, Step
<1>1. /\ Tables' /\ Kept
      /\ policies' = policies \cup {found[r]} /\ found[r] \in PolicyIds
      /\ Key(r) \in Keys /\ versions'[Key(r)] # NoRow
      /\ Key(r)[2] = VersionToInt(draft[r].version)
  BY <1>0, CommitTables
<1>2. \A o \in Replicas \ {r} : Idle(o)
  BY DEF EnsurePolicyVersion, ActivatePolicyVersion, KeepsRowID, Ended, Idle, IInv, TypeOK
<1>s. Serving(r)
  BY DEF IInv, AllServing
<1>3. Progress'
  <2>1. /\ booted' = booted /\ begun' = begun /\ ran' = ran
        /\ \E s \in {"serving", "swap"} : pc' = [pc EXCEPT ![r] = s]
        /\ rowID' = rowID \/ rowID' = [rowID EXCEPT ![r] = Key(r)]
        /\ draft' = draft \/ draft' = [draft EXCEPT ![r] = NoDraft]
        /\ found' = [found EXCEPT ![r] = Nil]
    BY DEF EnsurePolicyVersion, ActivatePolicyVersion, KeepsRowID, Ended
  <2>2. rowID' \in [Replicas -> Keys \cup {NoKey}]
    BY <1>1, <2>1 DEF IInv, TypeOK
  <2>3. draft' \in [Replicas -> [version : Versions \cup {Nil}, activate : BOOLEAN]]
    <3>1. NoDraft \in [version : Versions \cup {Nil}, activate : BOOLEAN]
      BY Zenon DEF NoDraft
    <3>2. draft \in [Replicas -> [version : Versions \cup {Nil}, activate : BOOLEAN]]
      BY DEF IInv, TypeOK
    <3> HIDE DEF NoDraft
    <3> QED
      BY <2>1, <3>1, <3>2
  <2> QED
    BY <2>1, <2>2, <2>3 DEF IInv, TypeOK, Progress, Up
<1>4. CASE EnsurePolicyVersion(r)
  <2>1. pc'[r] = "serving" /\ rowID'[r] = Key(r) /\ booted' = booted /\ draft[r].version = booted[r]
    BY <1>4, <1>s DEF EnsurePolicyVersion, IInv, TypeOK, Serving
  <2>2. Serving(r)'
    BY <1>1, <1>s, <2>1, <1>4 DEF Serving, Up, VersionToInt, EnsurePolicyVersion
  <2> QED
    BY <1>0, <1>1, <1>2, <1>3, <2>2, StepParts
<1>5. CASE ActivatePolicyVersion(r)
  <2>1. /\ pc[r] = "commit" /\ rowID' = rowID /\ booted' = booted
        /\ pc'[r] = "serving" \/ (pc'[r] = "swap" /\ draft' = draft)
    BY <1>5 DEF ActivatePolicyVersion, KeepsRowID, IInv, TypeOK
  <2>2. Serving(r)'
    BY <1>1, <1>s, <2>1 DEF Serving, Up, VersionToInt, Kept
  <2> QED
    BY <1>0, <1>1, <1>2, <1>3, <2>2, StepParts
<1> QED
  BY <1>4, <1>5

\* A statement that fails leaves what the others rely on.
LEMMA FailInv ==
  ASSUME IInv, NEW r \in Replicas, BootFails(r) \/ PublishFails(r)
  PROVE  IInv'
<1>0. decisions' = decisions /\ Failed(r) /\ Step(r)
  BY DEF BootFails, PublishFails, Step
<1>1. Tables' /\ Kept
  BY <1>0, FailTables
<1>2. \A o \in Replicas \ {r} : Idle(o)
  BY DEF BootFails, PublishFails, Exited, Ended, Idle, replica, IInv, TypeOK
<1>3. Progress'
  <2>1. CASE BootFails(r)
    BY <2>1 DEF BootFails, Exited, Ended, NoDraft, IInv, TypeOK, Progress
  <2>2. CASE PublishFails(r)
    BY <2>2 DEF PublishFails, Ended, NoDraft, replica, IInv, TypeOK, Progress, Up
  <2> QED
    BY <2>1, <2>2
<1>s. Serving(r)
  BY DEF IInv, AllServing
<1>4. CASE BootFails(r)
  <2>1. pc'[r] = "down"
    BY <1>4 DEF BootFails, Exited, IInv, TypeOK
  <2>2. Serving(r)'
    BY <2>1 DEF Serving, Up
  <2> QED
    BY <1>0, <1>1, <1>2, <1>3, <2>2, StepParts
<1>5. CASE PublishFails(r)
  <2>1. pc[r] \in {"select", "commit"} /\ pc'[r] = "serving" /\ rowID' = rowID /\ booted' = booted
    BY <1>5 DEF PublishFails, replica, IInv, TypeOK
  <2>2. Serving(r)'
    BY <1>1, <1>s, <2>1 DEF Serving, Up, VersionToInt, Kept
  <2> QED
    BY <1>0, <1>1, <1>2, <1>3, <2>2, StepParts
<1> QED
  BY <1>4, <1>5

\* A decision refers to the row its replica made at boot.
LEMMA PutInv ==
  ASSUME IInv, NEW r \in Replicas, NEW d \in Ids, Put(r, d)
  PROVE  IInv' /\ UNCHANGED tables
<1>1. UNCHANGED <<tables, pc, replica, draft, found, raced, begun>>
  BY DEF Put
<1>2. /\ rowID[r] \in Keys /\ versions[rowID[r]] # NoRow /\ rowID[r][2] = VersionToInt(booted[r])
      /\ booted[r] \in Versions
  BY DEF Put, IInv, AllServing, Serving, Up
<1>v. PICK v \in ran[r] :
        decisions' = [decisions EXCEPT ![d] = [row |-> rowID[r], version |-> v, booted |-> booted[r]]]
  BY DEF Put
<1>w. v \in Versions
  BY DEF IInv, TypeOK
<1>3. \A c \in Ids : decisions'[c] =
        IF c = d THEN [row |-> rowID[r], version |-> v, booted |-> booted[r]] ELSE decisions[c]
  BY <1>v DEF IInv, TypeOK
<1>4. decisions' \in [Ids -> [row : Keys \cup {NoKey}, version : Versions \cup {Nil},
                              booted : Versions \cup {Nil}]]
  BY <1>2, <1>v, <1>w DEF IInv, TypeOK
<1>5. TypeOK'
  BY <1>1, <1>4 DEF IInv, TypeOK, tables, replica
<1>6. Rows' /\ AllServing'
  BY <1>1 DEF IInv, Rows, AllServing, Serving, tables, replica, VersionToInt
<1>7. Decided'
  <2>1. ASSUME NEW c \in Ids, decisions'[c] # NoDecision
        PROVE  /\ decisions'[c].row \in Keys
               /\ versions[decisions'[c].row] # NoRow
               /\ decisions'[c].row[2] = VersionToInt(decisions'[c].booted)
    <3>1. CASE c = d
      BY <1>2, <1>3, <3>1
    <3>2. CASE c # d
      BY <1>3, <2>1, <3>2 DEF IInv, Decided
    <3> QED
      BY <3>1, <3>2
  <2>2. versions' = versions
    BY <1>1 DEF tables
  <2> QED
    BY <2>1, <2>2 DEF Decided, VersionToInt
<1> QED
  BY <1>1, <1>5, <1>6, <1>7 DEF IInv

\* An empty database satisfies IInv.
LEMMA InitIInv == Init => IInv
<1> SUFFICES ASSUME Init PROVE IInv
  OBVIOUS
<1>1. TypeOK
  <2>1. raced \in BOOLEAN
    BY Zenon DEF Init
  <2>2. draft \in [Replicas -> [version : Versions \cup {Nil}, activate : BOOLEAN]]
    BY DEF Init, NoDraft
  <2>3. decisions \in [Ids -> [row : Keys \cup {NoKey}, version : Versions \cup {Nil},
                               booted : Versions \cup {Nil}]]
    BY DEF Init, NoDecision
  <2>4. /\ active \in [PolicyIds -> Keys \cup {NoKey}] /\ policies \subseteq PolicyIds
        /\ versions \in [Keys -> [hash : Versions, source : Versions \cup {Nil}] \cup {NoRow}]
    BY DEF Init
  <2>5. /\ pc \in [Replicas -> Up \cup {"down", "boot", "bootCommit"}]
        /\ booted \in [Replicas -> Versions \cup {Nil}]
        /\ ran \in [Replicas -> SUBSET Versions]
        /\ rowID \in [Replicas -> Keys \cup {NoKey}]
        /\ found \in [Replicas -> PolicyIds \cup {Nil}]
        /\ begun \in 0 .. MaxBegun
    BY PolicyStoreAssumption DEF Init
  <2> QED
    BY <2>1, <2>2, <2>3, <2>4, <2>5 DEF TypeOK
<1>2. Rows /\ Decided
  BY DEF Init, Rows, Decided
<1>3. AllServing
  BY DEF Init, AllServing, Serving, Up
<1> QED
  BY <1>1, <1>2, <1>3 DEF IInv

\* Each step of Next keeps IInv.
LEMMA NextIInv == IInv /\ [Next]_vars => IInv'
<1> SUFFICES ASSUME IInv, [Next]_vars PROVE IInv'
  OBVIOUS
<1>1. ASSUME NEW r \in Replicas, Step(r) PROVE IInv'
  BY <1>1, QuietInv, CommitInv, FailInv, PutInv DEF Step
<1>2. CASE UNCHANGED vars
  BY <1>2 DEF vars, IInv, TypeOK, Rows, Decided, AllServing, Serving, VersionToInt
<1> QED
  BY <1>1, <1>2 DEF Next

\* IInv holds throughout.
LEMMA Invariance == Spec => []IInv
  BY InitIInv, NextIInv, PTL DEF Spec

\* What any step does to the tables.
LEMMA TablesStep ==
  ASSUME IInv, [Next]_vars
  PROVE  \/ UNCHANGED tables
         \/ \E r \in Replicas : pc[r] \in {"bootCommit", "commit"} /\ Committed(r)
<1>1. ASSUME NEW r \in Replicas, Step(r)
      PROVE  UNCHANGED tables \/ (pc[r] \in {"bootCommit", "commit"} /\ Committed(r))
  <2>1. CASE \/ Boot(r) \/ Publish(r) \/ EnsurePolicy(r) \/ Swap(r) \/ HotReload(r) \/ Crash(r)
             \/ \E d \in Ids : Put(r, d)
    BY <2>1 DEF Boot, Publish, EnsurePolicy, Swap, HotReload, Crash, Put
  <2>2. CASE EnsurePolicyVersion(r) \/ ActivatePolicyVersion(r)
    BY <2>2 DEF EnsurePolicyVersion, ActivatePolicyVersion
  <2>3. CASE BootFails(r) \/ PublishFails(r)
    BY <2>3 DEF BootFails, PublishFails, Failed
  <2> QED
    BY <1>1, <2>1, <2>2, <2>3 DEF Step
<1>2. CASE UNCHANGED vars
  BY <1>2 DEF vars, tables
<1> QED
  BY <1>1, <1>2 DEF Next

-----------------------------------------------------------------------------
\* Type correctness of the tables and of the replicas.
THEOREM Typing == Spec => []TypeOK
  BY Invariance, PTL DEF IInv

\* Until its engine swaps, the decisions of a replica name a row of the version that
\* made them, whatever else is published; after a swap nothing is claimed, for
\* policyVersionID is not resolved again.
THEOREM RowNamesVersion == Spec => []RowNamesItsVersion
<1>1. IInv => RowNamesItsVersion
  BY DEF IInv, Rows, Decided, RowNamesItsVersion
<1> QED
  BY <1>1, Invariance, PTL

\* The transactions of EnsurePolicyVersion and ActivatePolicyVersion never leave
\* a policy without its active row.
THEOREM ActiveComplete == Spec => []ActiveIsComplete
<1>1. IInv => ActiveIsComplete
  <2> SUFFICES ASSUME IInv PROVE ActiveIsComplete
    OBVIOUS
  <2>1. \A p \in policies : active[p] # NoKey /\ active[p][1] = p /\ versions[active[p]] # NoRow
    BY NoKeyIsNone DEF IInv, Rows
  <2>2. (\E r \in Replicas : pc[r] \in Up) => GetActiveVersion # {}
    BY DEF IInv, AllServing, Serving, GetActiveVersion
  <2> QED
    BY <2>1, <2>2 DEF ActiveIsComplete
<1> QED
  BY <1>1, Invariance, PTL

\* The upsert rewrites a hash only by one with the same number, and no source.
THEOREM Rewrites == Spec => RewrittenOnlyByCollision
<1>1. IInv /\ IInv' /\ [Next]_vars =>
        [\A k \in Keys : versions[k] # NoRow =>
           /\ versions'[k].source = versions[k].source
           /\ versions'[k].hash # versions[k].hash =>
                VersionToInt(versions'[k].hash) = VersionToInt(versions[k].hash)]_vars
  <2> SUFFICES ASSUME IInv, IInv', [Next]_vars, NEW k \in Keys, versions[k] # NoRow
               PROVE  /\ versions'[k].source = versions[k].source
                      /\ VersionToInt(versions'[k].hash) = VersionToInt(versions[k].hash)
    OBVIOUS
  <2>1. versions'[k].source = versions[k].source /\ versions'[k] # NoRow
    BY TablesStep, CommitTables DEF tables, Kept
  <2>2. VersionToInt(versions[k].hash) = k[2]
    BY DEF IInv, Rows
  <2>3. VersionToInt(versions'[k].hash) = k[2]
    BY <2>1 DEF IInv, Rows, VersionToInt
  <2> QED
    BY <2>1, <2>2, <2>3
<1> QED
  BY <1>1, Invariance, PTL DEF Spec, RewrittenOnlyByCollision

\* The policies that are there, and those that open transactions have in hand.
Claimed == (policies \cup {found[r] : r \in Replicas}) \ {Nil}

OneClaim == ~raced => \A p, q \in Claimed : p = q

\* Only a SELECT that finds no row brings in a new policy, and only a race brings in
\* another one beside it.
LEMMA OneClaimNext == IInv /\ OneClaim /\ [Next]_vars => OneClaim'
<1> SUFFICES ASSUME IInv, OneClaim, [Next]_vars PROVE OneClaim'
  OBVIOUS
<1>1. ASSUME Claimed' \subseteq Claimed, ~raced' => ~raced PROVE OneClaim'
  BY <1>1 DEF OneClaim
<1>2. CASE UNCHANGED vars
  <2>1. Claimed' = Claimed /\ raced' = raced
    BY <1>2 DEF vars, Claimed
  <2> QED
    BY <1>1, <2>1
<1>3. ASSUME NEW r \in Replicas, Step(r), ~EnsurePolicy(r) PROVE OneClaim'
  <2>1. raced' = raced /\ \A q \in Replicas : found'[q] \in {found[q], Nil}
    BY <1>3 DEF Step, Boot, Publish, EnsurePolicyVersion, BootFails, ActivatePolicyVersion,
                PublishFails, Swap, HotReload, Put, Crash, Exited, Ended, IInv, TypeOK
  <2>2. policies' \subseteq policies \cup {found[q] : q \in Replicas}
    BY TablesStep DEF tables, Committed
  <2>3. Claimed' \subseteq Claimed
    BY <2>1, <2>2 DEF Claimed
  <2> QED
    BY <1>1, <2>1, <2>3
<1>4. ASSUME NEW r \in Replicas, EnsurePolicy(r) PROVE OneClaim'
  <2>1. PICK p \in Found : found' = [found EXCEPT ![r] = p]
    BY <1>4 DEF EnsurePolicy
  <2>2. \A q \in Replicas : found'[q] = IF q = r THEN p ELSE found[q]
    BY <2>1 DEF IInv, TypeOK
  <2>3. policies' = policies
    BY <1>4 DEF EnsurePolicy, tables
  <2>4. ~raced' => ~raced /\ ~Races(r)
    BY <1>4, Zenon DEF EnsurePolicy
  <2>5. CASE policies # {}
    <3>1. p \in policies
      BY <2>5 DEF Found
    <3>2. Claimed' \subseteq Claimed
      BY <2>2, <2>3, <3>1 DEF Claimed
    <3> QED
      BY <1>1, <2>4, <3>2
  <2>6. CASE policies = {}
    <3>1. ~Races(r) => \A q \in Replicas : found'[q] \in {p, Nil}
      BY <2>2, <2>6 DEF Races
    <3>2. ~Races(r) => Claimed' \subseteq {p}
      BY <2>3, <2>6, <3>1 DEF Claimed
    <3> QED
      BY <2>4, <3>2 DEF OneClaim
  <2> QED
    BY <2>5, <2>6
<1> QED
  BY <1>2, <1>3, <1>4 DEF Next

\* The scope has one row unless two transactions overlapped before there was any,
\* for any number of replicas, publishes, restarts and failures.
THEOREM OnePolicy == Spec => []SecondPolicyOnlyByRace
<1>1. Init => OneClaim
  <2>1. Init => Claimed = {}
    BY DEF Init, Claimed
  <2> QED
    BY <2>1 DEF OneClaim
<1>2. IInv /\ OneClaim => SecondPolicyOnlyByRace
  <2>1. IInv => policies \subseteq Claimed
    BY NilAssumption DEF IInv, TypeOK, Claimed
  <2> QED
    BY <2>1 DEF OneClaim, SecondPolicyOnlyByRace
<1> QED
  BY <1>1, <1>2, OneClaimNext, Invariance, PTL DEF Spec
=============================================================================
