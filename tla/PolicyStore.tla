----------------------------- MODULE PolicyStore -----------------------------
(***************************************************************************)
(* The rows of policies, policy_versions and policy_decisions              *)
(* (internal/db/audit.go, activate.go), shared by several replicas of the  *)
(* service: each makes the row of its bundle's version when it boots,      *)
(* publishes versions, swaps bundles in its engine, which writes no row,   *)
(* and inserts the decisions it makes.  A transaction                      *)
(* is two steps: the SELECT of ensurePolicy, which sees what is committed  *)
(* and takes no lock, and the rest of it with COMMIT.  The upsert locks    *)
(* the version's row and the UPDATE then locks the policy's, in that order *)
(* in every transaction, so overlapping transactions take effect in the    *)
(* order in which they commit.                                             *)
(***************************************************************************)
EXTENDS Integers, FiniteSets

CONSTANTS
  Replicas,   \* processes that share the database
  Versions,   \* bundle hashes, which are also the versions of the bundles
  Number,     \* the integer versionToInt makes of a version
  PolicyIds,  \* UUIDs for rows of policies
  Ids,        \* decision ids
  MaxBegun    \* bound: transactions that begin

ASSUME PolicyStoreAssumption == Number \in [Versions -> Nat] /\ MaxBegun \in Nat

\* uuid.Nil
Nil == "nil"

ASSUME NilAssumption == Nil \notin Versions \cup PolicyIds

\* A number stays a number and a hash is folded by FNV-1a into one of nine
\* million: Number is any function, and two versions may share a number.
VersionToInt(v) == Number[v]

\* UNIQUE (policy_id, version): a row of policy_versions is named by the two.
Keys == PolicyIds \X {VersionToInt(v) : v \in Versions}

VARIABLES
  policies,   \* ids of the rows whose scope is "default"
  active,     \* policies.active_version
  versions,   \* policy_versions: rego_hash, and the version rego_source is of
  decisions,  \* policy_decisions: policy_version, and of which version the policy was
              \* that decided, and which its replica had booted with
  pc,         \* progress of each replica
  booted,     \* the version its engine had at boot
  ran,        \* the versions its engine has run since
  rowID,      \* AuditStore.policyVersionID
  draft,      \* the version its transaction writes, and the activate parameter
  found,      \* policyID of its transaction
  raced,      \* history: two open transactions have each found no policy
  begun       \* transactions begun

vars == <<policies, active, versions, decisions, pc, booted, ran, rowID, draft, found, raced, begun>>

tables  == <<policies, active, versions>>
replica == <<booted, ran, rowID>>

NoKey      == <<Nil, 0>>
NoRow      == [hash |-> Nil, source |-> Nil]
NoDecision == [row |-> NoKey, version |-> Nil, booted |-> Nil]
NoDraft    == [version |-> Nil, activate |-> FALSE]

Up == {"serving", "select", "commit", "swap"}

\* MigrateUp has made the tables and no replica has started.
Init ==
  /\ policies = {}
  /\ active = [p \in PolicyIds |-> NoKey]
  /\ versions = [k \in Keys |-> NoRow]
  /\ decisions = [d \in Ids |-> NoDecision]
  /\ pc = [r \in Replicas |-> "down"]
  /\ booted = [r \in Replicas |-> Nil]
  /\ ran = [r \in Replicas |-> {}]
  /\ rowID = [r \in Replicas |-> NoKey]
  /\ draft = [r \in Replicas |-> NoDraft]
  /\ found = [r \in Replicas |-> Nil]
  /\ raced = FALSE
  /\ begun = 0

-----------------------------------------------------------------------------
Begin == begun < MaxBegun /\ begun' = begun + 1

\* buildServices: LoadBundleFromDir, NewAuditStore, then EnsurePolicyVersion
\* begins its transaction for the version of the engine.
Boot(r) ==
  /\ pc[r] = "down"
  /\ Begin
  /\ \E v \in Versions :
       /\ booted' = [booted EXCEPT ![r] = v]
       /\ ran' = [ran EXCEPT ![r] = {v}]
       /\ draft' = [draft EXCEPT ![r] = [version |-> v, activate |-> TRUE]]
  /\ pc' = [pc EXCEPT ![r] = "boot"]
  /\ UNCHANGED <<tables, decisions, rowID, found, raced>>

\* publishRulesHandler begins the transaction of ActivatePolicyVersion.  What
\* the version is depends on the engine's data, see Engine.PublishBundle.
Publish(r) ==
  /\ pc[r] = "serving"
  /\ Begin
  /\ \E v \in Versions, a \in BOOLEAN :
       draft' = [draft EXCEPT ![r] = [version |-> v, activate |-> a]]
  /\ pc' = [pc EXCEPT ![r] = "select"]
  /\ UNCHANGED <<tables, decisions, replica, found, raced>>

Fresh == PolicyIds \ (policies \cup {found[q] : q \in Replicas})

\* Fault: every transaction inserts a policy.
FaultInsertAlways == Fresh

\* ensurePolicy: some row with the scope, or the id of one to insert.
Found == IF policies = {} THEN Fresh ELSE policies

\* Another transaction is about to insert the policy that r does not find.
Races(r) == policies = {} /\ \E q \in Replicas \ {r} : found[q] # Nil

EnsurePolicy(r) ==
  /\ pc[r] \in {"boot", "select"}
  /\ \E p \in Found : found' = [found EXCEPT ![r] = p]
  /\ raced' = (raced \/ Races(r))
  /\ pc' = [pc EXCEPT ![r] = IF @ = "boot" THEN "bootCommit" ELSE "commit"]
  /\ UNCHANGED <<tables, decisions, replica, draft, begun>>

Key(r) == <<found[r], VersionToInt(draft[r].version)>>

\* The regoSource argument: empty at boot, the body of the request on a publish.
RegoSource(r) == IF pc[r] = "bootCommit" THEN Nil ELSE draft[r].version

\* Fault: the bundle's source is overwritten too.
FaultOverwrite(r) == [hash |-> draft[r].version, source |-> RegoSource(r)]

\* ON CONFLICT (policy_id, version) DO UPDATE SET rego_hash = EXCLUDED.rego_hash
Upsert(r) ==
  [hash   |-> draft[r].version,
   source |-> IF versions[Key(r)] = NoRow THEN RegoSource(r) ELSE versions[Key(r)].source]

\* Fault: the policy is inserted before the transaction that sets its version.
FaultPolicyOnly(r) ==
  /\ policies' = policies \cup {found[r]}
  /\ UNCHANGED <<versions, active>>

\* The INSERT of ensurePolicy, ensurePolicyVersion, and COMMIT.
Committed(r) ==
  /\ policies' = policies \cup {found[r]}
  /\ versions' = [versions EXCEPT ![Key(r)] = Upsert(r)]
  /\ active' = [active EXCEPT ![found[r]] = Key(r)]

\* A statement fails and the transaction is rolled back, or it commits and the
\* answer is lost.
Failed(r) ==
  \/ UNCHANGED tables
  \/ pc[r] \in {"bootCommit", "commit"} /\ Committed(r)

Ended(r) ==
  /\ draft' = [draft EXCEPT ![r] = NoDraft]
  /\ found' = [found EXCEPT ![r] = Nil]
  /\ UNCHANGED raced

Exited(r) ==
  /\ pc' = [pc EXCEPT ![r] = "down"]
  /\ booted' = [booted EXCEPT ![r] = Nil]
  /\ ran' = [ran EXCEPT ![r] = {}]
  /\ rowID' = [rowID EXCEPT ![r] = NoKey]
  /\ Ended(r)

EnsurePolicyVersion(r) ==
  /\ pc[r] = "bootCommit"
  /\ Committed(r)
  /\ rowID' = [rowID EXCEPT ![r] = Key(r)]
  /\ pc' = [pc EXCEPT ![r] = "serving"]
  /\ Ended(r)
  /\ UNCHANGED <<decisions, booted, ran, begun>>

\* buildServices returns the error and the process exits.
BootFails(r) ==
  /\ pc[r] \in {"boot", "bootCommit"}
  /\ Failed(r)
  /\ Exited(r)
  /\ UNCHANGED <<decisions, begun>>

\* Fault: the published version is taken for that of the decisions to come, although
\* the engine swaps later or not at all.
FaultFollowsPublish(r) == rowID' = [rowID EXCEPT ![r] = Key(r)]

\* ActivatePolicyVersion returns the row's id, which the handler drops.
KeepsRowID(r) == UNCHANGED rowID

\* ActivatePolicyVersion runs whatever the activate parameter is, which only
\* decides whether the handler goes on to swap.
ActivatePolicyVersion(r) ==
  /\ pc[r] = "commit"
  /\ Committed(r)
  /\ KeepsRowID(r)
  /\ IF draft[r].activate
       THEN /\ pc' = [pc EXCEPT ![r] = "swap"]
            /\ found' = [found EXCEPT ![r] = Nil]
            /\ UNCHANGED <<draft, raced>>
       ELSE pc' = [pc EXCEPT ![r] = "serving"] /\ Ended(r)
  /\ UNCHANGED <<decisions, booted, ran, begun>>

\* The last step of the handler: Engine.Swap.
Swap(r) ==
  /\ pc[r] = "swap"
  /\ ran' = [ran EXCEPT ![r] = @ \cup {draft[r].version}]
  /\ pc' = [pc EXCEPT ![r] = "serving"]
  /\ Ended(r)
  /\ UNCHANGED <<tables, decisions, booted, rowID, begun>>

\* The HotReloader swaps in what the bundle service has.
HotReload(r) ==
  /\ pc[r] \in Up
  /\ \E v \in Versions \ ran[r] : ran' = [ran EXCEPT ![r] = @ \cup {v}]
  /\ UNCHANGED <<tables, decisions, pc, booted, rowID, draft, found, raced, begun>>

PublishFails(r) ==
  /\ pc[r] \in {"select", "commit"}
  /\ Failed(r)
  /\ pc' = [pc EXCEPT ![r] = "serving"]
  /\ Ended(r)
  /\ UNCHANGED <<decisions, replica, begun>>

\* AuditStore.Put: decision_id is the primary key, policy_version is the row
\* resolved at boot.  The decision may be of any version the engine has run: swaps
\* come between Eval and Put.
Put(r, d) ==
  /\ pc[r] \in Up
  /\ rowID[r] # NoKey
  /\ decisions[d] = NoDecision
  /\ \E v \in ran[r] :
       decisions' = [decisions EXCEPT ![d] = [row |-> rowID[r], version |-> v, booted |-> booted[r]]]
  /\ UNCHANGED <<tables, pc, replica, draft, found, raced, begun>>

\* Open transactions are rolled back.
Crash(r) ==
  /\ pc[r] # "down"
  /\ Exited(r)
  /\ UNCHANGED <<tables, decisions, begun>>

Step(r) ==
  \/ Boot(r)
  \/ Publish(r)
  \/ EnsurePolicy(r)
  \/ EnsurePolicyVersion(r)
  \/ BootFails(r)
  \/ ActivatePolicyVersion(r)
  \/ PublishFails(r)
  \/ Swap(r)
  \/ HotReload(r)
  \/ \E d \in Ids : Put(r, d)
  \/ Crash(r)

Next == \E r \in Replicas : Step(r)

Spec == Init /\ [][Next]_vars

\* What GetActiveVersion may answer: it reads some row of the scope.
GetActiveVersion == {versions[active[p]] : p \in policies}

-----------------------------------------------------------------------------
TypeOK ==
  /\ policies \subseteq PolicyIds
  /\ active \in [PolicyIds -> Keys \cup {NoKey}]
  /\ versions \in [Keys -> [hash : Versions, source : Versions \cup {Nil}] \cup {NoRow}]
  /\ decisions \in [Ids -> [row : Keys \cup {NoKey}, version : Versions \cup {Nil},
                            booted : Versions \cup {Nil}]]
  /\ pc \in [Replicas -> Up \cup {"down", "boot", "bootCommit"}]
  /\ booted \in [Replicas -> Versions \cup {Nil}]
  /\ ran \in [Replicas -> SUBSET Versions]
  /\ rowID \in [Replicas -> Keys \cup {NoKey}]
  /\ draft \in [Replicas -> [version : Versions \cup {Nil}, activate : BOOLEAN]]
  /\ found \in [Replicas -> PolicyIds \cup {Nil}]
  /\ raced \in BOOLEAN
  /\ begun \in 0 .. MaxBegun

\* A decision names the version that made it (README.md:108, "policy version
\* hash"), up to collisions, as long as its engine runs what it booted with:
\* whatever this and other replicas publish meanwhile, with the activate parameter
\* or without, and whatever the transactions and restarts do.  Decisions made after
\* a swap are excepted, and wrong: policyVersionID is resolved at boot and never
\* again (db/audit.go:59), so they name the version at boot instead of their own.
RowNamesItsVersion ==
  \A d \in Ids :
    LET made == decisions[d]
        row  == versions[made.row]
    IN  made # NoDecision /\ made.version = made.booted =>
          row # NoRow /\ VersionToInt(row.hash) = VersionToInt(made.version)

\* A reader of the active version finds a complete row as soon as a replica
\* serves: transactions that overlap, fail or lose their answer never leave a
\* policy without a version, or with one that is another policy's or not there.
ActiveIsComplete ==
  /\ \A p \in policies : active[p] # NoKey /\ active[p][1] = p /\ versions[active[p]] # NoRow
  /\ (\E r \in Replicas : pc[r] \in Up) => GetActiveVersion # {}

\* Rows of policy_versions are never deleted, their source is never rewritten,
\* and their hash is rewritten only by another version that versionToInt folds
\* into the same number: the upsert overwrites rego_hash and nothing else.
RewrittenOnlyByCollision ==
  [][\A k \in Keys : versions[k] # NoRow =>
       /\ versions'[k].source = versions[k].source
       /\ versions'[k].hash # versions[k].hash =>
            VersionToInt(versions'[k].hash) = VersionToInt(versions[k].hash)]_vars

\* README.md:208 promises "one row per logical policy scope".  No constraint makes
\* it so: two replicas whose first transactions overlap each insert a row, and both
\* stay.  Nothing else makes a second one: not publishing, restarts, transactions
\* that fail or that lose the answer to their COMMIT, or boots one after another.
SecondPolicyOnlyByRace == ~raced => \A p, q \in policies : p = q

-----------------------------------------------------------------------------
\* What the README says of POST /v1/policy/rules: it makes a row "does not
\* activate unless activate=true", so without the parameter the active version
\* stays what it was.
PublishDoesNotActivate ==
  [][\A r \in Replicas :
       pc[r] = "commit" /\ pc'[r] = "serving" /\ ~draft[r].activate => active' = active]_vars
=============================================================================
