-------------------------------- MODULE Engine -------------------------------
(***************************************************************************)
(* The swappable decision engine (internal/engine) with its two writers,   *)
(* the hot reloader and POST /v1/policy/rules (internal/api/rules.go), and *)
(* its readers, the evaluate calls.  The engine holds the bundle that      *)
(* Hash and Version name and, apart from it, the compiler and data store   *)
(* that Evaluate runs.  Everything under OPAEngine.mu is one step; what    *)
(* callers do between two calls interleaves.                               *)
(***************************************************************************)
EXTENDS Integers, FiniteSets

CONSTANTS
  Sources,      \* Rego sources, as served, published or on disk
  Compiles,     \* those that parse and compile
  Publishes,    \* publish requests
  Evaluations,  \* evaluate calls
  MaxServed     \* bound: how often the bundle service changes what it serves

ASSUME EngineAssumption == Compiles \subseteq Sources /\ MaxServed \in Nat

\* Data documents of a bundle: caps.yaml, or nothing.
Data == {"caps", "none"}

\* Version and Hash of a bundle coincide.  HashBundle covers source and data;
\* LoadBundleFromURL hashes the body it fetched.
HashBundle(source, data) == <<"bundle", source, data>>
BodyHash(source)         == <<"body", source>>

Loaded(source, data) ==
  [source |-> source, data |-> data, hash |-> HashBundle(source, data)]

\* LoadBundleFromURL returns the source with empty data.
Fetched(source) ==
  [source |-> source, data |-> "none", hash |-> BodyHash(source)]

Bundles == {Loaded(s, d) : s \in Sources, d \in Data} \cup {Fetched(s) : s \in Sources}
Hashes  == {b.hash : b \in Bundles}

NoPolicy == [source |-> "nil", data |-> "none", hash |-> <<"nil">>]

VARIABLES
  bundle,     \* OPAEngine.bundle: what Hash and Version report
  active,     \* the bundle OPAEngine.compiler and store were built from
  served,     \* source the bundle service serves
  changes,    \* how often it has changed
  reload,     \* the hot reloader: "tick", "fetched" or "swap"
  staged,     \* the bundle it has fetched
  publish,    \* progress of each publish request
  draft,      \* bundle each request has built, and its activate parameter
  eval,       \* progress of each evaluate call
  snapshot,   \* compiler and store it took from the engine
  consulted,  \* bundles its queries ran against
  stamp,      \* policy_version of its response
  overtaken   \* whether a swap came while it ran

vars == <<bundle, active, served, changes, reload, staged, publish, draft,
          eval, snapshot, consulted, stamp, overtaken>>

engineVars  == <<bundle, active>>
reloadVars  == <<served, changes, reload, staged>>
publishVars == <<publish, draft>>
callVars    == <<eval, snapshot, consulted, stamp>>
evalVars    == <<callVars, overtaken>>

\* Boot: LoadBundleFromDir and NewOPAEngine.  Nothing compiles the directory's
\* source before the engine does.
Init ==
  /\ \E s \in Sources :
       /\ bundle = Loaded(s, "caps")
       /\ active = IF s \in Compiles THEN Loaded(s, "caps") ELSE NoPolicy
  /\ served \in Sources
  /\ changes = 0
  /\ reload = "tick"
  /\ staged = NoPolicy
  /\ publish = [p \in Publishes |-> "idle"]
  /\ draft = [p \in Publishes |-> [bundle |-> NoPolicy, activate |-> FALSE]]
  /\ eval = [e \in Evaluations |-> "idle"]
  /\ snapshot = [e \in Evaluations |-> NoPolicy]
  /\ consulted = [e \in Evaluations |-> {}]
  /\ stamp = [e \in Evaluations |-> NoPolicy.hash]
  /\ overtaken = [e \in Evaluations |-> FALSE]

-----------------------------------------------------------------------------
\* Fault: a source that does not compile leaves the engine without a compiler.
FaultRebuildClears(b) == IF b.source \in Compiles THEN b ELSE NoPolicy

\* rebuild: on a compile error compiler and store stay as they were.
Rebuilt(b) == IF b.source \in Compiles THEN b ELSE active

\* bundle, compiler and store change together, under the write lock.
Swap(b) ==
  /\ bundle' = b
  /\ active' = Rebuilt(b)
  /\ overtaken' = [e \in Evaluations |-> overtaken[e] \/ eval[e] \notin {"idle", "done"}]

-----------------------------------------------------------------------------
\* The bundle service (external) starts to serve another source.
Serve(s) ==
  /\ changes < MaxServed
  /\ s # served
  /\ served' = s
  /\ changes' = changes + 1
  /\ UNCHANGED <<reload, staged, engineVars, publishVars, evalVars>>

\* reloadOnce: fetch; compare with the engine's hash and validate; swap.  A
\* fetch that fails changes nothing.
Fetch ==
  /\ reload = "tick"
  /\ staged' = Fetched(served)
  /\ reload' = "fetched"
  /\ UNCHANGED <<served, changes, engineVars, publishVars, evalVars>>

\* Fault: sources are compared instead of hashes.
FaultSameSource == staged.source # bundle.source

Differs == staged.hash # bundle.hash

\* Fault: the staged bundle is swapped in unvalidated.
FaultNoValidate == TRUE

\* defaultValidate: some source, and it compiles.
Validated == staged.source \in Compiles

Check ==
  /\ reload = "fetched"
  /\ IF Differs /\ Validated
       THEN reload' = "swap" /\ UNCHANGED staged
       ELSE reload' = "tick" /\ staged' = NoPolicy
  /\ UNCHANGED <<served, changes, engineVars, publishVars, evalVars>>

ReloadSwap ==
  /\ reload = "swap"
  /\ Swap(staged)
  /\ reload' = "tick"
  /\ staged' = NoPolicy
  /\ UNCHANGED <<served, changes, publishVars, callVars>>

-----------------------------------------------------------------------------
\* publishRulesHandler: publishBundle takes the data of the engine's bundle as
\* it is now, and compiles nothing.
PublishBundle(p) ==
  /\ publish[p] = "idle"
  /\ \E s \in Sources, a \in BOOLEAN :
       draft' = [draft EXCEPT ![p] = [bundle |-> Loaded(s, bundle.data), activate |-> a]]
  /\ publish' = [publish EXCEPT ![p] = "db"]
  /\ UNCHANGED <<engineVars, reloadVars, evalVars>>

\* The transaction of ActivatePolicyVersion, whose rows are those of PolicyStore,
\* comes before the swap.
PublishRow(p) ==
  /\ publish[p] = "db"
  /\ publish' = [publish EXCEPT ![p] = IF draft[p].activate THEN "swap" ELSE "done"]
  /\ UNCHANGED <<draft, engineVars, reloadVars, evalVars>>

PublishRowFails(p) ==
  /\ publish[p] = "db"
  /\ publish' = [publish EXCEPT ![p] = "failed"]
  /\ UNCHANGED <<draft, engineVars, reloadVars, evalVars>>

PublishSwap(p) ==
  /\ publish[p] = "swap"
  /\ Swap(draft[p].bundle)
  /\ publish' = [publish EXCEPT ![p] = "done"]
  /\ UNCHANGED <<draft, reloadVars, callVars>>

-----------------------------------------------------------------------------
\* OPAEngine.Evaluate: compiler and store are read once, under the lock.  With
\* no compiler it compiles the bundle itself, which fails as rebuild did.
Begin(e) ==
  /\ eval[e] = "idle"
  /\ snapshot' = [snapshot EXCEPT ![e] = active]
  /\ eval' = [eval EXCEPT ![e] = IF active = NoPolicy THEN "finalize" ELSE "allow"]
  /\ UNCHANGED <<consulted, stamp, overtaken, engineVars, reloadVars, publishVars>>

\* Fault: each query takes the compiler the engine has by then.
FaultLatestPolicy(e) == active

Policy(e) == snapshot[e]

\* The queries for allow, manual_review, deny and risk_score, in that order.
Query(e) ==
  /\ eval[e] \in {"allow", "manual_review", "deny", "risk_score"}
  /\ consulted' = [consulted EXCEPT ![e] = @ \cup {Policy(e)}]
  /\ eval' = [eval EXCEPT ![e] = CASE @ = "allow"         -> "manual_review"
                                   [] @ = "manual_review" -> "deny"
                                   [] @ = "deny"          -> "risk_score"
                                   [] OTHER               -> "finalize"]
  /\ UNCHANGED <<snapshot, stamp, overtaken, engineVars, reloadVars, publishVars>>

\* Fault: the version is that of the bundle the reloader has fetched.
FaultStagedVersion == IF staged = NoPolicy THEN bundle.hash ELSE staged.hash

Version == bundle.hash

\* finalize asks the engine again for the version it puts on the decision.
Finalize(e) ==
  /\ eval[e] = "finalize"
  /\ stamp' = [stamp EXCEPT ![e] = Version]
  /\ eval' = [eval EXCEPT ![e] = "done"]
  /\ UNCHANGED <<snapshot, consulted, overtaken, engineVars, reloadVars, publishVars>>

Reload == Fetch \/ Check \/ ReloadSwap

Publish(p) == PublishBundle(p) \/ PublishRow(p) \/ PublishRowFails(p) \/ PublishSwap(p)

Evaluate(e) == Begin(e) \/ Query(e) \/ Finalize(e)

Next ==
  \/ \E s \in Sources : Serve(s)
  \/ Reload
  \/ \E p \in Publishes : Publish(p)
  \/ \E e \in Evaluations : Evaluate(e)

\* The ticker keeps firing and a fetch succeeds in the end.
Fairness == WF_vars(Reload)

Spec == Init /\ [][Next]_vars /\ Fairness

-----------------------------------------------------------------------------
TypeOK ==
  /\ bundle \in Bundles
  /\ active \in {b \in Bundles : b.source \in Compiles} \cup {NoPolicy}
  /\ served \in Sources
  /\ changes \in 0 .. MaxServed
  /\ reload \in {"tick", "fetched", "swap"}
  /\ staged \in Bundles \cup {NoPolicy}
  /\ publish \in [Publishes -> {"idle", "db", "swap", "done", "failed"}]
  /\ draft \in [Publishes -> [bundle : Bundles \cup {NoPolicy}, activate : BOOLEAN]]
  /\ eval \in [Evaluations -> {"idle", "allow", "manual_review", "deny", "risk_score",
                               "finalize", "done"}]
  /\ snapshot \in [Evaluations -> Bundles \cup {NoPolicy}]
  /\ consulted \in [Evaluations -> SUBSET (Bundles \cup {NoPolicy})]
  /\ stamp \in [Evaluations -> Hashes \cup {NoPolicy.hash}]
  /\ overtaken \in [Evaluations -> BOOLEAN]

\* The four queries of one evaluation run against one bundle, whatever is swapped
\* in between: "In-flight Evaluate calls continue against the previous bundle".
\* Mixed answers could let an allow of one policy meet a deny of another.
OneBundlePerEvaluation ==
  \A e \in Evaluations : \A b, c \in consulted[e] : b = c

\* Once a policy has compiled the engine never again answers engine_error for
\* want of one: Swap keeps the previous compiler when the new source is bad.
StaysAvailable == [][active # NoPolicy => active' # NoPolicy]_vars

\* The bundle the engine names is not the one it runs only if it was read from
\* disk or published: the reloader validates, and however its check, the publish
\* requests and the swaps interleave, what it swaps in is what runs.
DriftOnlyUnvalidated == bundle # active => bundle.hash[1] = "bundle"

\* When the bundle service settles on a source that compiles, the engine ends up
\* naming and running it, whatever was published meanwhile: an activated publish
\* lasts until the next tick of the reloader.
Converges ==
  <>[](served \in Compiles => bundle = Fetched(served) /\ active = bundle)

\* A decision carries another version than that of the policy that made it only
\* if a swap came while it was made, or if the engine already named a bundle
\* that does not compile: finalize asks for the version after Evaluate is done.
StampedUnlessOvertaken ==
  \A e \in Evaluations :
    eval[e] = "done" /\ ~overtaken[e] /\ stamp[e] # snapshot[e].hash =>
      \E b \in Bundles : b.hash = stamp[e] /\ b.source \notin Compiles
=============================================================================
