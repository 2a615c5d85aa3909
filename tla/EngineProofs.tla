----------------------------- MODULE EngineProofs -----------------------------
(***************************************************************************)
(* Proofs about Engine, for any sources, any number of publish requests,   *)
(* evaluations and reloads.                                                *)
(*                                                                         *)
(* IInv adds to the properties what the writers carry to their swap        *)
(* (Writers), that a bundle that is named and not run does not compile     *)
(* (Drift), and what a running evaluation still has in common with the     *)
(* engine (Snapshots).                                                     *)
(***************************************************************************)
EXTENDS Engine, TLAPS

Writers ==
  /\ reload = "fetched" => staged \in Bundles
  /\ reload = "swap" => staged \in Bundles /\ staged.source \in Compiles
  /\ \A p \in Publishes : publish[p] \in {"db", "swap"} =>
       draft[p].bundle \in Bundles /\ draft[p].bundle.hash[1] = "bundle"

Drift == bundle # active => bundle.source \notin Compiles

Snapshots ==
  \A e \in Evaluations :
    /\ consulted[e] \subseteq {snapshot[e]}
    /\ eval[e] = "idle" => consulted[e] = {}
    /\ eval[e] \notin {"idle", "done"} /\ ~overtaken[e] => snapshot[e] = active

IInv == TypeOK /\ Writers /\ Drift /\ DriftOnlyUnvalidated /\ Snapshots /\ StampedUnlessOvertaken

-----------------------------------------------------------------------------
\* What the engine may hold.
LEMMA LoadedFacts ==
  ASSUME NEW s \in Sources, NEW d \in Data
  PROVE  /\ Loaded(s, d) \in Bundles /\ Loaded(s, d).source = s /\ Loaded(s, d).data = d
         /\ Loaded(s, d).hash[1] = "bundle"
  BY DEF Bundles, Loaded, HashBundle

\* What a reload fetches is a bundle without data, its hash that of the body.
LEMMA FetchedFacts ==
  ASSUME NEW s \in Sources
  PROVE  /\ Fetched(s) \in Bundles /\ Fetched(s).source = s /\ Fetched(s).data = "none"
         /\ Fetched(s).hash[1] = "body"
  BY DEF Bundles, Fetched, BodyHash

\* The parts of a bundle.
LEMMA BundleFacts ==
  ASSUME NEW b \in Bundles
  PROVE  b.source \in Sources /\ b.data \in Data /\ b.hash \in Hashes /\ b # NoPolicy
<1>1. b.hash \in Hashes
  BY DEF Hashes
<1>2. NoPolicy.hash[1] = "nil"
  BY DEF NoPolicy
<1>3. CASE \E s \in Sources, d \in Data : b = Loaded(s, d)
  BY <1>1, <1>2, <1>3, LoadedFacts
<1>4. CASE \E s \in Sources : b = Fetched(s)
  BY <1>1, <1>2, <1>4, FetchedFacts DEF Data
<1> QED
  BY <1>3, <1>4 DEF Bundles

\* A swap keeps the engine consistent.
LEMMA SwapInv ==
  ASSUME IInv, NEW b \in Bundles, Swap(b), b.source \in Compiles \/ b.hash[1] = "bundle"
  PROVE  /\ bundle' \in Bundles
         /\ active' \in {c \in Bundles : c.source \in Compiles} \cup {NoPolicy}
         /\ overtaken' \in [Evaluations -> BOOLEAN]
         /\ Drift' /\ DriftOnlyUnvalidated'
         /\ active # NoPolicy => active' # NoPolicy
<1>1. bundle' = b /\ active' = IF b.source \in Compiles THEN b ELSE active
  BY DEF Swap, Rebuilt
<1>2. overtaken' \in [Evaluations -> BOOLEAN]
  BY DEF Swap, IInv, TypeOK
<1> QED
  BY <1>1, <1>2, BundleFacts DEF IInv, TypeOK, Drift, DriftOnlyUnvalidated

\* Evaluations that run are overtaken by a swap, the others do not care.
LEMMA SwapSnapshots ==
  ASSUME IInv, NEW b, Swap(b), UNCHANGED callVars
  PROVE  Snapshots' /\ StampedUnlessOvertaken'
<1>1. eval' = eval /\ snapshot' = snapshot /\ consulted' = consulted /\ stamp' = stamp
  BY DEF callVars
<1>2. \A e \in Evaluations : overtaken'[e] = (overtaken[e] \/ eval[e] \notin {"idle", "done"})
  BY DEF Swap
<1>3. \A e \in Evaluations : overtaken[e] \in BOOLEAN
  BY DEF IInv, TypeOK
<1>4. Snapshots'
  BY <1>1, <1>2, <1>3 DEF IInv, Snapshots
<1>5. StampedUnlessOvertaken'
  BY <1>1, <1>2, <1>3 DEF IInv, StampedUnlessOvertaken
<1> QED
  BY <1>4, <1>5

\* The reloader.
LEMMA ReloadInv ==
  ASSUME IInv, Reload
  PROVE  IInv' /\ (active # NoPolicy => active' # NoPolicy)
<1>1. CASE Fetch
  <2>1. staged' \in Bundles /\ reload' = "fetched"
    BY <1>1, FetchedFacts DEF Fetch, IInv, TypeOK
  <2>2. UNCHANGED <<served, changes, engineVars, publishVars, evalVars>>
    BY <1>1 DEF Fetch
  <2> QED
    BY <2>1, <2>2 DEF IInv, TypeOK, Writers, Drift, DriftOnlyUnvalidated, Snapshots,
                      StampedUnlessOvertaken, engineVars, publishVars, evalVars, callVars
<1>2. CASE Check
  <2>1. \/ reload' = "swap" /\ staged' = staged /\ staged \in Bundles /\ staged.source \in Compiles
        \/ reload' = "tick" /\ staged' = NoPolicy
    BY <1>2 DEF Check, IInv, Writers, Validated
  <2>2. UNCHANGED <<served, changes, engineVars, publishVars, evalVars>>
    BY <1>2 DEF Check
  <2> QED
    BY <2>1, <2>2 DEF IInv, TypeOK, Writers, Drift, DriftOnlyUnvalidated, Snapshots,
                      StampedUnlessOvertaken, engineVars, publishVars, evalVars, callVars
<1>3. CASE ReloadSwap
  <2>1. staged \in Bundles /\ staged.source \in Compiles /\ Swap(staged)
    BY <1>3 DEF ReloadSwap, IInv, Writers
  <2>2. UNCHANGED <<served, changes, publishVars, callVars>> /\ reload' = "tick" /\ staged' = NoPolicy
    BY <1>3 DEF ReloadSwap
  <2>3. /\ bundle' \in Bundles
        /\ active' \in {c \in Bundles : c.source \in Compiles} \cup {NoPolicy}
        /\ overtaken' \in [Evaluations -> BOOLEAN]
        /\ Drift' /\ DriftOnlyUnvalidated'
        /\ active # NoPolicy => active' # NoPolicy
    BY <2>1, SwapInv
  <2>4. Snapshots' /\ StampedUnlessOvertaken'
    BY <2>1, <2>2, SwapSnapshots
  <2>5. TypeOK' /\ Writers'
    BY <2>2, <2>3 DEF IInv, TypeOK, Writers, publishVars, callVars
  <2> QED
    BY <2>3, <2>4, <2>5 DEF IInv
<1> QED
  BY <1>1, <1>2, <1>3 DEF Reload

\* A publish request: what it built from the data of the engine's bundle is what
\* it swaps in.
LEMMA PublishInv ==
  ASSUME IInv, NEW p \in Publishes, Publish(p)
  PROVE  IInv' /\ (active # NoPolicy => active' # NoPolicy)
<1>1. CASE PublishBundle(p)
  <2>1. PICK s \in Sources, a \in BOOLEAN :
          draft' = [draft EXCEPT ![p] = [bundle |-> Loaded(s, bundle.data), activate |-> a]]
    BY <1>1 DEF PublishBundle
  <2>2. bundle.data \in Data
    BY BundleFacts DEF IInv, TypeOK
  <2>3. Loaded(s, bundle.data) \in Bundles /\ Loaded(s, bundle.data).hash[1] = "bundle"
    BY <2>2, LoadedFacts
  <2>4. UNCHANGED <<engineVars, reloadVars, evalVars>> /\ publish' = [publish EXCEPT ![p] = "db"]
    BY <1>1 DEF PublishBundle
  <2> DEFINE l == Loaded(s, bundle.data)
  <2>5. l \in Bundles /\ l.hash[1] = "bundle" /\ draft' = [draft EXCEPT ![p] = [bundle |-> l, activate |-> a]]
    BY <2>1, <2>3
  <2> HIDE DEF l
  <2>6. draft' \in [Publishes -> [bundle : Bundles \cup {NoPolicy}, activate : BOOLEAN]]
    BY <2>5 DEF IInv, TypeOK
  <2>7. \A q \in Publishes : draft'[q].bundle = IF q = p THEN l ELSE draft[q].bundle
    BY <2>5 DEF IInv, TypeOK
  <2>8. Writers'
    BY <2>4, <2>5, <2>7 DEF IInv, TypeOK, Writers, reloadVars
  <2>9. TypeOK'
    BY <2>4, <2>6 DEF IInv, TypeOK, engineVars, reloadVars, evalVars, callVars
  <2> QED
    BY <2>4, <2>8, <2>9 DEF IInv, Drift, DriftOnlyUnvalidated, Snapshots,
                       StampedUnlessOvertaken, engineVars, evalVars, callVars
<1>2. CASE PublishRow(p) \/ PublishRowFails(p)
  <2>1. UNCHANGED <<draft, engineVars, reloadVars, evalVars>>
    BY <1>2 DEF PublishRow, PublishRowFails
  <2>2. /\ publish[p] = "db"
        /\ \E q \in {"swap", "done", "failed"} : publish' = [publish EXCEPT ![p] = q]
    BY <1>2 DEF PublishRow, PublishRowFails
  <2>3. Writers'
    BY <2>1, <2>2 DEF IInv, TypeOK, Writers, reloadVars
  <2>4. TypeOK'
    BY <2>1, <2>2 DEF IInv, TypeOK, engineVars, reloadVars, evalVars, callVars
  <2> QED
    BY <2>1, <2>3, <2>4 DEF IInv, Drift, DriftOnlyUnvalidated, Snapshots,
                      StampedUnlessOvertaken, engineVars, evalVars, callVars
<1>3. CASE PublishSwap(p)
  <2>1. /\ draft[p].bundle \in Bundles /\ draft[p].bundle.hash[1] = "bundle"
        /\ Swap(draft[p].bundle)
    BY <1>3 DEF PublishSwap, IInv, Writers
  <2>2. UNCHANGED <<draft, reloadVars, callVars>> /\ publish' = [publish EXCEPT ![p] = "done"]
    BY <1>3 DEF PublishSwap
  <2>3. /\ bundle' \in Bundles
        /\ active' \in {c \in Bundles : c.source \in Compiles} \cup {NoPolicy}
        /\ overtaken' \in [Evaluations -> BOOLEAN]
        /\ Drift' /\ DriftOnlyUnvalidated'
        /\ active # NoPolicy => active' # NoPolicy
    BY <2>1, SwapInv
  <2>4. Snapshots' /\ StampedUnlessOvertaken'
    BY <2>1, <2>2, SwapSnapshots
  <2>5. TypeOK' /\ Writers'
    BY <2>2, <2>3 DEF IInv, TypeOK, Writers, reloadVars, callVars
  <2> QED
    BY <2>3, <2>4, <2>5 DEF IInv
<1> QED
  BY <1>1, <1>2, <1>3 DEF Publish

\* An evaluation: one snapshot for its queries, and the version asked for at the end.
LEMMA EvaluateInv ==
  ASSUME IInv, NEW e \in Evaluations, Evaluate(e)
  PROVE  IInv' /\ active' = active
<1>0. /\ UNCHANGED <<engineVars, reloadVars, publishVars, overtaken>>
      /\ active \in Bundles \cup {NoPolicy} /\ bundle \in Bundles
      /\ \A b \in Bundles : b.hash \in Hashes
  BY BundleFacts DEF Evaluate, Begin, Query, Finalize, IInv, TypeOK
<1>1. Writers' /\ Drift' /\ DriftOnlyUnvalidated'
  BY <1>0 DEF IInv, Writers, Drift, DriftOnlyUnvalidated, engineVars, reloadVars, publishVars
<1>2. /\ eval' \in [Evaluations -> {"idle", "allow", "manual_review", "deny", "risk_score",
                                    "finalize", "done"}]
      /\ snapshot' \in [Evaluations -> Bundles \cup {NoPolicy}]
      /\ consulted' \in [Evaluations -> SUBSET (Bundles \cup {NoPolicy})]
      /\ stamp' \in [Evaluations -> Hashes \cup {NoPolicy.hash}]
  <2>1. CASE Begin(e)
    BY <1>0, <2>1 DEF Begin, IInv, TypeOK
  <2>2. CASE Query(e)
    BY <2>2 DEF Query, Policy, IInv, TypeOK
  <2>3. CASE Finalize(e)
    BY <1>0, <2>3 DEF Finalize, Version, IInv, TypeOK
  <2> QED
    BY <2>1, <2>2, <2>3 DEF Evaluate
<1>3. TypeOK'
  BY <1>0, <1>2 DEF IInv, TypeOK, engineVars, reloadVars, publishVars
<1>4. Snapshots'
  <2>1. CASE Begin(e)
    BY <1>0, <2>1 DEF Begin, IInv, TypeOK, Snapshots, engineVars
  <2>2. CASE Query(e)
    BY <1>0, <2>2 DEF Query, Policy, IInv, TypeOK, Snapshots, engineVars
  <2>3. CASE Finalize(e)
    BY <1>0, <2>3 DEF Finalize, IInv, TypeOK, Snapshots, engineVars
  <2> QED
    BY <2>1, <2>2, <2>3 DEF Evaluate
<1>5. StampedUnlessOvertaken'
  <2>1. CASE Begin(e) \/ Query(e)
    <3>1. \A f \in Evaluations : eval'[f] = "done" =>
            eval[f] = "done" /\ stamp'[f] = stamp[f] /\ snapshot'[f] = snapshot[f] /\ overtaken'[f] = overtaken[f]
      BY <2>1 DEF Begin, Query, IInv, TypeOK
    <3> QED
      BY <3>1 DEF IInv, StampedUnlessOvertaken
  <2>2. CASE Finalize(e)
    <3>1. /\ snapshot' = snapshot /\ overtaken' = overtaken /\ stamp'[e] = bundle.hash
          /\ ~overtaken[e] => snapshot[e] = active
          /\ \A f \in Evaluations \ {e} : eval'[f] = eval[f] /\ stamp'[f] = stamp[f]
      BY <2>2 DEF Finalize, Version, IInv, TypeOK, Snapshots
    <3>2. ~overtaken[e] /\ bundle.hash # snapshot[e].hash =>
            bundle \in Bundles /\ bundle.source \notin Compiles
      BY <1>0, <3>1 DEF IInv, Drift
    <3> QED
      BY <3>1, <3>2 DEF IInv, StampedUnlessOvertaken
  <2> QED
    BY <2>1, <2>2 DEF Evaluate
<1> QED
  BY <1>0, <1>1, <1>3, <1>4, <1>5 DEF IInv, engineVars

\* The bundle loaded at boot satisfies IInv.
LEMMA InitIInv == Init => IInv
<1> SUFFICES ASSUME Init PROVE IInv
  OBVIOUS
<1>1. PICK s \in Sources :
        /\ bundle = Loaded(s, "caps")
        /\ active = IF s \in Compiles THEN Loaded(s, "caps") ELSE NoPolicy
  BY DEF Init
<1>2. Loaded(s, "caps") \in Bundles /\ Loaded(s, "caps").source = s /\ Loaded(s, "caps").hash[1] = "bundle"
  BY LoadedFacts DEF Data
<1>3. TypeOK
  <2>1. bundle \in Bundles /\ active \in {b \in Bundles : b.source \in Compiles} \cup {NoPolicy}
    BY <1>1, <1>2
  <2>2. overtaken \in [Evaluations -> BOOLEAN]
    BY Zenon DEF Init
  <2>3. draft \in [Publishes -> [bundle : Bundles \cup {NoPolicy}, activate : BOOLEAN]]
    BY DEF Init
  <2> QED
    BY <2>1, <2>2, <2>3, EngineAssumption DEF Init, TypeOK
<1>4. Drift /\ DriftOnlyUnvalidated
  BY <1>1, <1>2 DEF Drift, DriftOnlyUnvalidated
<1>5. Writers /\ Snapshots /\ StampedUnlessOvertaken
  BY DEF Init, Writers, Snapshots, StampedUnlessOvertaken
<1> QED
  BY <1>3, <1>4, <1>5 DEF IInv

\* Every step keeps the invariant and the policy of an engine that has one.
LEMMA NextIInv == IInv /\ [Next]_vars => IInv' /\ (active # NoPolicy => active' # NoPolicy)
<1> SUFFICES ASSUME IInv, [Next]_vars
             PROVE  IInv' /\ (active # NoPolicy => active' # NoPolicy)
  OBVIOUS
<1>1. CASE (\E s \in Sources : Serve(s)) \/ UNCHANGED vars
  <2>1. UNCHANGED <<reload, staged, engineVars, publishVars, evalVars>>
    BY <1>1 DEF Serve, vars, engineVars, publishVars, evalVars, callVars
  <2>2. served' \in Sources /\ changes' \in 0 .. MaxServed
    BY <1>1, EngineAssumption DEF Serve, vars, IInv, TypeOK
  <2> QED
    BY <2>1, <2>2 DEF IInv, TypeOK, Writers, Drift, DriftOnlyUnvalidated, Snapshots,
                      StampedUnlessOvertaken, engineVars, publishVars, evalVars, callVars
<1>2. CASE Reload
  BY <1>2, ReloadInv
<1>3. CASE \E p \in Publishes : Publish(p)
  BY <1>3, PublishInv
<1>4. CASE \E e \in Evaluations : Evaluate(e)
  BY <1>4, EvaluateInv
<1> QED
  BY <1>1, <1>2, <1>3, <1>4 DEF Next

\* IInv holds throughout.
LEMMA Invariance == Spec => []IInv
  BY InitIInv, NextIInv, PTL DEF Spec

-----------------------------------------------------------------------------
\* Type correctness of the engine and of its readers and writers.
THEOREM Typing == Spec => []TypeOK
  BY Invariance, PTL DEF IInv

\* The queries of one OPAEngine.Evaluate never mix two bundles.
THEOREM OneBundle == Spec => []OneBundlePerEvaluation
<1>1. IInv => OneBundlePerEvaluation
  BY DEF IInv, Snapshots, OneBundlePerEvaluation
<1> QED
  BY <1>1, Invariance, PTL

\* Only what was read from disk or published unvalidated can be named without
\* being run: the reloader's validation holds until its swap.
THEOREM NoReloadDrift == Spec => []DriftOnlyUnvalidated
  BY Invariance, PTL DEF IInv

\* The version on a decision is that of its policy, unless a swap came meanwhile
\* or the engine named a bundle that does not compile.
THEOREM Stamped == Spec => []StampedUnlessOvertaken
  BY Invariance, PTL DEF IInv

\* Swap never takes the compiled policy away.
THEOREM Available == Spec => StaysAvailable
<1>1. IInv /\ [Next]_vars => [active # NoPolicy => active' # NoPolicy]_vars
  BY NextIInv
<1> QED
  BY <1>1, Invariance, PTL DEF Spec, StaysAvailable
=============================================================================
