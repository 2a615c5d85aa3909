---------------------------- MODULE EvaluateProofs ----------------------------
(***************************************************************************)
(* Proofs about Evaluate, for any finite number of requests, any inputs,   *)
(* any limits and with JWT auth on or off.                                 *)
(*                                                                         *)
(* IInv adds to the type invariant and the metrics what is true of each    *)
(* request at each point of its way (OnItsWay): what has been checked,     *)
(* when it is decided, and when its rows are there.                        *)
(***************************************************************************)
EXTENDS Evaluate, FiniteSetTheorems, TLAPS

Early == {"idle", "unauthorized", "rejected", "whitelist", "velocity", "rollback", "policy"}
Late  == {"finalize", "emit", "park", "return", "fail", "done", "error"}

\* The caps have nothing against the amount.
WithinCap(i) == ByCap(i) = ""

\* What an allow rests on, besides the whitelist.
Cleared(i) ==
  /\ i \in Inputs
  /\ SourceAuth(i)
  /\ WithinCap(i)
  /\ i.kyt_verdict = "clean" /\ i.kyc_status = "verified" /\ i.fraud_score < 50
  /\ AmountUSD(i) <= CapsYAML.tx

OnItsWay(r) ==
  /\ pc[r] # "idle" => in[r] \in Inputs
  /\ pc[r] \in Early => out[r] = Unset
  /\ pc[r] \in Late => out[r] \in Outcomes
  /\ pc[r] \in {"whitelist", "velocity", "rollback", "policy"} => SourceAuth(in[r])
  /\ pc[r] \in {"velocity", "rollback", "policy"} => IsWhitelisted(in[r].address)
  /\ out[r] = "allow" => Cleared(in[r]) /\ IsWhitelisted(in[r].address)
  /\ r \in decisions => out[r] \in Outcomes /\ pc[r] \in {"park", "return", "fail", "done", "error", "crashed"}
  /\ pc[r] \in {"park", "return", "done"} => r \in decisions
  /\ pc[r] = "park" => out[r] = "manual_review"
  /\ r \in reviews \cup parkErrors => pc[r] \in {"return", "done", "crashed"}
  /\ pc[r] \in {"return", "done"} /\ out[r] = "manual_review" => r \in reviews \cup parkErrors

AllOnTheirWay == \A r \in Requests : OnItsWay(r)

IInv == TypeOK /\ MetricsAgree /\ AllOnTheirWay

\* The caps decide nothing, deny or manual_review.
LEMMA ByCapType == \A i : ByCap(i) \in {"", "deny", "manual_review"}
<1> DEFINE cap(i) == EffectiveCap(MatchRule(Tier(i), i.rail, i.asset, "tx"), "tx")
<1> QED
  BY DEF ByCap, EvaluateCap

\* A decision is allow, review or deny, with any metadata.
LEMMA DecideType == \A a, m, d : Decide(a, m, d) \in Outcomes
  BY DEF Decide, Outcomes

\* So is that of Evaluate, whichever rules decide it.
LEMMA DecisionType == \A i : Decision(i) \in Outcomes
<1>1. \A i : EngineDecision(EngineInput(i), policy) \in Outcomes
  BY DecideType DEF EngineDecision
<1> QED
  BY <1>1, ByCapType DEF Decision, Outcomes

\* The amount in USD is a whole number, converted or not.
LEMMA AmountType == ASSUME NEW i \in Request PROVE AmountUSD(i) \in Int
  BY DEF Request, AmountUSD, FXToUSD

\* The rule that caps a transaction of the first tier.
LEMMA FirstTierRule ==
  \A rail, asset : MatchRule("tier_1", rail, asset, "tx") = Rules[2]
<1> TAKE rail, asset
<1>1. DOMAIN Rules = 1..9
  BY DEF Rules
<1> DEFINE T(r) == r.Tier = "tier_1" /\ r.Window = "tx" /\ r.Rail = "" /\ r.Asset = ""
<1> DEFINE d == Rule("cap.daily.tier_1", "tier_1", "", "1d", 2500, "deny")
<1> DEFINE x == Rule("cap.tx.tier_1", "tier_1", "", "tx", 1000, "deny")
<1>2. Rules[1] = d /\ Rules[2] = x
  BY DEF Rules
<1>3. d.Window = "1d"
  BY DEF Rule
<1>4. x.Tier = "tier_1" /\ x.Window = "tx" /\ x.Rail = "" /\ x.Asset = ""
  BY DEF Rule
<1>5. NoRule.Tier = ""
  BY DEF Rule, NoRule
<1> HIDE DEF d, x
<1>7. ~T(Rules[1])
  BY <1>2, <1>3
<1>8. T(Rules[2]) /\ Rules[2] # NoRule
  BY <1>2, <1>4, <1>5
<1> HIDE DEF T
<1>6. FirstRule(T) = Rules[2]
  <2> DEFINE hits == {i \in DOMAIN Rules : T(Rules[i])}
  <2>1. hits \subseteq 1..9 /\ 2 \in hits /\ 1 \notin hits
    BY <1>1, <1>7, <1>8
  <2>2. (CHOOSE i \in hits : \A k \in hits : i <= k) = 2
    <3>1. \A k \in hits : 2 <= k
      BY <2>1
    <3>2. \A i \in hits : (\A k \in hits : i <= k) => i = 2
      BY <2>1, <3>1
    <3> HIDE DEF hits
    <3> QED
      BY <2>1, <3>1, <3>2
  <2> QED
    BY <2>1, <2>2 DEF FirstRule
<1> QED
  BY <1>8, <1>6 DEF MatchRule, T

-----------------------------------------------------------------------------
\* An allow rests on what the caps and the engine have looked at.
LEMMA AllowDecision ==
  ASSUME NEW i \in Inputs, policy \in Policies, SourceAuth(i),
         Decision(i) = "allow"
  PROVE  Cleared(i)
<1>1. ByCap(i) = ""
  BY ByCapType DEF Decision
<1>2. EngineDecision(EngineInput(i), policy) = "allow"
  BY <1>1 DEF Decision
<1>3. Allow(EngineInput(i), policy)
  BY <1>2 DEF EngineDecision, Decide
<1>4. i.kyt_verdict = "clean" /\ i.kyc_status = "verified" /\ i.fraud_score < 50
  BY <1>3 DEF Allow, EngineInput
<1>5. AmountUSD(i) <= CapsYAML.tx
  <2>1. policy = CapsYAML
    BY <1>3 DEF Allow, Policies, NoData
  <2>2. AmountUSD(i) <= policy.tx
    BY <1>3 DEF Allow, EngineInput
  <2> QED
    BY <2>1, <2>2
<1> QED
  BY <1>1, <1>4, <1>5, Zenon DEF Cleared, WithinCap

\* Verified addresses stay verified.
Growing == \A a \in Addresses : whitelist[a] = "VERIFIED" => whitelist'[a] = "VERIFIED"

\* The request r has neither moved nor got or lost a row.
Still(r) ==
  /\ pc'[r] = pc[r] /\ in'[r] = in[r] /\ out'[r] = out[r]
  /\ r \in decisions' <=> r \in decisions
  /\ r \in reviews' <=> r \in reviews
  /\ r \in parkErrors' <=> r \in parkErrors

\* A rollback leaves a counter a counter.
LEMMA RolledBackType == \A n \in Nat : RolledBack(n) \in Nat
  BY DEF RolledBack

\* A request names an address the whitelist knows.
LEMMA KnownAddress == ASSUME NEW i \in Inputs PROVE i.address \in Addresses
  BY EvaluateAssumption DEF Request

\* What has been established for a request stays so.
LEMMA Kept ==
  ASSUME NEW r \in Requests, Growing, in'[r] = in[r]
  PROVE  /\ Cleared(in[r]) => in[r] \in Inputs /\ Cleared(in[r])'
         /\ SourceAuth(in[r]) => SourceAuth(in[r])'
         /\ IsWhitelisted(in[r].address) /\ in[r] \in Inputs => IsWhitelisted(in[r].address)'
<1>1. IsWhitelisted(in[r].address) /\ in[r] \in Inputs => IsWhitelisted(in[r].address)'
  BY KnownAddress DEF Growing, IsWhitelisted
<1>2. Cleared(in[r]) => in[r] \in Inputs /\ Cleared(in[r])'
  BY Zenon DEF Cleared
<1>3. SourceAuth(in[r]) => SourceAuth(in[r])'
  BY Zenon
<1> QED
  BY <1>1, <1>2, <1>3

\* A request keeps what is known of it through the steps of the others.
LEMMA Frame ==
  ASSUME NEW r \in Requests, Growing, Still(r), OnItsWay(r)
  PROVE  OnItsWay(r)'
  BY Kept DEF OnItsWay, Still, Early, Late

\* A step of one request leaves the others where they are.
LEMMA OthersStill ==
  ASSUME TypeOK, NEW r \in Requests, Step(r)
  PROVE  Growing /\ \A o \in Requests \ {r} : Still(o)
<1> USE DEF Growing, Still, shared, TypeOK
<1>1. CASE Receive(r)
  BY <1>1 DEF Receive
<1>2. CASE CheckWhitelist(r) \/ WhitelistFails(r)
  BY <1>2 DEF CheckWhitelist, WhitelistFails
<1>3. CASE Velocity(r) \/ Rollback(r)
  BY <1>3 DEF Velocity, Rollback
<1>4. CASE CheckPolicy(r) \/ EngineError(r)
  BY <1>4 DEF CheckPolicy, EngineError
<1>5. CASE Finalize(r) \/ Emit(r) \/ EmitFails(r)
  BY <1>5 DEF Finalize, Emit, EmitFails, Persisted
<1>6. CASE Park(r) \/ ParkFails(r) \/ Return(r)
  BY <1>6 DEF Park, ParkFails, Return, Parked
<1> QED
  BY <1>1, <1>2, <1>3, <1>4, <1>5, <1>6 DEF Step

\* Each step of a request keeps what is known of every request.
LEMMA StepOnItsWay ==
  ASSUME TypeOK, AllOnTheirWay, NEW r \in Requests, Step(r)
  PROVE  AllOnTheirWay'
<1>0. \A o \in Requests \ {r} : OnItsWay(o)'
  BY OthersStill, Frame DEF AllOnTheirWay
<1>w. OnItsWay(r)
  BY DEF AllOnTheirWay
<1>k. in'[r] = in[r] =>
        /\ Cleared(in[r]) => in[r] \in Inputs /\ Cleared(in[r])'
        /\ SourceAuth(in[r]) => SourceAuth(in[r])'
        /\ IsWhitelisted(in[r].address) /\ in[r] \in Inputs => IsWhitelisted(in[r].address)'
  BY OthersStill, Kept
<1>s. OnItsWay(r)'
  <2> USE DEF shared, TypeOK, Early, Late
  <2>1. CASE Receive(r)
    <3>1. PICK i \in Inputs :
            /\ in'[r] = i
            /\ pc'[r] \in {"unauthorized", "rejected", "finalize", "whitelist"}
            /\ pc'[r] = "whitelist" => SourceAuth(i)
            /\ out'[r] = IF pc'[r] = "finalize" THEN "deny" ELSE out[r]
      BY <2>1 DEF Receive
    <3> QED
      BY <2>1, <3>1, <1>w DEF Receive, OnItsWay, Outcomes, Unset
  <2>2. CASE CheckWhitelist(r)
    BY <2>2, <1>w, <1>k DEF CheckWhitelist, OnItsWay, Outcomes, Unset
  <2>3. CASE WhitelistFails(r)
    BY <2>3, <1>w, <1>k DEF WhitelistFails, OnItsWay, Outcomes, Unset
  <2>4. CASE Velocity(r)
    BY <2>4, <1>w, <1>k DEF Velocity, OnItsWay, Outcomes, Unset
  <2>5. CASE Rollback(r)
    BY <2>5, <1>w, <1>k DEF Rollback, OnItsWay, Outcomes, Unset
  <2>6. CASE CheckPolicy(r)
    BY <2>6, <1>w, <1>k, DecisionType, AllowDecision DEF CheckPolicy, OnItsWay, Outcomes, Unset
  <2>7. CASE EngineError(r)
    BY <2>7, <1>w, <1>k DEF EngineError, OnItsWay, Outcomes, Unset
  <2>8. CASE Finalize(r)
    BY <2>8, <1>w, <1>k DEF Finalize, OnItsWay, Outcomes, Unset
  <2>9. CASE Emit(r)
    BY <2>9, <1>w, <1>k DEF Emit, OnItsWay, Outcomes, Unset, Persisted
  <2>10. CASE EmitFails(r)
    BY <2>10, <1>w, <1>k DEF EmitFails, OnItsWay, Outcomes, Unset
  <2>11. CASE Park(r)
    BY <2>11, <1>w, <1>k DEF Park, OnItsWay, Outcomes, Unset, Parked
  <2>12. CASE ParkFails(r)
    BY <2>12, <1>w, <1>k DEF ParkFails, OnItsWay, Outcomes, Unset
  <2>13. CASE Return(r)
    BY <2>13, <1>w, <1>k DEF Return, OnItsWay, Outcomes, Unset
  <2> QED
    BY <2>1, <2>2, <2>3, <2>4, <2>5, <2>6, <2>7, <2>8, <2>9, <2>10, <2>11, <2>12, <2>13 DEF Step
<1> QED
  BY <1>0, <1>s DEF AllOnTheirWay

-----------------------------------------------------------------------------
\* Sets of requests are finite; adding and removing one changes their size by one.
LEMMA Sizes ==
  ASSUME NEW S, S \subseteq Requests
  PROVE  /\ Cardinality(S) \in Nat
         /\ \A r \in Requests \ S : Cardinality(S \cup {r}) = Cardinality(S) + 1
         /\ \A r \in S : Cardinality(S \ {r}) = Cardinality(S) - 1
<1>1. IsFiniteSet(S) /\ Cardinality(S) \in Nat
  BY EvaluateAssumption, FS_Subset, FS_CardinalityType
<1> QED
  BY <1>1, FS_AddElement, FS_RemoveElement

CountBound == \A a \in Addresses : count[a] <= VelocityCap + Cardinality(RollingBack(a))

\* No step takes a counter past the cap but for increments about to be rolled back.
LEMMA StepCountBound ==
  ASSUME TypeOK, AllOnTheirWay, NEW r \in Requests, Step(r)
  PROVE  CountBound'
<1> SUFFICES ASSUME NEW a \in Addresses
             PROVE  count'[a] <= VelocityCap + Cardinality(RollingBack(a)')
  BY DEF CountBound
<1> DEFINE R == RollingBack(a)
<1>1. R \subseteq Requests /\ count[a] \in Nat /\ count[a] <= VelocityCap + Cardinality(R)
  BY DEF TypeOK, RollingBack
<1>2. VelocityCap \in Nat
  BY EvaluateAssumption
<1>3. Cardinality(R) \in Nat
  BY <1>1, Sizes
<1>w. OnItsWay(r)
  BY DEF AllOnTheirWay
<1>4. CASE ~Velocity(r) /\ ~Rollback(r)
  <2>1. count' = count
    BY <1>4 DEF Step, shared, Receive, CheckWhitelist, WhitelistFails, CheckPolicy, EngineError,
                Finalize, Emit, EmitFails, Park, ParkFails, Return
  <2>2. pc[r] # "rollback" /\ pc'[r] # "rollback"
    BY <1>4 DEF Step, TypeOK, Receive, CheckWhitelist, WhitelistFails, CheckPolicy, EngineError,
                Finalize, Emit, EmitFails, Park, ParkFails, Return
  <2>3. \A o \in Requests \ {r} : pc'[o] = pc[o] /\ in'[o] = in[o]
    BY OthersStill DEF Still
  <2>4. R' = R
    BY <2>2, <2>3 DEF RollingBack
  <2> QED
    BY <1>1, <2>1, <2>4
<1>5. CASE Velocity(r)
  <2>1. pc[r] = "velocity" /\ in' = in /\ in[r].address \in Addresses
    BY <1>5, <1>w, KnownAddress DEF Velocity, OnItsWay
  <2>2. \A o \in Requests \ {r} : pc'[o] = pc[o]
    BY OthersStill DEF Still
  <2>3. CASE in[r].address # a
    <3>1. count'[a] = count[a]
      BY <1>5, <2>3, <2>1 DEF Velocity, TypeOK
    <3>2. R' = R
      BY <2>1, <2>2, <2>3 DEF RollingBack
    <3> QED
      BY <1>1, <3>1, <3>2
  <2>4. CASE in[r].address = a
    <3>1. /\ count'[a] = count[a] + 1
          /\ pc'[r] = IF count'[a] > VelocityCap THEN "rollback" ELSE "policy"
      BY <1>5, <2>4 DEF Velocity, TypeOK
    <3>2. CASE count'[a] > VelocityCap
      <4>1. R' = R \cup {r} /\ r \notin R
        BY <2>1, <2>2, <2>4, <3>1, <3>2 DEF RollingBack
      <4> QED
        BY <1>1, <1>2, <1>3, <3>1, <4>1, Sizes
    <3>3. CASE ~(count'[a] > VelocityCap)
      <4>1. R' = R
        BY <2>1, <2>2, <3>1, <3>3 DEF RollingBack
      <4> QED
        BY <1>1, <1>2, <1>3, <3>1, <3>3, <4>1
    <3> QED
      BY <3>2, <3>3
  <2> QED
    BY <2>3, <2>4
<1>6. CASE Rollback(r)
  <2>1. pc[r] = "rollback" /\ pc'[r] # "rollback" /\ in' = in /\ in[r].address \in Addresses
    BY <1>6, <1>w, KnownAddress DEF Rollback, OnItsWay, TypeOK
  <2>2. \A o \in Requests \ {r} : pc'[o] = pc[o]
    BY OthersStill DEF Still
  <2>3. CASE in[r].address # a
    <3>1. count'[a] = count[a]
      BY <1>6, <2>3, <2>1 DEF Rollback, TypeOK
    <3>2. R' = R
      BY <2>1, <2>2, <2>3 DEF RollingBack
    <3> QED
      BY <1>1, <3>1, <3>2
  <2>4. CASE in[r].address = a
    <3>1. count'[a] = IF count[a] > 0 THEN count[a] - 1 ELSE 0
      BY <1>6, <2>4 DEF Rollback, TypeOK, RolledBack
    <3>2. R' = R \ {r} /\ r \in R
      BY <2>1, <2>2, <2>4 DEF RollingBack
    <3>3. Cardinality(R') = Cardinality(R) - 1 /\ Cardinality(R') \in Nat
      BY <1>1, <3>2, Sizes
    <3> QED
      BY <1>1, <1>2, <1>3, <3>1, <3>3
  <2> QED
    BY <2>3, <2>4
<1> QED
  BY <1>4, <1>5, <1>6

\* Each step of a request keeps the types.
LEMMA StepTypeOK ==
  ASSUME TypeOK, AllOnTheirWay, NEW r \in Requests, Step(r)
  PROVE  TypeOK'
<1>b. CountBound'
  BY StepCountBound
<1>w. OnItsWay(r)
  BY DEF AllOnTheirWay
<1> USE <1>b DEF TypeOK, CountBound, shared
<1>1. CASE Receive(r)
  BY <1>1 DEF Receive, Outcomes
<1>2. CASE CheckWhitelist(r) \/ WhitelistFails(r)
  BY <1>2 DEF CheckWhitelist, WhitelistFails, Outcomes
<1>3. CASE Velocity(r)
  <2>1. in[r].address \in Addresses
    BY <1>3, <1>w, KnownAddress DEF Velocity, OnItsWay
  <2>2. count' \in [Addresses -> Nat]
    BY <1>3, <2>1 DEF Velocity
  <2> QED
    BY <1>3, <2>2 DEF Velocity
<1>4. CASE Rollback(r)
  <2>1. in[r].address \in Addresses
    BY <1>4, <1>w, KnownAddress DEF Rollback, OnItsWay
  <2>2. RolledBack(count[in[r].address]) \in Nat
    <3>1. count[in[r].address] \in Nat
      BY <2>1
    <3> QED
      BY <3>1, RolledBackType, Zenon
  <2>3. count' \in [Addresses -> Nat]
    BY <1>4, <2>1, <2>2 DEF Rollback
  <2> QED
    BY <1>4, <2>3 DEF Rollback, Outcomes
<1>5. CASE CheckPolicy(r) \/ EngineError(r)
  <2>1. CASE CheckPolicy(r)
    BY <2>1, DecisionType DEF CheckPolicy, Outcomes
  <2>2. CASE EngineError(r)
    BY <2>2 DEF EngineError, Outcomes
  <2> QED
    BY <1>5, <2>1, <2>2
<1>6. CASE Finalize(r)
  <2>1. out[r] \in {"allow", "deny", "manual_review"}
    BY <1>6, <1>w DEF Finalize, OnItsWay, Late, Outcomes
  <2>2. metrics' \in [{"allow", "deny", "manual_review", "total"} -> Nat]
    BY <1>6, <2>1 DEF Finalize
  <2> QED
    BY <1>6, <2>2 DEF Finalize
<1>7. CASE Emit(r) \/ EmitFails(r)
  BY <1>7 DEF Emit, EmitFails, Persisted
<1>8. CASE Park(r) \/ ParkFails(r)
  BY <1>8 DEF Park, ParkFails, Parked
<1>9. CASE Return(r)
  BY <1>9 DEF Return, Counted
<1> QED
  BY <1>1, <1>2, <1>3, <1>4, <1>5, <1>6, <1>7, <1>8, <1>9 DEF Step

\* Evaluations in one of the decision counters and not yet in the total.
Between == {r \in Requests : pc[r] \in {"emit", "park", "return", "fail"}}

\* Each step of a request counts what it decides, once.
LEMMA StepMetrics ==
  ASSUME TypeOK, MetricsAgree, AllOnTheirWay, NEW r \in Requests, Step(r)
  PROVE  MetricsAgree'
<1>1. /\ Between \subseteq Requests
      /\ metrics.allow \in Nat /\ metrics.deny \in Nat
      /\ metrics.manual_review \in Nat /\ metrics.total \in Nat
      /\ metrics.allow + metrics.deny + metrics.manual_review = metrics.total + Cardinality(Between)
  BY DEF Between, MetricsAgree, TypeOK
<1>2. Cardinality(Between) \in Nat
  BY <1>1, Sizes
<1>3. \A o \in Requests \ {r} : pc'[o] = pc[o]
  BY OthersStill DEF Still
<1>w. OnItsWay(r)
  BY DEF AllOnTheirWay
<1>4. CASE ~Finalize(r) /\ ~Return(r)
  <2>1. metrics' = metrics
    BY <1>4 DEF Step, shared, Receive, CheckWhitelist, WhitelistFails, CheckPolicy, EngineError,
                Velocity, Rollback, Emit, EmitFails, Park, ParkFails
  <2>2. pc'[r] \in {"emit", "park", "return", "fail"} <=> pc[r] \in {"emit", "park", "return", "fail"}
    <3>1. DOMAIN pc = Requests
      BY DEF TypeOK
    <3>2. CASE Receive(r) \/ CheckWhitelist(r) \/ WhitelistFails(r) \/ Velocity(r)
      BY <3>1, <3>2 DEF Receive, CheckWhitelist, WhitelistFails, Velocity
    <3>3. CASE Rollback(r) \/ CheckPolicy(r) \/ EngineError(r)
      BY <3>1, <3>3 DEF Rollback, CheckPolicy, EngineError
    <3>4. CASE Emit(r) \/ EmitFails(r) \/ Park(r) \/ ParkFails(r)
      BY <3>1, <3>4 DEF Emit, EmitFails, Park, ParkFails
    <3> QED
      BY <1>4, <3>2, <3>3, <3>4 DEF Step
  <2>3. Between' = Between
    BY <1>3, <2>2 DEF Between
  <2> QED
    BY <1>1, <2>1, <2>3 DEF MetricsAgree, Between
<1>5. CASE Finalize(r)
  <2>1. out[r] \in {"allow", "deny", "manual_review"}
    BY <1>5, <1>w DEF Finalize, OnItsWay, Late, Outcomes
  <2>2. /\ metrics'.total = metrics.total
        /\ metrics'.allow + metrics'.deny + metrics'.manual_review =
             metrics.allow + metrics.deny + metrics.manual_review + 1
    <3>1. metrics' = [metrics EXCEPT ![out[r]] = @ + 1]
      BY <1>5 DEF Finalize
    <3>2. metrics \in [{"allow", "deny", "manual_review", "total"} -> Nat]
      BY DEF TypeOK
    <3>3. CASE out[r] = "allow"
      BY <3>1, <3>2, <3>3
    <3>4. CASE out[r] = "deny"
      BY <3>1, <3>2, <3>4
    <3>5. CASE out[r] = "manual_review"
      BY <3>1, <3>2, <3>5
    <3> QED
      BY <2>1, <3>3, <3>4, <3>5
  <2>3. Between' = Between \cup {r} /\ r \notin Between
    BY <1>3, <1>5 DEF Between, Finalize, TypeOK
  <2>4. Cardinality(Between') = Cardinality(Between) + 1
    BY <1>1, <2>3, Sizes
  <2> QED
    <3>1. metrics'.allow + metrics'.deny + metrics'.manual_review = metrics'.total + Cardinality(Between')
      BY <1>1, <1>2, <2>2, <2>4
    <3> QED
      BY <3>1 DEF MetricsAgree, Between
<1>6. CASE Return(r)
  <2>1. /\ metrics'.total = metrics.total + 1
        /\ metrics'.allow = metrics.allow /\ metrics'.deny = metrics.deny
        /\ metrics'.manual_review = metrics.manual_review
    BY <1>6 DEF Return, TypeOK, Counted
  <2>2. Between' = Between \ {r} /\ r \in Between
    BY <1>3, <1>6 DEF Between, Return, TypeOK
  <2>3. Cardinality(Between') = Cardinality(Between) - 1
    BY <1>1, <2>2, Sizes
  <2> QED
    BY <1>1, <1>2, <2>1, <2>3 DEF MetricsAgree, Between
<1> QED
  BY <1>4, <1>5, <1>6

-----------------------------------------------------------------------------
\* Whitelist administration, the velocity window and hot reload move no request.
LEMMA WorldInv ==
  ASSUME IInv, Reload \/ \E a \in Addresses : AddAddress(a) \/ Verify(a) \/ WindowEnds(a)
  PROVE  IInv'
<1>1. /\ pc' = pc /\ in' = in /\ out' = out /\ metrics' = metrics /\ crashes' = crashes
      /\ decisions' = decisions /\ reviews' = reviews /\ parkErrors' = parkErrors
  BY DEF Reload, AddAddress, Verify, WindowEnds
<1>2. /\ Growing /\ policy' \in Policies
      /\ whitelist' \in [Addresses -> {"ABSENT", "PENDING", "VERIFIED"}]
  BY DEF Reload, AddAddress, Verify, WindowEnds, Growing, IInv, TypeOK, Policies
<1>3. count' \in [Addresses -> Nat] /\ \A a \in Addresses : count'[a] <= count[a]
  BY DEF Reload, AddAddress, Verify, WindowEnds, IInv, TypeOK
<1>4. ASSUME NEW a \in Addresses
      PROVE  count'[a] <= VelocityCap + Cardinality(RollingBack(a)')
  <2>1. RollingBack(a)' = RollingBack(a) /\ RollingBack(a) \subseteq Requests
    BY <1>1 DEF RollingBack
  <2>2. Cardinality(RollingBack(a)) \in Nat /\ VelocityCap \in Nat
    BY <2>1, Sizes, EvaluateAssumption
  <2>3. count[a] \in Nat /\ count'[a] \in Nat /\ count[a] <= VelocityCap + Cardinality(RollingBack(a))
    BY <1>3 DEF IInv, TypeOK
  <2> QED
    BY <1>3, <2>1, <2>2, <2>3
<1>5. TypeOK'
  BY <1>1, <1>2, <1>3, <1>4 DEF IInv, TypeOK
<1>6. MetricsAgree'
  BY <1>1 DEF IInv, MetricsAgree
<1>7. AllOnTheirWay'
  BY <1>1, <1>2, Frame DEF IInv, AllOnTheirWay, Still
<1> QED
  BY <1>5, <1>6, <1>7 DEF IInv

\* The counters of a new process are counters.
LEMMA ZeroMetricsType ==
  ZeroMetrics \in [{"allow", "deny", "manual_review", "total"} -> Nat]
  BY DEF ZeroMetrics

\* A crash takes counters and requests with it, and leaves the rows.
LEMMA CrashInv ==
  ASSUME IInv, Crash
  PROVE  IInv'
<1>1. /\ in' = in /\ out' = out /\ whitelist' = whitelist
      /\ decisions' = decisions /\ reviews' = reviews /\ parkErrors' = parkErrors
      /\ \A a \in Addresses : count'[a] = 0
      /\ \A r \in Requests : pc'[r] = IF Running(r) THEN "crashed" ELSE pc[r]
  BY DEF Crash
<1>2. ASSUME NEW a \in Addresses
      PROVE  count'[a] <= VelocityCap + Cardinality(RollingBack(a)')
  <2>1. RollingBack(a)' \subseteq Requests
    BY DEF RollingBack
  <2>2. Cardinality(RollingBack(a)') \in Nat /\ VelocityCap \in Nat
    BY <2>1, Sizes, EvaluateAssumption
  <2> QED
    BY <1>1, <2>2
<1>3. TypeOK'
  <2>1. policy' \in Policies /\ count' \in [Addresses -> Nat]
    BY DEF Crash, Policies
  <2>3. metrics' \in [{"allow", "deny", "manual_review", "total"} -> Nat]
    BY ZeroMetricsType DEF Crash
  <2>4. crashes' \in 0 .. MaxCrashes
    <3>1. crashes \in 0 .. MaxCrashes
      BY DEF IInv, TypeOK
    <3> QED
      BY <3>1, EvaluateAssumption DEF Crash
  <2>2. pc' \in [Requests -> {"idle", "unauthorized", "rejected", "whitelist", "velocity",
                              "rollback", "policy", "finalize", "emit", "park", "return",
                              "fail", "done", "error", "crashed"}]
    BY DEF Crash, IInv, TypeOK
  <2> QED
    BY <1>1, <1>2, <2>1, <2>2, <2>3, <2>4 DEF IInv, TypeOK
<1>4. MetricsAgree'
  <2>1. Between' = {}
    BY <1>1 DEF Between, Running, IInv, TypeOK
  <2>2. Cardinality(Between') = 0
    BY <2>1, FS_EmptySet
  <2>3. metrics'.allow = 0 /\ metrics'.deny = 0 /\ metrics'.manual_review = 0 /\ metrics'.total = 0
    BY DEF Crash, ZeroMetrics
  <2> QED
    BY <2>2, <2>3 DEF MetricsAgree, Between
<1>5. ASSUME NEW r \in Requests
      PROVE  OnItsWay(r)'
  <2>0. Growing /\ OnItsWay(r)
    BY <1>1 DEF Growing, IInv, AllOnTheirWay
  <2>1. CASE Running(r)
    <3>1. pc'[r] = "crashed" /\ pc[r] # "idle"
      BY <1>1, <2>1 DEF Running
    <3>2. /\ Cleared(in[r]) => in[r] \in Inputs /\ Cleared(in[r])'
          /\ IsWhitelisted(in[r].address) /\ in[r] \in Inputs => IsWhitelisted(in[r].address)'
      BY <1>1, <2>0, Kept
    <3> QED
      BY <1>1, <2>0, <3>1, <3>2, <2>1 DEF OnItsWay, Early, Late, Running
  <2>2. CASE ~Running(r)
    BY <1>1, <2>0, <2>2, Frame DEF Still
  <2> QED
    BY <2>1, <2>2
<1> QED
  BY <1>3, <1>4, <1>5 DEF IInv, AllOnTheirWay

\* Before the first request nothing is decided or counted.
LEMMA InitIInv == Init => IInv
<1> SUFFICES ASSUME Init PROVE IInv
  OBVIOUS
<1>1. \A a \in Addresses : RollingBack(a) = {}
  BY DEF Init, RollingBack
<1>2. TypeOK
  <2>1. \A a \in Addresses : count[a] <= VelocityCap + Cardinality(RollingBack(a))
    BY <1>1, FS_EmptySet, EvaluateAssumption DEF Init
  <2> QED
    BY <2>1, ZeroMetricsType, EvaluateAssumption DEF Init, TypeOK, Policies
<1>3. MetricsAgree
  <2>1. Between = {}
    BY DEF Init, Between
  <2>2. metrics.allow = 0 /\ metrics.deny = 0 /\ metrics.manual_review = 0 /\ metrics.total = 0
    BY DEF Init, ZeroMetrics
  <2> QED
    BY <2>1, <2>2, FS_EmptySet DEF MetricsAgree, Between
<1>4. AllOnTheirWay
  BY DEF Init, AllOnTheirWay, OnItsWay, Early, Late, Unset
<1> QED
  BY <1>2, <1>3, <1>4 DEF IInv

\* Each step of Next keeps IInv.
LEMMA NextIInv == IInv /\ [Next]_vars => IInv'
<1> SUFFICES ASSUME IInv, [Next]_vars PROVE IInv'
  OBVIOUS
<1>1. CASE \E r \in Requests : Step(r)
  BY <1>1, StepTypeOK, StepMetrics, StepOnItsWay DEF IInv
<1>2. CASE Reload \/ \E a \in Addresses : AddAddress(a) \/ Verify(a) \/ WindowEnds(a)
  BY <1>2, WorldInv
<1>3. CASE Crash
  BY <1>3, CrashInv
<1>4. CASE UNCHANGED vars
  <2>1. TypeOK'
    BY <1>4 DEF vars, IInv, TypeOK, RollingBack
  <2>2. MetricsAgree'
    BY <1>4 DEF vars, IInv, MetricsAgree
  <2>3. AllOnTheirWay'
    BY <1>4, Frame DEF vars, IInv, AllOnTheirWay, Still, Growing
  <2> QED
    BY <2>1, <2>2, <2>3 DEF IInv
<1> QED
  BY <1>1, <1>2, <1>3, <1>4 DEF Next

\* IInv holds throughout.
LEMMA Invariance == Spec => []IInv
  BY InitIInv, NextIInv, PTL DEF Spec

-----------------------------------------------------------------------------
\* The cap of the first tier and the second-factor threshold, as a name that the
\* provers need not expand.
Thousand == 1000

\* The limit per transaction of the first tier's rule.
LEMMA FirstTierLimit == EffectiveCap(Rules[2], "tx") = Thousand
<1>1. Rules[2] = Rule("cap.tx.tier_1", "tier_1", "", "tx", Thousand, "deny")
  BY DEF Rules, Thousand
<1>2. ASSUME NEW x, x = Rule("cap.tx.tier_1", "tier_1", "", "tx", Thousand, "deny")
      PROVE  EffectiveCap(x, "tx") = Thousand
  <2>1. x.USDCap = Thousand
    BY <1>2 DEF Rule
  <2> QED
    BY <2>1 DEF EffectiveCap, Thousand
<1> QED
  BY <1>1, <1>2, Zenon

\* An amount that is not near that limit is below nine tenths of it.
LEMMA BelowNearCap ==
  ASSUME NEW n \in Int, ~NearCap(n, Thousand)
  PROVE  n < 900
  BY DEF NearCap, Thousand

\* Such an amount passes the cap.
LEMMA CapPasses ==
  ASSUME NEW n \in Int, NEW tier, NEW rail, NEW asset,
         EffectiveCap(MatchRule(tier, rail, asset, "tx"), "tx") = Thousand,
         EvaluateCap(tier, rail, asset, "tx", n) = ""
  PROVE  ~NearCap(n, Thousand)
  BY DEF EvaluateCap, NearCap, Thousand

\* In the first tier only amounts below nine tenths of the cap get to the engine.
LEMMA FirstTierCap ==
  ASSUME NEW i \in Inputs, Tier(i) = "tier_1", WithinCap(i)
  PROVE  AmountUSD(i) < 900
<1>1. AmountUSD(i) \in Int
  BY AmountType, EvaluateAssumption
<1>2. EffectiveCap(MatchRule("tier_1", i.rail, i.asset, "tx"), "tx") = Thousand
  BY FirstTierRule, FirstTierLimit, Zenon
<1>3. EvaluateCap("tier_1", i.rail, i.asset, "tx", AmountUSD(i)) = ""
  BY Zenon DEF WithinCap, ByCap
<1>4. ~NearCap(AmountUSD(i), Thousand)
  BY <1>1, <1>2, <1>3, CapPasses, Zenon
<1> QED
  BY <1>1, <1>4, BelowNearCap

\* Card payments from 1000 USD on need the second factor.
LEMMA HighValueCard ==
  ASSUME NEW i \in Inputs, i.rail = "card", AmountUSD(i) >= Thousand
  PROVE  Requires2FA(i)
<1>1. 9 \in DOMAIN Rules
  BY DEF Rules
<1>2. Rules[9] = [Rule("cap.tx.card.high_value_2fa", "", "card", "tx", 0, "manual_review")
                    EXCEPT !.USDThreshold = Thousand, !.Requires2FA = TRUE]
  BY DEF Rules, Thousand
<1>3. ASSUME NEW x, x = [Rule("cap.tx.card.high_value_2fa", "", "card", "tx", 0, "manual_review")
                           EXCEPT !.USDThreshold = Thousand, !.Requires2FA = TRUE]
      PROVE  x.Rail = "card" /\ x.Requires2FA /\ x.USDThreshold = Thousand
  BY <1>3 DEF Rule
<1>4. Rules[9].Rail = "card" /\ Rules[9].Requires2FA /\ Rules[9].USDThreshold = Thousand
  BY <1>2, <1>3, Zenon
<1> QED
  BY <1>1, <1>4, Zenon DEF Requires2FA, HighValue2FARequired

\* The type invariant, with the bound on the velocity counter.
THEOREM Typing == Spec => []TypeOK
  BY Invariance, PTL DEF IInv

\* An allow that has reached its caller is sound: evaluate.go checks the
\* destination, the session, the caps and the rules, and nothing done meanwhile
\* takes the verification of the destination back.
THEOREM AllowSound == Spec => []AllowIsSound
<1>1. IInv => AllowIsSound
  <2> SUFFICES ASSUME IInv, NEW r \in Requests, pc[r] = "done", out[r] = "allow"
               PROVE  LET i == in[r] IN
                      /\ whitelist[i.address] = "VERIFIED"
                      /\ i.transport = "rest" \/ ~AuthEnabled
                      /\ i.rail = "card" /\ AmountUSD(i) >= 1000 => i.session_2fa
                      /\ i.kyt_verdict = "clean" /\ i.kyc_status = "verified" /\ i.fraud_score < 50
                      /\ Tier(i) = "tier_1" => AmountUSD(i) < 900
                      /\ AmountUSD(i) <= 2500
    BY SMTT(20) DEF AllowIsSound
  <2> DEFINE i == in[r]
  <2>1. Cleared(i) /\ IsWhitelisted(i.address)
    BY DEF IInv, AllOnTheirWay, OnItsWay
  <2> HIDE DEF i
  <2>2. i \in Inputs /\ SourceAuth(i) /\ WithinCap(i)
    BY <2>1 DEF Cleared
  <2>3. i.transport = "rest" \/ ~AuthEnabled
    BY <2>2 DEF SourceAuth, SessionValid, SessionFlag
  <2>4. i.rail = "card" /\ AmountUSD(i) >= 1000 => i.session_2fa
    BY <2>2, HighValueCard DEF SourceAuth, Thousand
  <2>5. Tier(i) = "tier_1" => AmountUSD(i) < 900
    BY <2>2, FirstTierCap
  <2>6. AmountUSD(i) <= 2500
    <3>1. AmountUSD(i) <= CapsYAML.tx
      BY <2>1 DEF Cleared
    <3> QED
      BY <3>1 DEF CapsYAML
  <2>7. i.kyt_verdict = "clean" /\ i.kyc_status = "verified" /\ i.fraud_score < 50
    BY <2>1 DEF Cleared
  <2>8. whitelist[i.address] = "VERIFIED"
    BY <2>1 DEF IsWhitelisted
  <2> QED
    BY <2>3, <2>4, <2>5, <2>6, <2>7, <2>8, SMTT(20) DEF i
<1> QED
  BY <1>1, Invariance, PTL

\* A response has its policy_decisions row: Emit persists before it returns.
THEOREM AnswerDurable == Spec => []AnsweredIsDurable
<1>1. IInv => AnsweredIsDurable
  BY DEF IInv, AllOnTheirWay, OnItsWay, AnsweredIsDurable
<1> QED
  BY <1>1, Invariance, PTL

\* A manual_review response has its review row, unless the store refused it.
THEOREM AnswerParked == Spec => []ParkedUnlessStoreFails
<1>1. IInv => ParkedUnlessStoreFails
  BY DEF IInv, AllOnTheirWay, OnItsWay, ParkedUnlessStoreFails
<1> QED
  BY <1>1, Invariance, PTL

\* The decision counters and the deferred EvaluateTotal add up at any time.
THEOREM MetricsAddUp == Spec => []MetricsAgree
  BY Invariance, PTL DEF IInv

-----------------------------------------------------------------------------
\* The rules of decisions.rego under a higher fraud score: what was denied stays
\* denied, and what is allowed was allowed.
LEMMA EngineMonotone ==
  ASSUME NEW x, NEW y, NEW data, x.fraud_score \in Int, y.fraud_score \in Int,
         x.fraud_score <= y.fraud_score,
         x.amount_usd = y.amount_usd, x.kyt_verdict = y.kyt_verdict,
         x.kyc_status = y.kyc_status, x.whitelisted = y.whitelisted,
         x.requires_2fa = y.requires_2fa, x.session_2fa_passed = y.session_2fa_passed
  PROVE  /\ EngineDecision(x, data) = "deny" => EngineDecision(y, data) = "deny"
         /\ EngineDecision(y, data) = "allow" => EngineDecision(x, data) = "allow"
<1>1. Deny(x, data) => Deny(y, data)
  BY DEF Deny
<1>2. Allow(y, data) => Allow(x, data)
  BY DEF Allow
<1>3. ManualReview(x, data) /\ Allow(y, data) => ManualReview(y, data)
  BY SMTT(20) DEF ManualReview, Allow
<1> QED
  BY <1>1, <1>2, <1>3 DEF EngineDecision, Decide

\* The decision on a request, likewise: the caps do not look at the score.
LEMMA DecisionMonotone ==
  ASSUME NEW i \in Inputs, NEW score \in Int, score >= i.fraud_score
  PROVE  Severity(Decision([i EXCEPT !.fraud_score = score])) >= Severity(Decision(i))
<1> DEFINE j == [i EXCEPT !.fraud_score = score]
<1>1. i \in Request
  BY EvaluateAssumption
<1>2. /\ j.fraud_score = score /\ j.amount = i.amount /\ j.currency = i.currency
      /\ j.rate = i.rate /\ j.rail = i.rail /\ j.asset = i.asset /\ j.tier = i.tier
      /\ j.kyt_verdict = i.kyt_verdict /\ j.kyc_status = i.kyc_status
      /\ j.session_2fa = i.session_2fa /\ i.fraud_score \in Int
  BY <1>1 DEF Request
<1> HIDE DEF j
<1>3. AmountUSD(j) = AmountUSD(i) /\ Tier(j) = Tier(i)
  BY <1>2 DEF AmountUSD, Tier
<1>4. ByCap(j) = ByCap(i) /\ Requires2FA(j) = Requires2FA(i)
  BY <1>2, <1>3 DEF ByCap, Requires2FA
<1>5. /\ EngineDecision(EngineInput(i), policy) = "deny" => EngineDecision(EngineInput(j), policy) = "deny"
      /\ EngineDecision(EngineInput(j), policy) = "allow" => EngineDecision(EngineInput(i), policy) = "allow"
  <2> DEFINE x == EngineInput(i)
             y == EngineInput(j)
  <2>1. /\ x.fraud_score = i.fraud_score /\ y.fraud_score = j.fraud_score
        /\ x.amount_usd = y.amount_usd /\ x.kyt_verdict = y.kyt_verdict
        /\ x.kyc_status = y.kyc_status /\ x.whitelisted = y.whitelisted
        /\ x.requires_2fa = y.requires_2fa /\ x.session_2fa_passed = y.session_2fa_passed
    BY <1>2, <1>3, <1>4 DEF EngineInput
  <2>2. x.fraud_score \in Int /\ y.fraud_score \in Int /\ x.fraud_score <= y.fraud_score
    BY <1>2, <2>1
  <2> HIDE DEF x, y
  <2>3. /\ EngineDecision(x, policy) = "deny" => EngineDecision(y, policy) = "deny"
        /\ EngineDecision(y, policy) = "allow" => EngineDecision(x, policy) = "allow"
    BY <2>1, <2>2, EngineMonotone
  <2> QED
    BY <2>3 DEF x, y
<1>6. /\ Decision(i) = "deny" => Decision(j) = "deny"
      /\ Decision(j) = "allow" => Decision(i) = "allow"
  BY <1>4, <1>5 DEF Decision
<1>7. Decision(i) \in {"allow", "deny", "manual_review"} /\ Decision(j) \in {"allow", "deny", "manual_review"}
  BY DecisionType DEF Outcomes
<1>8. Severity(Decision(j)) >= Severity(Decision(i))
  BY <1>6, <1>7 DEF Severity
<1> QED
  BY <1>8 DEF j

\* A higher fraud score never makes a decision milder, for any input.
THEOREM FraudMonotone == Spec => []RiskMonotone
<1>1. IInv => RiskMonotone
  <2> SUFFICES ASSUME IInv, NEW r \in Requests, pc[r] = "policy",
                      NEW score \in {0, 49, 50, 79, 80, 100}, score >= in[r].fraud_score
               PROVE  Severity(Decision([in[r] EXCEPT !.fraud_score = score]))
                        >= Severity(Decision(in[r]))
    BY DEF RiskMonotone
  <2>1. in[r] \in Inputs /\ score \in Int
    BY DEF IInv, AllOnTheirWay, OnItsWay
  <2> QED
    BY <2>1, DecisionMonotone, SMTT(20)
<1> QED
  BY <1>1, Invariance, PTL

-----------------------------------------------------------------------------
\* What Gate sees of one request.
LEMMA Seen ==
  ASSUME NEW r \in Requests
  PROVE  /\ RecordBar[r] = IF r \in decisions THEN out[r] ELSE Unset
         /\ ReviewBar[r] = IF r \in reviews THEN "queued"
                           ELSE IF r \in parkErrors THEN "refused" ELSE "no"
         /\ pc[r] = "done" => AnswerBar[r] = out[r]
         /\ pc[r] \in {"unauthorized", "rejected", "error"} => AnswerBar[r] = "error"
         /\ pc[r] = "crashed" => AnswerBar[r] = "lost"
         /\ pc[r] \notin {"done", "unauthorized", "rejected", "error", "crashed"} => AnswerBar[r] = Unset
  BY DEF RecordBar, ReviewBar, AnswerBar

\* What the refinement mapping shows of a request after a step.
LEMMA SeenPrimed ==
  ASSUME NEW r \in Requests
  PROVE  /\ RecordBar'[r] = IF r \in decisions' THEN out'[r] ELSE Unset
         /\ ReviewBar'[r] = IF r \in reviews' THEN "queued"
                            ELSE IF r \in parkErrors' THEN "refused" ELSE "no"
         /\ pc'[r] = "done" => AnswerBar'[r] = out'[r]
         /\ pc'[r] \in {"unauthorized", "rejected", "error"} => AnswerBar'[r] = "error"
         /\ pc'[r] = "crashed" => AnswerBar'[r] = "lost"
         /\ pc'[r] \notin {"done", "unauthorized", "rejected", "error", "crashed"} => AnswerBar'[r] = Unset
  BY DEF RecordBar, ReviewBar, AnswerBar

\* The mapped variables are functions on the requests.
LEMMA BarTypes ==
  /\ RecordBar = [r \in Requests |-> RecordBar[r]] /\ RecordBar' = [r \in Requests |-> RecordBar'[r]]
  /\ ReviewBar = [r \in Requests |-> ReviewBar[r]] /\ ReviewBar' = [r \in Requests |-> ReviewBar'[r]]
  /\ AnswerBar = [r \in Requests |-> AnswerBar[r]] /\ AnswerBar' = [r \in Requests |-> AnswerBar'[r]]
  BY DEF RecordBar, ReviewBar, AnswerBar

\* A request that is still looks the same to Gate.
LEMMA StillSeen ==
  ASSUME NEW r \in Requests, Still(r)
  PROVE  RecordBar'[r] = RecordBar[r] /\ ReviewBar'[r] = ReviewBar[r] /\ AnswerBar'[r] = AnswerBar[r]
  BY DEF RecordBar, ReviewBar, AnswerBar, Still

\* Each step of a request, as Gate sees it: before the record is written only a
\* refusal shows, then the record, its place in the review queue and the answer.
LEMMA StepSeen ==
  ASSUME IInv, NEW r \in Requests, Step(r)
  PROVE  G!Next \/ UNCHANGED G!vars
<1>0. \A o \in Requests \ {r} :
        RecordBar'[o] = RecordBar[o] /\ ReviewBar'[o] = ReviewBar[o] /\ AnswerBar'[o] = AnswerBar[o]
  BY OthersStill, StillSeen DEF IInv
<1>w. OnItsWay(r) /\ OnItsWay(r)'
  BY StepOnItsWay DEF IInv, AllOnTheirWay
<1>t. TypeOK
  BY DEF IInv
<1> DEFINE Same == RecordBar'[r] = RecordBar[r] /\ ReviewBar'[r] = ReviewBar[r]
<1>1. ASSUME Same, AnswerBar'[r] = AnswerBar[r]
      PROVE  UNCHANGED G!vars
  BY <1>0, <1>1, BarTypes DEF G!vars
<1>2. ASSUME Same, AnswerBar[r] = Unset, AnswerBar'[r] = "error"
      PROVE  G!Refuse(r)
  <2>1. AnswerBar' = [AnswerBar EXCEPT ![r] = "error"] /\ RecordBar' = RecordBar /\ ReviewBar' = ReviewBar
    BY <1>0, <1>2, BarTypes
  <2> QED
    BY <1>2, <2>1 DEF G!Refuse
<1>3. CASE Receive(r) \/ CheckWhitelist(r) \/ WhitelistFails(r) \/ Velocity(r) \/ Rollback(r)
           \/ CheckPolicy(r) \/ EngineError(r) \/ Finalize(r)
  <2>1. /\ r \notin decisions /\ r \notin decisions' /\ reviews' = reviews /\ parkErrors' = parkErrors
        /\ pc[r] \notin {"done", "unauthorized", "rejected", "error", "crashed"}
        /\ pc'[r] \notin {"done", "error", "crashed"}
    <3> USE <1>w, <1>t DEF TypeOK, OnItsWay, shared
    <3>1. CASE Receive(r) \/ CheckWhitelist(r) \/ WhitelistFails(r)
      BY <3>1 DEF Receive, CheckWhitelist, WhitelistFails
    <3>2. CASE Velocity(r) \/ Rollback(r)
      BY <3>2 DEF Velocity, Rollback
    <3>3. CASE CheckPolicy(r) \/ EngineError(r) \/ Finalize(r)
      BY <3>3 DEF CheckPolicy, EngineError, Finalize
    <3> QED
      BY <1>3, <3>1, <3>2, <3>3
  <2>2. Same /\ AnswerBar[r] = Unset /\ AnswerBar'[r] \in {Unset, "error"}
    BY <2>1, Seen, SeenPrimed
  <2> QED
    BY <1>1, <1>2, <2>2 DEF G!Next
<1>4. CASE Emit(r) \/ EmitFails(r)
  <2>1. /\ r \notin decisions /\ out[r] \in Outcomes /\ out' = out
        /\ reviews' = reviews /\ parkErrors' = parkErrors
        /\ pc[r] = "emit" /\ pc'[r] \in {"park", "return", "fail"}
    BY <1>4, <1>w, <1>t DEF TypeOK, OnItsWay, Late, Emit, EmitFails
  <2>2. /\ ReviewBar'[r] = ReviewBar[r] /\ AnswerBar[r] = Unset /\ AnswerBar'[r] = Unset
        /\ RecordBar[r] = Unset /\ RecordBar'[r] \in {Unset, out[r]}
    BY <2>1, Seen, SeenPrimed
  <2>3. CASE RecordBar'[r] = Unset
    BY <1>1, <2>2, <2>3
  <2>4. CASE RecordBar'[r] = out[r]
    <3>1. RecordBar' = [RecordBar EXCEPT ![r] = out[r]] /\ ReviewBar' = ReviewBar /\ AnswerBar' = AnswerBar
      BY <1>0, <2>2, <2>4, BarTypes
    <3>2. G!Record(r)
      BY <2>1, <2>2, <3>1 DEF G!Record
    <3> QED
      BY <3>2 DEF G!Next
  <2> QED
    BY <2>2, <2>3, <2>4
<1>5. CASE Park(r) \/ ParkFails(r)
  <2>1. /\ pc[r] = "park" /\ pc'[r] = "return" /\ out' = out /\ out[r] = "manual_review"
        /\ r \in decisions /\ decisions' = decisions /\ r \notin reviews \cup parkErrors
        /\ r \in reviews' \cup parkErrors'
    BY <1>5, <1>w, <1>t DEF TypeOK, OnItsWay, Park, ParkFails, Parked
  <2>2. /\ RecordBar[r] = "manual_review" /\ RecordBar'[r] = RecordBar[r]
        /\ AnswerBar[r] = Unset /\ AnswerBar'[r] = Unset
        /\ ReviewBar[r] = "no" /\ ReviewBar'[r] \in {"queued", "refused"}
    <3>1. RecordBar[r] = "manual_review" /\ AnswerBar[r] = Unset /\ ReviewBar[r] = "no"
      BY <2>1, Seen
    <3>2. RecordBar'[r] = "manual_review" /\ AnswerBar'[r] = Unset
      BY <2>1, SeenPrimed
    <3>3. ReviewBar'[r] \in {"queued", "refused"}
      BY <2>1, SeenPrimed
    <3> QED
      BY <3>1, <3>2, <3>3
  <2>3. PICK q \in {"queued", "refused"} : ReviewBar'[r] = q
    BY <2>2
  <2>4. ReviewBar' = [ReviewBar EXCEPT ![r] = q] /\ RecordBar' = RecordBar /\ AnswerBar' = AnswerBar
    BY <1>0, <2>2, <2>3, BarTypes
  <2>5. G!Review(r)
    BY <2>2, <2>4 DEF G!Review
  <2> QED
    BY <2>5 DEF G!Next
<1>6. CASE Return(r)
  <2>1. /\ out' = out /\ decisions' = decisions /\ reviews' = reviews /\ parkErrors' = parkErrors
        /\ (pc[r] = "return" /\ pc'[r] = "done") \/ (pc[r] = "fail" /\ pc'[r] = "error")
    BY <1>6, <1>t DEF Return, TypeOK
  <2>2. Same /\ AnswerBar[r] = Unset
    BY <2>1, Seen, SeenPrimed
  <2>3. CASE pc[r] = "fail"
    BY <1>2, <2>1, <2>2, <2>3, SeenPrimed DEF G!Next
  <2>4. CASE pc[r] = "return"
    <3>1. /\ out[r] \in Outcomes /\ r \in decisions
          /\ out[r] = "manual_review" => r \in reviews \cup parkErrors
      BY <1>w, <2>4 DEF OnItsWay, Late
    <3>2. /\ RecordBar[r] = out[r] /\ AnswerBar'[r] = out[r]
          /\ out[r] = "manual_review" => ReviewBar[r] # "no"
      BY <2>1, <2>4, <3>1, Seen, SeenPrimed
    <3>3. AnswerBar' = [AnswerBar EXCEPT ![r] = RecordBar[r]] /\ RecordBar' = RecordBar /\ ReviewBar' = ReviewBar
      BY <1>0, <2>2, <3>2, BarTypes
    <3>4. RecordBar[r] # Unset
      BY <3>1, <3>2 DEF Outcomes, Unset
    <3>5. G!Answer(r)
      BY <2>2, <3>2, <3>3, <3>4 DEF G!Answer
    <3> QED
      BY <3>5 DEF G!Next
  <2> QED
    BY <2>1, <2>3, <2>4
<1> QED
  BY <1>3, <1>4, <1>5, <1>6 DEF Step

\* A crash loses the requests that were on their way, whatever their rows.
LEMMA CrashSeen ==
  ASSUME IInv, Crash
  PROVE  G!Next
<1> DEFINE S == {r \in Requests : Running(r)}
<1>1. /\ in' = in /\ out' = out /\ decisions' = decisions /\ reviews' = reviews /\ parkErrors' = parkErrors
      /\ \A r \in Requests : pc'[r] = IF Running(r) THEN "crashed" ELSE pc[r]
  BY DEF Crash
<1>2. RecordBar' = RecordBar /\ ReviewBar' = ReviewBar
  BY <1>1 DEF RecordBar, ReviewBar
<1>3. \A r \in S : AnswerBar[r] = Unset /\ AnswerBar'[r] = "lost"
  BY <1>1, Seen, SeenPrimed DEF Running
<1>4. ASSUME NEW r \in Requests \ S PROVE AnswerBar'[r] = AnswerBar[r]
  BY <1>1, StillSeen DEF Still
<1>5. AnswerBar' = [r \in Requests |-> IF r \in S THEN "lost" ELSE AnswerBar[r]]
  BY <1>3, <1>4, BarTypes
<1>6. G!Lose(S)
  BY <1>2, <1>3, <1>5 DEF G!Lose
<1>7. S \in SUBSET Requests
  OBVIOUS
<1> HIDE DEF S
<1> QED
  BY <1>6, <1>7 DEF G!Next

\* The evaluate path implements Gate: each handler step is a step of Gate or is
\* not visible to it.
THEOREM Refinement == Spec => ImplementsGate
<1>1. Init => G!Init
  BY DEF Init, G!Init, RecordBar, ReviewBar, AnswerBar
<1>2. IInv /\ [Next]_vars => [G!Next]_G!vars
  <2> SUFFICES ASSUME IInv, [Next]_vars PROVE [G!Next]_G!vars
    OBVIOUS
  <2>1. CASE \E r \in Requests : Step(r)
    BY <2>1, StepSeen
  <2>2. CASE Crash
    BY <2>2, CrashSeen
  <2>3. CASE (Reload \/ \E a \in Addresses : AddAddress(a) \/ Verify(a) \/ WindowEnds(a)) \/ UNCHANGED vars
    <3>1. pc' = pc /\ out' = out /\ decisions' = decisions /\ reviews' = reviews /\ parkErrors' = parkErrors
      BY <2>3 DEF Reload, AddAddress, Verify, WindowEnds, vars
    <3> QED
      BY <3>1 DEF G!vars, RecordBar, ReviewBar, AnswerBar
  <2> QED
    BY <2>1, <2>2, <2>3 DEF Next
<1> QED
  BY <1>1, <1>2, Invariance, PTL DEF Spec, ImplementsGate, G!Spec
=============================================================================
