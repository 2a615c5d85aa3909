------------------------------ MODULE Decisions ------------------------------
(***************************************************************************)
(* The seed policy (policies/decisions.rego) and how the engine turns its  *)
(* answers into one decision.  Fraud scores are in hundredths.  data is    *)
(* the caps document of the bundle, or NoData when the bundle has none: a  *)
(* comparison with a missing document is undefined, so its rule body does  *)
(* not hold.                                                               *)
(***************************************************************************)
EXTENDS Integers

NoData   == [present |-> FALSE, tx |-> 0, daily |-> 0]
CapsYAML == [present |-> TRUE, tx |-> 2500, daily |-> 10000]

Allow(in, data) ==
  /\ data.present /\ in.amount_usd <= data.tx
  /\ in.kyt_verdict = "clean"
  /\ in.fraud_score < 50
  /\ in.kyc_status = "verified"
  /\ in.whitelisted
  /\ in.requires_2fa => in.session_2fa_passed

ManualReview(in, data) ==
  \/ in.fraud_score >= 50 /\ in.fraud_score < 80
  \/ /\ data.present
     /\ in.amount_usd * 10 >= data.daily * 9
     /\ in.amount_usd <= data.daily

Deny(in, data) ==
  \/ in.fraud_score >= 80
  \/ in.kyt_verdict = "sanctioned"
  \/ data.present /\ in.amount_usd > data.daily
  \/ ~in.whitelisted
  \/ in.requires_2fa /\ ~in.session_2fa_passed
  \/ in.kyc_status # "verified"

\* Fault: manual_review before deny.
FaultReviewFirst(allow, mr, deny) ==
  CASE mr -> "manual_review" [] ~mr /\ deny -> "deny"
    [] ~mr /\ ~deny /\ allow -> "allow" [] OTHER -> "manual_review"

\* OPAEngine.decide: deny, then manual_review, then allow; none of them is
\* manual_review.
Decide(allow, mr, deny) ==
  CASE deny -> "deny" [] ~deny /\ ~mr /\ allow -> "allow" [] OTHER -> "manual_review"

\* OPAEngine.Evaluate over one compiled bundle.
EngineDecision(in, data) ==
  Decide(Allow(in, data), ManualReview(in, data), Deny(in, data))
=============================================================================
