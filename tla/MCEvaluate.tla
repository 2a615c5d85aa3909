----------------------------- MODULE MCEvaluate ------------------------------
(***************************************************************************)
(* Instances of Evaluate for TLC.  Amounts sit on both sides of every      *)
(* threshold of caps.go and decisions.rego, fraud scores likewise.         *)
(***************************************************************************)
EXTENDS Evaluate, TLC

CONSTANT a1

Plain ==
  [address |-> a1, transport |-> "rest", token |-> TRUE, wellformed |-> TRUE,
   amount |-> 100, currency |-> "USD", rate |-> 0, rail |-> "ach", asset |-> "BTC",
   tier |-> "tier_2", kyt_verdict |-> "clean", fraud_score |-> 10,
   kyc_status |-> "verified", session_2fa |-> FALSE]

\* One request, any input.
AllInputs ==
  {[Plain EXCEPT !.amount = amount, !.rail = rail, !.tier = tier, !.kyt_verdict = kyt,
                 !.fraud_score = fraud, !.kyc_status = kyc, !.session_2fa = twofa] :
     amount \in {-1, 899, 900, 999, 1000, 1001, 2249, 2250, 2500, 2501, 4500, 5001,
                 9000, 10001, 22500, 25001},
     rail \in {"ach", "card"}, tier \in {"", "tier_2", "tier_3", "unknown"},
     kyt \in {"clean", "high_risk", "sanctioned"}, fraud \in {49, 50, 79, 80},
     kyc \in {"verified", "expired"}, twofa \in BOOLEAN}
  \cup {[Plain EXCEPT !.transport = transport, !.token = token, !.wellformed = ok,
                      !.amount = amount, !.currency = "EUR", !.rate = rate] :
          transport \in {"rest", "grpc"}, token \in BOOLEAN, ok \in BOOLEAN,
          amount \in {900, 2000}, rate \in {0, 110, 200}}

\* Inputs that take each path, for requests that interleave: allow, exactly at the
\* near-cap threshold of the default tier, second factor missing.
FewInputs ==
  {Plain, [Plain EXCEPT !.tier = "", !.amount = 900],
   [Plain EXCEPT !.rail = "card", !.amount = 2000]}

Symmetry == Permutations(Requests)
=============================================================================
