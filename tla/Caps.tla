--------------------------------- MODULE Caps --------------------------------
(***************************************************************************)
(* Per-transaction caps (internal/caps).  Amounts are whole USD, rates in  *)
(* hundredths; the near-cap fraction 0.9 is taken as 9/10.                 *)
(***************************************************************************)
EXTENDS Integers, Sequences

DefaultTXCapUSD == 2500
DefaultDailyCapUSD == 10000

\* A Rule; "" is an unset field, and an unset cap or threshold is 0.
Rule(id, tier, rail, window, usdCap, onExceed) ==
  [ID |-> id, Tier |-> tier, Rail |-> rail, Asset |-> "", Window |-> window,
   USDCap |-> usdCap, OnExceed |-> onExceed, USDThreshold |-> 0, Requires2FA |-> FALSE]

\* SeedRules, the Rules of every Config the program builds.
Rules ==
  << Rule("cap.daily.tier_1", "tier_1", "", "1d", 2500, "deny"),
     Rule("cap.tx.tier_1", "tier_1", "", "tx", 1000, "deny"),
     Rule("cap.daily.tier_2", "tier_2", "", "1d", 25000, "deny"),
     Rule("cap.tx.tier_2", "tier_2", "", "tx", 5000, "deny"),
     Rule("cap.daily.tier_3", "tier_3", "", "1d", 100000, "deny"),
     Rule("cap.tx.tier_3", "tier_3", "", "tx", 25000, "deny"),
     Rule("cap.daily.institutional", "institutional", "", "1d", 1000000, "deny"),
     Rule("cap.tx.institutional", "institutional", "", "tx", 250000, "deny"),
     [Rule("cap.tx.card.high_value_2fa", "", "card", "tx", 0, "manual_review")
        EXCEPT !.USDThreshold = 1000, !.Requires2FA = TRUE] >>

NoRule == Rule("", "", "", "", 0, "")

\* The first rule that passes a test, as a loop with an early return finds it.
FirstRule(Test(_)) ==
  LET hits == {i \in DOMAIN Rules : Test(Rules[i])} IN
    IF hits = {} THEN NoRule
    ELSE Rules[CHOOSE i \in hits : \A j \in hits : i <= j]

\* matchRule: by tier, else by rail, else by asset.
MatchRule(tier, rail, asset, window) ==
  LET byTier  == FirstRule(LAMBDA r : r.Tier = tier /\ r.Window = window
                                      /\ r.Rail = "" /\ r.Asset = "")
      byRail  == FirstRule(LAMBDA r : r.Rail = rail /\ r.Window = window /\ r.Tier = "")
      byAsset == FirstRule(LAMBDA r : r.Asset = asset /\ r.Window = window
                                      /\ r.Tier = "" /\ r.Rail = "")
  IN  CASE byTier # NoRule -> byTier
        [] byTier = NoRule /\ byRail # NoRule -> byRail
        [] OTHER -> byAsset

EffectiveCap(rule, window) ==
  CASE rule.USDCap > 0                    -> rule.USDCap
    [] rule.USDCap <= 0 /\ window = "1d"  -> DefaultDailyCapUSD
    [] rule.USDCap <= 0 /\ window = "tx"  -> DefaultTXCapUSD
    [] OTHER                              -> 0

NearCap(amount, cap) == amount * 10 >= cap * 9

\* Config.Evaluate: "exceeded" with the rule's branch, "near_cap", or neither.
EvaluateCap(tier, rail, asset, window, amount) ==
  LET rule == MatchRule(tier, rail, asset, window)
      cap  == EffectiveCap(rule, window)
  IN  CASE cap <= 0 -> ""
        [] cap > 0 /\ amount > cap ->
             IF rule.OnExceed = "manual_review" THEN "manual_review" ELSE "deny"
        [] cap > 0 /\ amount <= cap /\ NearCap(amount, cap) -> "manual_review"
        [] OTHER -> ""

HighValue2FARequired(rail, amount) ==
  \E i \in DOMAIN Rules :
    Rules[i].Rail = rail /\ Rules[i].Requires2FA /\ amount >= Rules[i].USDThreshold

\* FXToUSD: a missing rate counts as 1.
FXToUSD(amount, currency, rate) ==
  IF currency = "USD" \/ rate <= 0 THEN amount ELSE (amount * rate) \div 100
=============================================================================
