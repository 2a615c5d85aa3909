----------------------------- MODULE MCWhitelist ------------------------------
(* Instance of Whitelist for TLC. *)
EXTENDS Whitelist, TLC

CONSTANT k1

MCToken ==
  [jwt |-> TRUE, iss |-> "idp", aud |-> {"policy", "other"}, exp |-> 0, kid |-> "",
   scopes |-> {"policy:admin", "openid"}]

\* A good token under a key, one that expires, and one for each way to fail.
MCTokens ==
  {[MCToken EXCEPT !.kid = k1, !.exp = 1], MCToken,
   [MCToken EXCEPT !.jwt = FALSE], [MCToken EXCEPT !.iss = "elsewhere"],
   [MCToken EXCEPT !.aud = {"other"}], [MCToken EXCEPT !.scopes = {"openid"}]}

MCConfig ==
  [issuer |-> "idp", audience |-> "policy", jwks |-> TRUE,
   scopes |-> {"policy:admin", "policy:review"}]

MCConfigs ==
  {MCConfig, [MCConfig EXCEPT !.jwks = FALSE, !.audience = ""], [MCConfig EXCEPT !.issuer = ""]}

Symmetry == Permutations(Calls)
=============================================================================
