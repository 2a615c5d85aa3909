--------------------------------- MODULE Auth ---------------------------------
(***************************************************************************)
(* The check of bearer tokens on the REST admin paths                      *)
(* (internal/api/auth.go) as operators.  cfg is an AuthConfig with the     *)
(* issuer, the audience, whether a JWKS URL is set, and the admin scopes;  *)
(* a token is what its header and payload decode to.  Its third part, the  *)
(* signature, is no part of the model because the code never reads it.     *)
(***************************************************************************)
EXTENDS Integers

\* Operations behind the mux; those that read, and evaluate, are no admin paths.
AdminPaths == {"publish", "add", "verify", "resolve"}
IsAdminPath(op) == op \in AdminPaths

Enabled(cfg) == cfg.issuer # ""

\* aud is a string or a list: the set of its members.
AudienceContains(aud, want) == want \in aud

Expired(token, now) == token.exp > 0 /\ now > token.exp

\* What validateBearer decides by itself: header, form, issuer, audience, expiry.
\* Its comments (auth.go:128 and 146-147) promise that the signature is verified;
\* nothing of the kind happens, here or with the key that is looked up.
ParseAndValidate(cfg, token, now) ==
  /\ token.jwt
  /\ token.iss = cfg.issuer
  /\ cfg.audience # "" => AudienceContains(token.aud, cfg.audience)
  /\ ~Expired(token, now)

\* The resolver is asked about a token that names a key: that the key set has it is
\* all that matters, and a token that names none is not asked about.
NeedsKey(cfg, token) == cfg.jwks /\ token.kid # ""

HasAnyScope(token, required) == token.scopes \cap required # {}
=============================================================================
