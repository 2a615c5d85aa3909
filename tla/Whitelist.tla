------------------------------- MODULE Whitelist ------------------------------
(***************************************************************************)
(* Administration of the whitelist: the REST handlers behind the auth      *)
(* middleware (internal/api), whitelist.Service and its Postgres store.    *)
(* Calls overlap, tokens expire and signing keys are withdrawn while they  *)
(* run, any statement may fail, and a call may be lost with its process.   *)
(***************************************************************************)
EXTENDS Integers, FiniteSets, Auth

CONSTANTS
  Calls,    \* REST calls
  Entries,  \* (user_id, chain, address)
  Tokens,   \* bearer tokens a call may carry
  Configs,  \* AuthConfigs the process may run with
  Kids,     \* key ids
  MaxNow    \* bound: the last time on the clock

ASSUME WhitelistAssumption == MaxNow \in Nat

Ops == {"add", "verify", "list"}

StatusPending == "PENDING"
StatusVerified == "VERIFIED"

\* "ABSENT" is no row.
Statuses == {"ABSENT", "PENDING", "VERIFIED"}

VARIABLES
  cfg,        \* Services.Auth
  now,        \* time.Now, in units of the tokens' exp
  served,     \* key ids in the key set the identity provider serves
  whitelist,  \* whitelist_addresses: status of each entry
  pc,         \* progress of each call
  call,       \* operation and entry of each call
  token,      \* its token, until the middleware is done with it
  seen,       \* the entries List returns
  result,     \* what the caller gets
  began       \* history: its claims were in order, and entries verified, when it arrived

vars == <<cfg, now, served, whitelist, pc, call, token, seen, result, began>>

NoCall  == [op |-> "none"]
NoToken == [jwt |-> FALSE]
Nothing == [e \in Entries |-> "ABSENT"]

\* Entries some call was told are verified.
Verified ==
  {call[c].entry : c \in {d \in Calls : result[d] = "ok" /\ call[d].op = "verify"}}

\* What an admin path asks of a token when auth is enabled: the issuer, the audience,
\* the expiry, an admin scope, and that the key it names, if it names one, has not
\* been withdrawn.  Who signed it is not asked.
ClaimsInOrder(t) ==
  /\ ParseAndValidate(cfg, t, now)
  /\ HasAnyScope(t, cfg.scopes)
  /\ NeedsKey(cfg, t) => t.kid \in served

Init ==
  /\ cfg \in Configs
  /\ now = 0
  /\ served = Kids
  /\ whitelist \in [Entries -> Statuses]
  /\ pc = [c \in Calls |-> "idle"]
  /\ call = [c \in Calls |-> NoCall]
  /\ token = [c \in Calls |-> NoToken]
  /\ seen = [c \in Calls |-> Nothing]
  /\ result = [c \in Calls |-> "none"]
  /\ began = [c \in Calls |-> [inOrder |-> FALSE, verified |-> {}]]

world == <<cfg, now, served>>
fixed == <<call, began>>

\* The clock, and the identity provider (external) that withdraws a key.
Tick ==
  /\ now < MaxNow
  /\ now' = now + 1
  /\ UNCHANGED <<cfg, served, whitelist, pc, call, token, seen, result, began>>

Withdraw(k) ==
  /\ k \in served
  /\ served' = served \ {k}
  /\ UNCHANGED <<cfg, now, whitelist, pc, call, token, seen, result, began>>

-----------------------------------------------------------------------------
\* toAppError: of the errors of the service only ErrNotFound has a status of its own.
ToAppError(r) == IF r \in {"duplicate", "already_verified"} THEN "internal" ELSE r

Answer(c, r) ==
  /\ pc' = [pc EXCEPT ![c] = "done"]
  /\ token' = [token EXCEPT ![c] = NoToken]
  /\ result' = [result EXCEPT ![c] = ToAppError(r)]

Check(c, step, t) ==
  /\ pc' = [pc EXCEPT ![c] = step]
  /\ token' = [token EXCEPT ![c] = t]
  /\ UNCHANGED result

Handle(c, step) == Check(c, step, NoToken)

\* The first step of the handler of an operation.
Handler(op) == CASE op = "add" -> "add" [] op = "verify" -> "get" [] op = "list" -> "list"

\* authMiddleware up to the lookup of the key, which it makes for each token.
Arrive(c) ==
  /\ pc[c] = "idle"
  /\ \E op \in Ops, e \in Entries, t \in Tokens :
       /\ call' = [call EXCEPT ![c] = [op |-> op, entry |-> e]]
       /\ IF ~Enabled(cfg) \/ ~IsAdminPath(op) THEN Handle(c, Handler(op))
          ELSE IF ~ParseAndValidate(cfg, t, now) THEN Answer(c, "unauthorized")
          ELSE Check(c, IF NeedsKey(cfg, t) THEN "jwks" ELSE "scope", t)
       /\ began' = [began EXCEPT ![c] = [inOrder |-> ClaimsInOrder(t), verified |-> Verified]]
  /\ UNCHANGED <<world, whitelist, seen>>

\* Fault: the key set is the one fetched at boot.
FaultCachedKeys(kid) == kid \in Kids

\* fetchJWKS: the key set is fetched anew.
FetchJWKS(kid) == kid \in served

LookupKey(c) ==
  /\ pc[c] = "jwks"
  /\ IF FetchJWKS(token[c].kid) THEN Check(c, "scope", token[c])
     ELSE Answer(c, "unauthorized")
  /\ UNCHANGED <<world, fixed, whitelist, seen>>

\* The provider does not answer within its timeout, or not with a key set.
LookupFails(c) ==
  /\ pc[c] = "jwks"
  /\ Answer(c, "unauthorized")
  /\ UNCHANGED <<world, fixed, whitelist, seen>>

CheckScope(c) ==
  /\ pc[c] = "scope"
  /\ IF HasAnyScope(token[c], cfg.scopes)
       THEN Handle(c, Handler(call[c].op))
       ELSE Answer(c, "forbidden")
  /\ UNCHANGED <<world, fixed, whitelist, seen>>

-----------------------------------------------------------------------------
\* A body that does not decode, or an Add without a user_id.
BadRequest(c) ==
  /\ pc[c] \in {"add", "get"}
  /\ Answer(c, "bad_request")
  /\ UNCHANGED <<world, fixed, whitelist, seen>>

\* Fault: the INSERT replaces what is there.
FaultReplace(e) == TRUE

\* UNIQUE (user_id, chain, address)
Insertable(e) == whitelist[e] = "ABSENT"

Add(c) ==
  LET e == call[c].entry IN
  /\ pc[c] = "add"
  /\ IF Insertable(e)
       THEN whitelist' = [whitelist EXCEPT ![e] = StatusPending] /\ Answer(c, "ok")
       ELSE UNCHANGED whitelist /\ Answer(c, "duplicate")
  /\ UNCHANGED <<world, fixed, seen>>

\* Add finds another field missing, the statement fails, or its answer is lost.
AddFails(c) ==
  LET e == call[c].entry IN
  /\ pc[c] = "add"
  /\ \/ UNCHANGED whitelist
     \/ Insertable(e) /\ whitelist' = [whitelist EXCEPT ![e] = StatusPending]
  /\ Answer(c, "internal")
  /\ UNCHANGED <<world, fixed, seen>>

\* Fault: Verify does not look at the status.
FaultNoStatusCheck(e) == FALSE

AlreadyVerified(e) == whitelist[e] = StatusVerified

\* Verify: Get, and the checks on what it found.
Get(c) ==
  LET e == call[c].entry IN
  /\ pc[c] = "get"
  /\ IF whitelist[e] = "ABSENT" THEN Answer(c, "not_found")
     ELSE IF AlreadyVerified(e) THEN Answer(c, "already_verified")
     ELSE Handle(c, "update")
  /\ UNCHANGED <<world, fixed, whitelist, seen>>

\* Verify: Update, whatever became of the row since.
Update(c) ==
  LET e == call[c].entry IN
  /\ pc[c] = "update"
  /\ whitelist' = [whitelist EXCEPT ![e] = IF @ = "ABSENT" THEN @ ELSE StatusVerified]
  /\ Answer(c, IF whitelist[e] = "ABSENT" THEN "not_found" ELSE "ok")
  /\ UNCHANGED <<world, fixed, seen>>

UpdateFails(c) ==
  LET e == call[c].entry IN
  /\ pc[c] = "update"
  /\ \/ UNCHANGED whitelist
     \/ whitelist[e] # "ABSENT" /\ whitelist' = [whitelist EXCEPT ![e] = StatusVerified]
  /\ Answer(c, "internal")
  /\ UNCHANGED <<world, fixed, seen>>

List(c) ==
  /\ pc[c] = "list"
  /\ seen' = [seen EXCEPT ![c] = whitelist]
  /\ Answer(c, "ok")
  /\ UNCHANGED <<world, fixed, whitelist>>

ReadFails(c) ==
  /\ pc[c] \in {"get", "list"}
  /\ Answer(c, "internal")
  /\ UNCHANGED <<world, fixed, whitelist, seen>>

\* The process dies under the call; the rows stay.
Lost(c) ==
  /\ pc[c] \notin {"idle", "done"}
  /\ Answer(c, "lost")
  /\ UNCHANGED <<world, fixed, whitelist, seen>>

Step(c) ==
  \/ Arrive(c) \/ LookupKey(c) \/ LookupFails(c) \/ CheckScope(c) \/ BadRequest(c)
  \/ Add(c) \/ AddFails(c) \/ Get(c) \/ Update(c) \/ UpdateFails(c)
  \/ List(c) \/ ReadFails(c) \/ Lost(c)

Next ==
  \/ Tick
  \/ \E k \in Kids : Withdraw(k)
  \/ \E c \in Calls : Step(c)

Spec == Init /\ [][Next]_vars

-----------------------------------------------------------------------------
TypeOK ==
  /\ cfg \in Configs
  /\ now \in 0 .. MaxNow
  /\ served \subseteq Kids
  /\ whitelist \in [Entries -> Statuses]
  /\ pc \in [Calls -> {"idle", "jwks", "scope", "add", "get", "update", "list", "done"}]
  /\ call \in [Calls -> [op : Ops, entry : Entries] \cup {NoCall}]
  /\ token \in [Calls -> Tokens \cup {NoToken}]
  /\ seen \in [Calls -> [Entries -> Statuses]]
  /\ result \in [Calls -> {"none", "ok", "unauthorized", "forbidden", "bad_request",
                           "not_found", "internal", "lost"}]
  /\ began \in [Calls -> [inOrder : BOOLEAN, verified : SUBSET Entries]]

\* With auth enabled, every change of the whitelist is the work of a call whose
\* token had its claims in order when the call arrived, and named no key that had
\* been withdrawn by then, however long the key lookup takes and whatever fails or
\* changes meanwhile.  It does not follow that the issuer signed the token: the
\* code leaves the signature to whoever is in front of it, against auth.go:128.
ChangesNeedClaims ==
  [][\A e \in Entries : whitelist'[e] # whitelist[e] =>
       \E c \in Calls : /\ pc[c] \in {"add", "update"} /\ pc'[c] = "done"
                        /\ call[c].entry = e
                        /\ Enabled(cfg) => began[c].inOrder]_vars

Advanced(status) == IF status = "ABSENT" THEN "PENDING" ELSE "VERIFIED"

\* An entry only ever goes from absent to pending to verified, one at a time: an
\* Add never takes a verified entry back, and overlapping Verify calls, which read
\* the row and write it later, never do either.  The evaluate path rests on it
\* when it allows a request some steps after it looked the destination up.
StatusOnlyAdvances ==
  [][\A e \in Entries : whitelist'[e] # whitelist[e] =>
       whitelist[e] # "VERIFIED" /\ whitelist'[e] = Advanced(whitelist[e])]_vars

\* What a Verify has reported done stays done for every call that arrives later:
\* no second Verify or Add of the entry succeeds, and a list shows it verified.
VerifiedLasts ==
  \A c \in Calls : \A e \in began[c].verified :
    result[c] = "ok" =>
      /\ call[c].op = "list" => seen[c][e] = "VERIFIED"
      /\ call[c].op # "list" => call[c].entry # e
=============================================================================
