------------------------------- MODULE Evaluate ------------------------------
(***************************************************************************)
(* The evaluate path (internal/evaluate, with its REST and gRPC entry      *)
(* points) over the parts it uses: the whitelist, the daily velocity       *)
(* counter, the caps, the engine, the decision store, the review queue and *)
(* the metrics.  Requests run concurrently; a step is what a request does  *)
(* between two accesses to state it shares.  DB mode: whitelist, decisions *)
(* and review rows survive a crash, everything else is lost with it.       *)
(***************************************************************************)
EXTENDS Integers, FiniteSets, Caps, Decisions

CONSTANTS
  Requests,     \* evaluate requests
  Inputs,       \* what a request may carry
  Addresses,    \* destination addresses, one for each user
  AuthEnabled,  \* JWT_ISSUER is set
  VelocityCap,  \* what the daily counter is compared with
  MaxCrashes    \* bound: crashes of the process

\* Request, with the outcome of parsing it and of looking at its token.
Request ==
  [address : Addresses, transport : {"rest", "grpc"}, token : BOOLEAN, wellformed : BOOLEAN,
   amount : Int, currency : STRING, rate : Int, rail : STRING, asset : STRING, tier : STRING,
   kyt_verdict : STRING, fraud_score : Int, kyc_status : STRING, session_2fa : BOOLEAN]

ASSUME EvaluateAssumption ==
  /\ AuthEnabled \in BOOLEAN
  /\ VelocityCap \in Nat /\ MaxCrashes \in Nat
  /\ \A i \in Inputs : i \in Request
  /\ IsFiniteSet(Requests)

VARIABLES
  whitelist,  \* status of each address
  count,      \* the daily counter of the owner of each address
  policy,     \* data of the bundle the engine runs
  pc, in,     \* progress of each request, and what it carries
  out,        \* its decision
  decisions,  \* requests with a policy_decisions row
  reviews,    \* requests with a review_queue row
  parkErrors, \* history: requests whose Park met a failing store
  metrics,    \* decision counters and EvaluateTotal
  crashes

vars == <<whitelist, count, policy, pc, in, out, decisions, reviews, parkErrors,
          metrics, crashes>>

shared == <<whitelist, count, policy, decisions, reviews, parkErrors, metrics, crashes>>

Policies == {CapsYAML, NoData}
Unset == "unset"
Outcomes == {"allow", "deny", "manual_review"}
ZeroMetrics == [allow |-> 0, deny |-> 0, manual_review |-> 0, total |-> 0]
NoInput == [address |-> Unset]

Init ==
  /\ whitelist \in [Addresses -> {"ABSENT", "PENDING", "VERIFIED"}]
  /\ count = [a \in Addresses |-> 0]
  /\ policy = CapsYAML
  /\ pc = [r \in Requests |-> "idle"]
  /\ in = [r \in Requests |-> NoInput]
  /\ out = [r \in Requests |-> Unset]
  /\ decisions = {}
  /\ reviews = {}
  /\ parkErrors = {}
  /\ metrics = ZeroMetrics
  /\ crashes = 0

-----------------------------------------------------------------------------
\* The rest of the world: whitelist administration, the velocity window, hot
\* reload.  Verify is Get then Update; as no call ever takes VERIFIED back, the
\* two are one step.
AddAddress(a) ==
  /\ whitelist[a] = "ABSENT"
  /\ whitelist' = [whitelist EXCEPT ![a] = "PENDING"]
  /\ UNCHANGED <<count, policy, pc, in, out, decisions, reviews, parkErrors, metrics, crashes>>

Verify(a) ==
  /\ whitelist[a] = "PENDING"
  /\ whitelist' = [whitelist EXCEPT ![a] = "VERIFIED"]
  /\ UNCHANGED <<count, policy, pc, in, out, decisions, reviews, parkErrors, metrics, crashes>>

WindowEnds(a) ==
  /\ count[a] > 0
  /\ count' = [count EXCEPT ![a] = 0]
  /\ UNCHANGED <<whitelist, policy, pc, in, out, decisions, reviews, parkErrors, metrics, crashes>>

\* A hot reload brings a bundle without data.
Reload ==
  /\ policy # NoData
  /\ policy' = NoData
  /\ UNCHANGED <<whitelist, count, pc, in, out, decisions, reviews, parkErrors, metrics, crashes>>

-----------------------------------------------------------------------------
AmountUSD(i) == FXToUSD(i.amount, i.currency, i.rate)
Tier(i) == IF i.tier = "" THEN "tier_1" ELSE i.tier
Requires2FA(i) == HighValue2FARequired(i.rail, AmountUSD(i))

\* evaluateHandler refuses a bad token, and past that marks the session valid.
Unauthorized(i) == i.transport = "rest" /\ AuthEnabled /\ ~i.token

\* Request.SessionValid: evaluateRequestFromProto leaves it unset.
SessionFlag(i) == i.transport = "rest"

\* Without JWT auth the service takes every session as valid.
SessionValid(i) == SessionFlag(i) \/ ~AuthEnabled

\* validate: the required fields are there and the amount is a number, of any sign.
Valid(i) == i.wellformed

\* CheckSourceAuth
SourceAuth(i) == SessionValid(i) /\ (Requires2FA(i) => i.session_2fa)

\* evaluateHandler or grpcServer.Evaluate, then Evaluate up to step 2.  Bad
\* tokens and malformed requests leave no trace, not even in the metrics.
Receive(r) ==
  /\ pc[r] = "idle"
  /\ \E i \in Inputs :
       LET next == CASE Unauthorized(i) -> "unauthorized"
                     [] ~Unauthorized(i) /\ ~Valid(i) -> "rejected"
                     [] ~Unauthorized(i) /\ Valid(i) /\ ~SourceAuth(i) -> "finalize"
                     [] OTHER -> "whitelist"
       IN  /\ in' = [in EXCEPT ![r] = i]
           /\ pc' = [pc EXCEPT ![r] = next]
           /\ out' = [out EXCEPT ![r] = IF next = "finalize" THEN "deny" ELSE @]
  /\ UNCHANGED shared

\* Fault: an entry that still awaits verification counts.
FaultPendingCounts(a) == whitelist[a] # "ABSENT"

IsWhitelisted(a) == whitelist[a] = "VERIFIED"

\* Step 2.
CheckWhitelist(r) ==
  /\ pc[r] = "whitelist"
  /\ IF IsWhitelisted(in[r].address)
       THEN pc' = [pc EXCEPT ![r] = "velocity"] /\ UNCHANGED out
       ELSE pc' = [pc EXCEPT ![r] = "finalize"] /\ out' = [out EXCEPT ![r] = "deny"]
  /\ UNCHANGED <<in, shared>>

\* IsWhitelisted takes a failing store for an unknown address.
WhitelistFails(r) ==
  /\ pc[r] = "whitelist"
  /\ pc' = [pc EXCEPT ![r] = "finalize"]
  /\ out' = [out EXCEPT ![r] = "deny"]
  /\ UNCHANGED <<in, shared>>

\* Step 3: Increment, and if that was one too many, Rollback.
Velocity(r) ==
  LET a == in[r].address IN
  /\ pc[r] = "velocity"
  /\ count' = [count EXCEPT ![a] = @ + 1]
  /\ pc' = [pc EXCEPT ![r] = IF count'[a] > VelocityCap THEN "rollback" ELSE "policy"]
  /\ UNCHANGED <<in, out, whitelist, policy, decisions, reviews, parkErrors, metrics, crashes>>

\* Fault: the count of the refused request stays.
FaultKeepCount(n) == n

\* Rollback never goes below zero: the window may have ended meanwhile.
RolledBack(n) == IF n > 0 THEN n - 1 ELSE 0

Rollback(r) ==
  LET a == in[r].address IN
  /\ pc[r] = "rollback"
  /\ count' = [count EXCEPT ![a] = RolledBack(@)]
  /\ pc' = [pc EXCEPT ![r] = "finalize"]
  /\ out' = [out EXCEPT ![r] = "deny"]
  /\ UNCHANGED <<in, whitelist, policy, decisions, reviews, parkErrors, metrics, crashes>>

EngineInput(i) ==
  [amount_usd |-> AmountUSD(i), kyt_verdict |-> i.kyt_verdict, fraud_score |-> i.fraud_score,
   kyc_status |-> i.kyc_status, whitelisted |-> TRUE, requires_2fa |-> Requires2FA(i),
   session_2fa_passed |-> i.session_2fa]

ByCap(i) == EvaluateCap(Tier(i), i.rail, i.asset, "tx", AmountUSD(i))

\* Steps 4 and 5: a cap that is exceeded or near decides, otherwise the engine.
Decision(i) ==
  IF ByCap(i) # "" THEN ByCap(i) ELSE EngineDecision(EngineInput(i), policy)

CheckPolicy(r) ==
  /\ pc[r] = "policy"
  /\ out' = [out EXCEPT ![r] = Decision(in[r])]
  /\ pc' = [pc EXCEPT ![r] = "finalize"]
  /\ UNCHANGED <<in, shared>>

\* The engine has no compiled policy or runs into the deadline of the request.
EngineError(r) ==
  /\ pc[r] = "policy"
  /\ ByCap(in[r]) = ""
  /\ out' = [out EXCEPT ![r] = "manual_review"]
  /\ pc' = [pc EXCEPT ![r] = "finalize"]
  /\ UNCHANGED <<in, shared>>

-----------------------------------------------------------------------------
\* finalize: count the decision, emit its record, park it if need be.
Finalize(r) ==
  /\ pc[r] = "finalize"
  /\ metrics' = [metrics EXCEPT ![out[r]] = @ + 1]
  /\ pc' = [pc EXCEPT ![r] = "emit"]
  /\ UNCHANGED <<in, out, whitelist, count, policy, decisions, reviews, parkErrors, crashes>>

\* Fault: the row is left to the audit worker.
FaultAsyncPersist(r) == decisions

\* What Emit leaves in the store: the row, before it returns (WithSyncPersist).
Persisted(r) == decisions \cup {r}

Emit(r) ==
  /\ pc[r] = "emit"
  /\ decisions' = Persisted(r)
  /\ pc' = [pc EXCEPT ![r] = IF out[r] = "manual_review" THEN "park" ELSE "return"]
  /\ UNCHANGED <<in, out, whitelist, count, policy, reviews, parkErrors, metrics, crashes>>

\* Fault: an Emit error is ignored, as ErrDropped is.
FaultIgnoreEmitError(r) ==
  /\ pc[r] = "emit"
  /\ decisions' \in {decisions, decisions \cup {r}}
  /\ pc' = [pc EXCEPT ![r] = "return"]
  /\ UNCHANGED <<in, out, whitelist, count, policy, reviews, parkErrors, metrics, crashes>>

\* Signing or the store fails; the row may have been committed all the same.
EmitFails(r) ==
  /\ pc[r] = "emit"
  /\ decisions' \in {decisions, decisions \cup {r}}
  /\ pc' = [pc EXCEPT ![r] = "fail"]
  /\ UNCHANGED <<in, out, whitelist, count, policy, reviews, parkErrors, metrics, crashes>>

\* Fault: the row of a parked decision replaces the one before it.
FaultOneReview(r) == {r}

\* review_queue.decision_id references policy_decisions: without the row the
\* insert fails.
Parked(r) == IF r \in decisions THEN reviews \cup {r} ELSE reviews

\* finalize ignores the errors of Park.
Park(r) ==
  /\ pc[r] = "park"
  /\ reviews' = Parked(r)
  /\ pc' = [pc EXCEPT ![r] = "return"]
  /\ UNCHANGED <<in, out, whitelist, count, policy, decisions, parkErrors, metrics, crashes>>

ParkFails(r) ==
  /\ pc[r] = "park"
  /\ parkErrors' = parkErrors \cup {r}
  /\ pc' = [pc EXCEPT ![r] = "return"]
  /\ UNCHANGED <<in, out, whitelist, count, policy, decisions, reviews, metrics, crashes>>

\* Fault: only successful evaluations reach the total.
FaultCountSuccess(r) == IF pc[r] = "return" THEN 1 ELSE 0

\* The deferred function of Evaluate runs on every return.
Counted(r) == 1

Return(r) ==
  /\ pc[r] \in {"return", "fail"}
  /\ metrics' = [metrics EXCEPT !.total = @ + Counted(r)]
  /\ pc' = [pc EXCEPT ![r] = IF @ = "return" THEN "done" ELSE "error"]
  /\ UNCHANGED <<in, out, whitelist, count, policy, decisions, reviews, parkErrors, crashes>>

Running(r) == pc[r] \in {"whitelist", "velocity", "rollback", "policy", "finalize",
                         "emit", "park", "return", "fail"}

\* The process dies and boots again from its directory bundle.
Crash ==
  /\ crashes < MaxCrashes
  /\ crashes' = crashes + 1
  /\ pc' = [r \in Requests |-> IF Running(r) THEN "crashed" ELSE pc[r]]
  /\ count' = [a \in Addresses |-> 0]
  /\ metrics' = ZeroMetrics
  /\ policy' = CapsYAML
  /\ UNCHANGED <<in, out, whitelist, decisions, reviews, parkErrors>>

Step(r) ==
  \/ Receive(r) \/ CheckWhitelist(r) \/ WhitelistFails(r) \/ Velocity(r) \/ Rollback(r)
  \/ CheckPolicy(r) \/ EngineError(r) \/ Finalize(r) \/ Emit(r) \/ EmitFails(r) \/ Park(r) \/ ParkFails(r) \/ Return(r)

Next ==
  \/ \E a \in Addresses : AddAddress(a) \/ Verify(a) \/ WindowEnds(a)
  \/ Reload
  \/ \E r \in Requests : Step(r)
  \/ Crash

Spec == Init /\ [][Next]_vars

-----------------------------------------------------------------------------
RollingBack(a) == {r \in Requests : pc[r] = "rollback" /\ in[r].address = a}

\* The counter passes its limit only by the requests that are about to roll back.
TypeOK ==
  /\ whitelist \in [Addresses -> {"ABSENT", "PENDING", "VERIFIED"}]
  /\ count \in [Addresses -> Nat]
  /\ \A a \in Addresses : count[a] <= VelocityCap + Cardinality(RollingBack(a))
  /\ policy \in Policies
  /\ pc \in [Requests -> {"idle", "unauthorized", "rejected", "whitelist", "velocity",
                          "rollback", "policy", "finalize", "emit", "park", "return",
                          "fail", "done", "error", "crashed"}]
  /\ in \in [Requests -> Inputs \cup {NoInput}]
  /\ out \in [Requests -> Outcomes \cup {Unset}]
  /\ decisions \subseteq Requests
  /\ reviews \subseteq Requests
  /\ parkErrors \subseteq Requests
  /\ metrics \in [{"allow", "deny", "manual_review", "total"} -> Nat]
  /\ crashes \in 0 .. MaxCrashes

\* An allow is sound when it reaches the caller: its destination is verified (and
\* not merely was when step 2 looked), the session is in order, every signal is
\* clean, and the amount is below 90% of the cap of its tier, through crashes,
\* reloads and concurrent whitelist changes.  Of the second factor it says what the
\* code asks for, that of high-value card payments: on other rails README.md:75-76
\* expects it too and nothing asks for it, nor that an amount be positive.
AllowIsSound ==
  \A r \in Requests :
    pc[r] = "done" /\ out[r] = "allow" =>
      LET i == in[r] IN
      /\ whitelist[i.address] = "VERIFIED"
      /\ i.transport = "rest" \/ ~AuthEnabled
      /\ i.rail = "card" /\ AmountUSD(i) >= 1000 => i.session_2fa
      /\ i.kyt_verdict = "clean" /\ i.kyc_status = "verified" /\ i.fraud_score < 50
      /\ Tier(i) = "tier_1" => AmountUSD(i) < 900
      /\ AmountUSD(i) <= 2500

\* The decision record is committed before the caller has the decision: a response
\* always has its policy_decisions row, whatever crashed since.
AnsweredIsDurable == \A r \in Requests : pc[r] = "done" => r \in decisions

\* A manual_review response has its review row unless the store refused it: the
\* synchronous persist puts the decision row there before Park refers to it.
ParkedUnlessStoreFails ==
  \A r \in Requests :
    pc[r] = "done" /\ out[r] = "manual_review" => r \in reviews \cup parkErrors

\* The decision counters add up: every evaluation counted in EvaluateTotal is in
\* exactly one of the allow, deny and manual_review counters, and the counters are
\* ahead only by the evaluations still between the two.
MetricsAgree ==
  metrics.allow + metrics.deny + metrics.manual_review =
    metrics.total + Cardinality({r \in Requests : pc[r] \in {"emit", "park", "return", "fail"}})

Severity(d) == CASE d = "allow" -> 0 [] d = "manual_review" -> 1 [] d = "deny" -> 2

\* A higher fraud score never makes the decision on a request milder, whichever of
\* the caps and the rules of the engine decides: deny wins over manual_review and
\* manual_review over allow, with the caps document loaded or lost.
RiskMonotone ==
  \A r \in Requests : pc[r] = "policy" =>
    \A score \in {0, 49, 50, 79, 80, 100} :
      score >= in[r].fraud_score =>
        Severity(Decision([in[r] EXCEPT !.fraud_score = score])) >= Severity(Decision(in[r]))

-----------------------------------------------------------------------------
\* The decision, the queue and the answer as Gate sees them.
RecordBar == [r \in Requests |-> IF r \in decisions THEN out[r] ELSE Unset]

ReviewBar ==
  [r \in Requests |-> IF r \in reviews THEN "queued"
                      ELSE IF r \in parkErrors THEN "refused" ELSE "no"]

AnswerBar ==
  [r \in Requests |-> CASE pc[r] = "done" -> out[r]
                        [] pc[r] \in {"unauthorized", "rejected", "error"} -> "error"
                        [] pc[r] = "crashed" -> "lost"
                        [] OTHER -> Unset]

G == INSTANCE Gate WITH
       None <- Unset, record <- RecordBar, review <- ReviewBar, answer <- AnswerBar

\* The evaluate path keeps the promise of Gate: with requests interleaved, stores
\* that fail after they have committed and crashes between any two steps, each
\* request is decided once, its decision is on record and in the review queue
\* before its caller has it, and no record changes afterwards.
ImplementsGate == G!Spec
=============================================================================
