# Verification of the policy-risk-engine

TLA+ models of the policy and risk engine, the TLC instances that check them and
the TLAPS proofs of what matters most. The models are written from the Go and
Rego source; paths below are relative to the repository.

    tlc -workers 2 -config MCVelocity.cfg MCVelocity     # a run
    tlapm VelocityProofs.tla                             # proofs

## 1. The system

The transaction orchestrator asks the engine, by REST or gRPC, whether a crypto
on-ramp transaction may go ahead. `evaluate.Service.Evaluate` answers `allow`,
`deny` or `manual_review` in five steps, and `finalize` makes the answer durable.

| Component | Source | State | Operations that change it | Interacts with |
|---|---|---|---|---|
| Evaluate path | `internal/evaluate/evaluate.go` | none of its own; the request in progress | the steps of `Evaluate`, `finalize` | everything below |
| Velocity counter | `internal/velocity/velocity.go` | count and expiry per user and window | `Increment`, `Rollback` | Evaluate, step 3 |
| Redis counter | `internal/velocity/redis.go` | a Redis key per user and window | the same, as commands | would take the place of the former; `main.go` does not construct it |
| Caps and FX | `internal/caps/caps.go` | none (rules are constants) | - | Evaluate, steps 1 and 4 |
| Decision policy | `policies/decisions.rego`, `caps.yaml` | none | - | engine |
| Policy engine | `internal/engine/engine.go` | bundle; compiler and data store built from it | `Swap` | Evaluate, publisher, reloader |
| Hot reloader | `internal/engine/hotreload.go`, `bundlepoll.go` | the staged bundle | `reloadOnce` | bundle service, engine |
| Bundle poller | `internal/engine/bundlepoll.go` | its goroutine | `Start`, `Stop`; a poll only logs | bundle service |
| Policy rows | `internal/api/rules.go`, `internal/db/audit.go`, `activate.go` | `policies`, `policy_versions`, `policy_decisions` | boot, `POST /v1/policy/rules`, `Put` | engine, other replicas |
| Audit service | `internal/audit/audit.go` | bounded queue, drop counter, stop channel | `Emit`, worker, `Close` | decision store, event log |
| Review queue, notifier | `internal/review/*.go` | review row per decision | `Park`, `Resolve` with the webhook | orchestrator |
| Whitelist | `internal/whitelist/whitelist.go` | status per address | `Add`, `Verify` | Evaluate, step 2 |
| Auth | `internal/api/auth.go` | none; keys are fetched for each call | - | admin handlers, identity provider |
| Metrics | `internal/metrics/metrics.go` | counters | every evaluation | - |
| Stores | `internal/db/*.go` | Postgres rows | the services' Put, Get, Update | - |
| Transport | `internal/api` | none | - | services |
| Wiring and shutdown | `cmd/policy-engine/main.go` | servers, goroutines, deadline | boot, signal, the stops | everything |

What makes it hard:

- Evaluate calls of one user run concurrently, and the velocity step is two
  counter calls with a comparison in between.
- The engine is read by evaluations while two writers, the reloader and the
  publish handler, replace it; the version stamped on a decision is a third read.
- `Resolve` is Get, Update, then a webhook with retries; reviewers overlap, the
  process may crash, the webhook's answer may be lost.
- `Emit` must not block, so the queue overflows; `Close` may come at any time.
- A decision passes a decision row, a queue, a review row and the answer to the
  caller, and any of these steps can fail or be the last before a crash.
- Replicas share the policy rows, found by a SELECT that takes no lock.
- On a Redis counter an increment is two commands, either of which can fail, and the
  client silently sends commands again.
- Shutdown stops two servers, a goroutine and the audit worker, one after the
  other, while handlers still run.

The properties wanted of each part are those of section 3. `PROJECT.json` lists
every hazard at the line where it bites.

## 2. Modules

| Module | Models | State and actions |
|---|---|---|
| `Velocity` | the daily counter and step 3 | `mem` is `MemoryCounter.mem`, `now` its clock. `CheckDaily` is Increment and the comparison, `RollbackDaily` the second call. `at` and `since` are history. |
| `RedisCounter` | the same step on `velocity.RedisCounter` | `key` is the user's key, with its time to live. `IncrementStarts` is INCR, `IncrementEnds` EXPIRE and the comparison, `Rollback` the script; the `...Fails` actions are commands that fail, executed or not, and the `...Resent` actions commands that are executed and that go-redis sends again. `at`, `unset` and `disturbed` are history. |
| `Audit` | `audit.Service` | `emit` is the progress of each Emit call, `queue` the channel, `worker` and `current` the goroutine of `run`, `syncPersist` the field of that name. `CloseStop` and `CloseReturns` are the halves of `Close`. |
| `Review` | `review.Service`, `review.Notifier` | `row` is `review_queue`, `pc` the progress of each Resolve call, `saga` what the orchestrator (external) has resumed with. `late`, `wrote` and `cut` are history. |
| `Engine` | `engine.OPAEngine`, `HotReloader`, `publishRulesHandler` | `bundle` is what Hash and Version report; `active` is what the compiler and the store were built from. A section under `OPAEngine.mu` is one step. `overtaken` is history. |
| `PolicyStore` | the policy rows, and the replicas that write them | `policies`, `active`, `versions` and `decisions` are the tables, `rowID` is `AuditStore.policyVersionID`. A transaction is two steps: the SELECT of `ensurePolicy`, and the rest of it with COMMIT. `Swap` and `HotReload` change what a replica's engine runs (`ran`) and no row. `raced` is history. |
| `Auth` | the token checks of `auth.go`, which do not look at the signature | operators only |
| `Whitelist` | the whitelist handlers behind `authMiddleware` | `whitelist` is the table, `served` the identity provider's keys. `Arrive`, `LookupKey` and `CheckScope` are the middleware; `Get` and `Update` the halves of Verify. `began` is history. |
| `Caps`, `Decisions` | the cap rules; the Rego policy and `decide` | operators only |
| `Evaluate` | the whole evaluate path over its parts | one action per step between two accesses to shared state, for several requests at once; `Crash` is a crash and the reboot by `buildServices`. `parkErrors` is history. |
| `Counter` | what step 3 has from a `velocity.Counter` | abstract: a number per user that Increment raises and compares in one step, Rollback lowers, and the end of a window clears; implemented by `Velocity` and `RedisCounter` |
| `Gate` | what the service promises its callers | abstract: record, review, answer, or refuse; implemented by `Evaluate` |
| `Lifecycle` | `main.go`, with the loops of `HotReloader` and `Poller` | `phase` is how far `run` has got. It extends `Audit`: `Finalize`, `WorkerRuns`, `Close` and `CloseEnds` are the steps of Emit, the worker and Close, taken when the process can take them, and `ProcessSpec` is its specification. |
| `*Proofs` | - | the proofs, one module per component; those about `Audit` are in `LifecycleProofs`, as `Lifecycle` extends it |
| `MC*` | - | instances for TLC |

`Evaluate` and `Lifecycle` compose. `Evaluate` uses `Caps` and `Decisions` as they
are and keeps of the velocity counter, the audit service, the review queue, the
whitelist and the engine what one request sees of them (a count that may expire at
any time, a row that is there when Emit returns, a row that Park adds, a status that
only advances, the data the policy runs on). That the parts do behave so is what
the properties of their own modules say: `RollbackIsExact`, `DurableBeforeResponse`,
`StatusOnlyAdvances`, `OneBundlePerEvaluation`. `Lifecycle` extends `Audit`,
takes it whole and surrounds it with the process.

`Counter` is that count by itself. The map of `Velocity` holds entries that have
expired until the next Increment, and `RedisCounter` takes two commands for an
Increment; `ImplementsCounter` says, in each of them, that neither shows. The mapping
for `Velocity` is what `Get` returns; that for `RedisCounter` gives a request between
INCR and EXPIRE the verdict that it is bound to reach, so that Increment takes effect
at the INCR whose answer it has. Commands that fail or are executed twice are failures
of the abstract counter (`Unavailable`, `KeepsCount`, `CountsAgain`, `TakesBackAgain`),
which `Velocity` is shown never to need (`Reliable`).

`Gate` has three variables per request: the decision on record, its place in the
review queue and the answer. The refinement mapping reads the first off the
decision rows, the second off the review rows and the refusals of Park, the third
off the progress of the request. `ImplementsGate` is the whole of `Gate!Spec` under
that mapping.

Operators whose name starts with `Fault` are plausible mistakes in the code. No
specification uses them. Each is put in the place of a definition that follows it to
see that the properties notice.

**Abstractions.** Amounts are whole dollars, fraud scores and FX rates hundredths.
Rego sources are model values, some of which compile. A hash is the tuple of what
it covers, so bundle hashes do not collide; the numbers `versionToInt` folds them
into do, in `PolicyStore`. A token is what its header and payload decode to, which is
all that the code looks at. Reasons,
applied rules, labels and the risk score are left out, since no decision depends on
them. A call to a store is atomic and may fail; a failed write may have reached the
database all the same. The in-memory and the Postgres stores behave alike at this
level, except for who persists a decision (`syncPersist`).

## 3. Runs

| Run | Instance | Checks |
|---|---|---|
| `velocity` | 4 requests, 2 users, cap 2, window 2, 5 ticks | `WindowLimit`: no interval of a window's length admits more than the cap. `RollbackIsExact`: the compensation takes off one, always. `DeniedOnlyByFullEntry`: a denial rests on a full count of admitted requests since the entry was made, and on an attempt, admitted or denied, in the last window. `ImplementsCounter`: the map implements `Counter`. |
| `redis` | 4 requests, cap 2, window 2, 4 ticks, any command may fail, 1 is executed twice | `WindowLimit`: the same limit, unless a command of Increment failed, the key expired between INCR and EXPIRE, or a rollback was executed twice. `NoTTLOnlyByFailure`: a count that never expires comes from an EXPIRE that failed. `ImplementsCounter`: the commands implement `Counter`. |
| `audit` | 4 records, queue of 2, both modes | `DurableBeforeResponse`, `PublishedIsStored`, `UncountedOnlyAtClose`: what is not published is counted or was left on the queue at Close; `AcceptedIsHandled` and `CloseTerminates` under fairness. |
| `review` | 3 calls on 1 item, 3 webhook failures, every other fault | `NoLateSuccess`, `ToldOnlyResolved`, `SagaAgrees`; `SagaResumes` under fairness. |
| `engine` | 3 sources, 1 not compiling; 1 publish, 1 evaluation, 2 changes of the served source | `OneBundlePerEvaluation`, `StaysAvailable`, `DriftOnlyUnvalidated`, `StampedUnlessOvertaken`; `Converges` under fairness. |
| `policy_store` | 2 replicas, 3 versions, 2 of which collide, 4 transactions, swaps, crashes | `RowNamesItsVersion`: before a swap, decisions name the version that made them. `ActiveIsComplete`, `RewrittenOnlyByCollision`. `SecondPolicyOnlyByRace`: only overlapping first transactions make two policies. |
| `whitelist` | 3 calls on 1 entry, 6 kinds of token, 3 configurations, 1 key | `ChangesNeedClaims`: a change needs claims in order and a key id that is served. `StatusOnlyAdvances`, `VerifiedLasts`. |
| `evaluate` | 3 requests of one user, velocity cap 1, 1 crash | `AllowIsSound`, `AnsweredIsDurable`, `ParkedUnlessStoreFails`, `MetricsAgree`, and `ImplementsGate`: the path implements `Gate`. |
| `evaluate_inputs` | 1 request; 16 amounts at the thresholds, 4 scores, 4 tiers, 2 rails, 3 verdicts, both transports | `RiskMonotone`: a higher fraud score never makes a decision milder. |
| `lifecycle` | 2 requests over either transport, audit queue of 1, with and without gRPC and bundle goroutine | `CutOnlyLate`, `CloseComesLast`; `ShutdownTerminates` under fairness: a signal ends the process unless its boot or a gRPC call never ends. |

`evaluate` also checks its type invariant, which bounds the count. Those of the other
components are proved (section 4).

**Bounds.** The velocity cap is reached with two requests to spare, and five ticks hold
two windows and a half, four on Redis two; a Redis request that is held for a tick sees
its key expire under it, and one repetition reaches each of the three commands. Four
records overfill a queue of two while the worker holds one. Three calls give two that
overlap and one that comes after, for Resolve and for Verify. Three webhook failures
exhaust a call. Two changes of the served source let the reloader be overtaken between
fetch and swap. Four transactions let both replicas boot at once, one publish, and one
crash and boot again. With one entry every pair of whitelist calls meets; entries do not
share rows. Two requests and a queue of one give a shutdown with a call on each
transport, and a record that is dropped. Requests are finite in number, so most
instances stop and deadlock is not checked there; the reloader of `engine` never stops
and it is. Symmetry is used for requests, calls, replicas, policy ids and the two
colliding versions, in runs without liveness.

**Fairness.** `Audit`: the worker goroutine runs on, because Put and Publish return
(Publish has a 5s timeout); Emit and Close are left to their callers. `Review`: a
call in progress goes on, because the store answers and the HTTP client has a
timeout; starting a call is not fair. `Engine`: the ticker keeps firing and a fetch
succeeds in the end; nothing is assumed of publishers and evaluations. `Velocity`:
a started rollback is done. `Lifecycle`: `run` and the worker go on when they can;
timers fire; a fetch ends within 10s. Go's
`select` chooses at random among ready cases, so the goroutine that polls cannot
take the ticker's case for ever while a stop is pending: strong fairness of
`PollStops`. Nothing is assumed of boot and of handlers, whose calls of the store have
no deadline. GracefulStop waits for gRPC handlers without one either (`main.go:107`), so
`ShutdownTerminates` says that the process ends or stays for good in its boot or in
GracefulStop. The other modules have no liveness property and no fairness.

### Disagreements between the code and what it says of itself

Two runs are expected to end in a counterexample.

| Run | What is written | What the code does |
|---|---|---|
| `review_double` | `review.go:92` "Re-resolving an already-resolved item returns ErrAlreadyResolved" | two overlapping calls both pass the check (`review.go:106`) and both succeed |
| `policy_activate` | `README.md:185` "does not activate unless `activate=true`" | `rules.go:42` activates the version in the database whatever the parameter is |

Visible in the models, but without a run of their own:

- Every Increment restarts the expiry of the whole counter (`velocity.go:125`), a
  denied one included, so a user who keeps trying stays over the cap long after the
  admitted requests have left the window, against "Rolling windows" in `README.md:57`
  (`Velocity!Incremented`). `DeniedOnlyByFullEntry` says what is left of it: a user who
  makes no attempt for a window is not denied.
- On Redis a rollback whose answer is lost is sent again by the client and takes off
  what another request counted (`redis.go:81`), so that the limit is passed
  (`RedisCounter!RollbackResent`; `WindowLimit` excepts it). `main.go` does not use it.
- The velocity step compares a count of requests with an amount in USD
  (`evaluate.go:162`), and the per-minute and per-hour windows are never used.
- `run` returns on `stopCh` with records queued (`audit.go:198`), against "Close drains
  and stops the worker" in `audit.go:237`; they are neither published nor counted
  (`Audit!WorkerStops`; `UncountedOnlyAtClose` says that no others go uncounted, and
  `CloseComesLast` that only late requests add to them).
- A failed Publish is not tried again (`audit.go:193`), against "at-least-once" in
  `PROJECT_PLAN.md:176` (`Audit!PublishFails`).
- The version on a decision is read after the evaluation (`evaluate.go:212`), so a swap
  in between stamps another one, against `README.md:114`
  (`StampedUnlessOvertaken` says when).
- Nothing compiles a published source; if it does not compile, `rebuild` keeps the old
  compiler (`engine.go:173`) under the new version, against `rules.go:15`
  (`DriftOnlyUnvalidated`).
- A hot reload brings a bundle without data (`bundlepoll.go:65`), and `allow` needs
  `data.caps`, against `decisions.rego:7` (`Evaluate!Reload`).
- `rules.go:65` hashes the data of the active bundle into the version, so a source
  re-published after a hot reload gets another version, against `rules.go:18`
  (`Engine!PublishBundle`).
- `policy_decisions.policy_version` is the row of the version at boot
  (`db/audit.go:59`), also for decisions of a policy swapped in later, against
  `README.md:108` and `db/audit.go:16` (`RowNamesItsVersion` covers the decisions before
  a swap and excepts the others). The version on the record itself is not written to
  the row.
- Versions are folded into nine million numbers (`db/audit.go:116`), and a collision
  overwrites the row's hash, against "never mutate existing rows" in
  `PROJECT_PLAN.md:155` (`RewrittenOnlyByCollision`). The row made at boot has an empty
  source, which a later publish of the same version does not fill in.
- Replicas that boot together on an empty database make a policy row each, as scope
  is not unique, against "one row per logical policy scope" in `README.md:208`
  (`SecondPolicyOnlyByRace` says that this is the only way to get two). Both stay.
- The rules handlers answer from the engine in memory, so only the current version
  can be fetched, against `README.md:101`.
- `parseAndValidate` looks the key of a token up and then drops it (`auth.go:184-188`):
  no signature is ever verified, against "performs local signature verification" in
  `auth.go:128` and "verifies the signature" in `auth.go:146-147`. `ChangesNeedClaims` is
  therefore about what a token claims, and no more (`Auth!ParseAndValidate`).
- `fetchJWKS` fetches the key set for each call, against "fetches and caches" in
  `auth.go:212` (`Whitelist!FetchJWKS`).
- A duplicate Add and a second Verify are answered as internal errors
  (`api.go:124`), as is an Add without chain or address (`Whitelist!ToAppError`).
- A near-cap amount is sent to review before the policy is asked (`evaluate.go:180`),
  so a fraud score of 0.8 is not denied there, against `README.md:323`
  (`Evaluate!Decision`).
- The second factor is asked for on the card rail only (`caps.go:146`), so an ach
  transaction of the same amount is allowed without it, against `README.md:75-76` and
  `PROJECT_PLAN.md:122` (`Caps!HighValue2FARequired`; `AllowIsSound` asks for it where the
  code does).
- gRPC requests never carry a valid session when JWT auth is on (`grpc.go:40`),
  against `grpc.go:27` (`Evaluate!SessionFlag`).
- The error of Park is ignored (`evaluate.go:252`), against `README.md:91`
  (`Evaluate!ParkFails`; `ParkedUnlessStoreFails` says when it matters).
- Amounts need not be positive (`evaluate.go:268`), against `PROJECT_PLAN.md:62`; a
  negative one may be allowed.
- The webhook is attempted three times, so retried twice (`notifier.go:51`), against
  `notifier.go:36` (`Review!GiveUp`).
- Neither boot nor GracefulStop (`main.go:107`) has a deadline of its own beyond that of
  Connect, so a store call that hangs keeps a process that was told to stop
  (`Lifecycle!Unbounded`).
- Resolve writes no follow-up audit record, against `PROJECT_PLAN.md:145`.
- The drop and rollback metrics are never set, the review gauge only grows
  (`evaluate.go:253`), and the counter of hot-reload swaps counts publishes
  (`rules.go:49`).

## 4. Proofs

For every number of requests, users, records, items, calls, replicas and versions,
and every bound:

| Theorem | States |
|---|---|
| `VelocityProofs!TypeCorrect` | `Spec => []TypeOK` |
| `VelocityProofs!DailyLimitHolds` | `Spec => []WindowLimit` |
| `VelocityProofs!RollbackExact` | `Spec => RollbackIsExact` |
| `VelocityProofs!DenialsExplained` | `Spec => DeniedOnlyByFullEntry` |
| `VelocityProofs!RefinesCounter` | `Spec => ImplementsCounter` |
| `RedisCounterProofs!TypeCorrect` | `Spec => []TypeOK` |
| `RedisCounterProofs!LimitHolds` | `Spec => []WindowLimit` |
| `RedisCounterProofs!LockedOutOnlyByFailure` | `Spec => []NoTTLOnlyByFailure` |
| `RedisCounterProofs!RefinesCounter` | `Spec => ImplementsCounter` |
| `RedisCounterProofs!RollbackExact` | `Spec => [][\A r \in Requests : FindsCount(r)]_vars` |
| `LifecycleProofs!AuditTypeCorrect` | `Spec => []TypeOK` |
| `LifecycleProofs!SyncIsDurable` | `Spec => []DurableBeforeResponse` |
| `LifecycleProofs!NothingUnstoredPublished` | `Spec => []PublishedIsStored` |
| `LifecycleProofs!LossesCounted` | `Spec => []UncountedOnlyAtClose` |
| `ReviewProofs!TypeCorrect` | `Spec => []TypeOK` |
| `ReviewProofs!LateCallsFail` | `Spec => []NoLateSuccess` |
| `ReviewProofs!NeverToldTooEarly` | `Spec => []ToldOnlyResolved` |
| `ReviewProofs!SagaFollowsRow` | `Spec => []SagaAgrees` |
| `EvaluateProofs!Typing` | `Spec => []TypeOK` |
| `EvaluateProofs!AllowSound` | `Spec => []AllowIsSound` |
| `EvaluateProofs!AnswerDurable` | `Spec => []AnsweredIsDurable` |
| `EvaluateProofs!AnswerParked` | `Spec => []ParkedUnlessStoreFails` |
| `EvaluateProofs!MetricsAddUp` | `Spec => []MetricsAgree` |
| `EvaluateProofs!FraudMonotone` | `Spec => []RiskMonotone` |
| `EvaluateProofs!Refinement` | `Spec => ImplementsGate` |
| `EngineProofs!Typing` | `Spec => []TypeOK` |
| `EngineProofs!OneBundle` | `Spec => []OneBundlePerEvaluation` |
| `EngineProofs!NoReloadDrift` | `Spec => []DriftOnlyUnvalidated` |
| `EngineProofs!Stamped` | `Spec => []StampedUnlessOvertaken` |
| `EngineProofs!Available` | `Spec => StaysAvailable` |
| `PolicyStoreProofs!Typing` | `Spec => []TypeOK` |
| `PolicyStoreProofs!RowNamesVersion` | `Spec => []RowNamesItsVersion` |
| `PolicyStoreProofs!ActiveComplete` | `Spec => []ActiveIsComplete` |
| `PolicyStoreProofs!Rewrites` | `Spec => RewrittenOnlyByCollision` |
| `PolicyStoreProofs!OnePolicy` | `Spec => []SecondPolicyOnlyByRace` |
| `WhitelistProofs!Typing` | `Spec => []TypeOK` |
| `WhitelistProofs!NeedClaims` | `Spec => ChangesNeedClaims` |
| `WhitelistProofs!OnlyAdvances` | `Spec => StatusOnlyAdvances` |
| `WhitelistProofs!Lasts` | `Spec => []VerifiedLasts` |
| `LifecycleProofs!Typing` | `ProcessSpec => []ProcessTypeOK` |
| `LifecycleProofs!CutLate` | `ProcessSpec => []CutOnlyLate` |
| `LifecycleProofs!CloseLast` | `ProcessSpec => []CloseComesLast` |
| `LifecycleProofs!RunsAuditService` | `ProcessSpec => Init /\ [][Next]_vars` |
| `LifecycleProofs!ProcessKeepsRecords` | `ProcessSpec => [](DurableBeforeResponse /\ PublishedIsStored /\ UncountedOnlyAtClose)` |

In `LifecycleProofs`, `Init`, `Next`, `vars` and `Spec` are those of `Audit`.

Each module follows one plan: an inductive invariant `IInv` that implies the
invariants, one lemma or step per action that preserves it, and action properties
from `IInv` and the step.

**Velocity.** The limit is not inductive: a live counter must be tied to the requests it
stands for. `Counted` says that the value is at least the number of counted requests
less than a window old, `Covered` that the entry outlives all of them, and
`NotOvercounted` that it counts nothing but requests admitted since the entry was made
and rollbacks that are due. `Prompt` carries the assumption that a request is not held
between its two calls for longer than a window (`MaxHold \in 0..Window`): the calls are
consecutive statements and the shortest window is 60s. `DenialsExplained` also needs
`Kept`: an entry is as old as the user's last attempt, whatever became of it. For
`RefinesCounter` a tick under which entries expire ends the windows of their users; the
other steps correspond one to one.

**RedisCounter.** The same limit, with three differences. A request is counted from its
INCR on and protected only from its EXPIRE on, so `Covered` asks two things of the key:
that it is there for a request between the two, and that it outlives one past them (or
has no time to live at all). The value a request compares is old by then, so the limit
is kept for those that are bound to pass (`Passing`), from INCR on: `Limited` is
inductive where `WindowLimit` is not. And all this is conditional: `disturbed` says that
a command of Increment failed, that the key expired between INCR and EXPIRE, or that a
rollback was executed twice, and `IInv` is `disturbed \/ Tracked` beside what holds
unconditionally (`Past`, `Prompt`, `NoTTLOnlyByFailure`). `RollbackExact` is the
counterpart of `RollbackIsExact`: while nothing disturbs the key, a rollback finds the
request's count there and keeps the time to live. It is not needed for
`NoTTLOnlyByFailure`, which holds after disturbances as well: the clamp removes the time
to live together with the count. `RefinesCounter` needs no more than the types.

**Audit.** The invariant is `AuditInv`, in `LifecycleProofs`. `Holds` says what the
worker has in hand, `Travelling` that only accepted records are queued or in hand, and
`Persisted` which records are stored at which point. `GivenUp` are the records that are
not published, in hand or queued; that they are counted (`Counted`) is inductive: a
step gives up at most one, and counts a drop when it does (lemmas `CountedLoss`,
`NoLoss`). What is lost is given up or left (`LostIsCountedOrLeft`).

**Review.** The properties speak of rows and sagas, and the invariant of the calls
that made them: `Written` says that a call past Update has written and that its
item's row is resolved, `RowHasWriter` and `SagaHasWriter` that each resolved row
and each resumed saga holds the choice of a call that wrote. Saga and row can then
differ only if two calls wrote.

**Engine.** `Writers` says what the reloader and the publish requests have in hand:
a bundle on its way to the swap has been validated or is of the kind that need not
be. `Drift` is then inductive: what the engine names and does not run does not
compile. `Snapshots` ties an evaluation to the engine: until a swap overtakes it,
its snapshot is what the engine runs, which with `Drift` gives the version it is
stamped with.

**PolicyStore.** `Rows` says that the number of a row's hash is the row's, through
overwrites, and that an active version is one of the policy's own rows; `Serving`
that a replica past its boot has a policy and a row for the version it booted with,
and that what its transaction writes at boot is that version. `Decided` carries the
latter over to the decisions, which outlive the replica. Rows are only added
(`Kept`), so a replica's references survive the steps of the others. For `OnePolicy` the
invariant is `OneClaim`: without a race, the policies that are there and those that
open transactions have found or are about to insert are one and the same.

**Whitelist.** The middleware's condition on a token is checked in three steps while
time passes and keys go. `Cleared` says at each of them what is left: at the key lookup,
if the key is still served and the scope fits then the call's claims were in order when
it arrived (`ClaimsInOrder`). This is inductive because keys are only withdrawn.
`Lasting` says that what a Verify reported is in the table, and that a Verify between
its two statements is not about an entry that was already reported verified.

**Evaluate.** `OnItsWay` says of each request what its steps so far have established:
the session, the whitelist, what a decision rests on (`Cleared`), and which rows are
there at which point of `finalize`. The metrics and the velocity bound are counts
over the requests at given points. `RiskMonotone` is about `Decision` alone. For
`Refinement` each action is shown to be a step of `Gate` or to leave the mapped
variables alone; `OnItsWay` supplies that a request has at most one record and that
its outcome does not change once it is recorded.

**Lifecycle.** One conjunct for each thing that is over by a phase: `GrpcOver`,
`RestOver`, `PollOver`; `CutAtEnd` says that requests are cut off by the end of the
process only. What is needed of the audit service is not proved again:
`RunsAuditService` shows that every step of the process is a step of `Audit` or leaves
its variables alone, so that its invariant holds in the process (`ProcessAuditInv`), and
with it the properties of `ProcessKeepsRecords`. Not its fairness: the worker ends with
the process, so that `AcceptedIsHandled` does not carry over and `ShutdownTerminates`
takes its place.

Assumptions: the named `ASSUME`s of the modules. They say that sets are finite where
they are counted, that bounds are natural numbers, that the audit queue has a
capacity, that inputs are records of the right shape, and that `uuid.Nil` is no id.

Only model-checked: liveness (`AcceptedIsHandled`, `CloseTerminates`, `SagaResumes`,
`Converges`, `ShutdownTerminates`), since TLAPS 1.4.5 does not handle fairness, which
rests on ENABLED. Every invariant, action property and refinement that a run checks
is also proved. No module has a RECURSIVE operator or a theorem that needs induction
over data.

## 5. Not modelled

- Connecting and migrating: a retry loop and a library. Failing is
  `Lifecycle!BootFails`.
- Generated protobuf code, rendering of metrics, JSON and base64, TLS set-up.
- Handlers that only read: the rules, the review list. `List` of the whitelist is
  modelled because `VerifiedLasts` speaks of it.
- Signatures of records: nothing verifies a stored record, and the key lives as long as
  the process.
- The step from `Counter` to `Evaluate`. Both implementations are proved to implement
  `Counter`, and step 3 of `Evaluate` raises, lowers and clears its count as `Counter`
  does; but whether a finished request of `Evaluate` was denied by this step or by
  another is not in its state, so the correspondence is by inspection.
- The publish handler's rows and its swap are in two modules, `PolicyStore` and
  `Engine`; `PolicyStore` keeps of the engine only which versions it has run.
- Schedulers and locks below the level of a mutex, a channel operation and a
  statement.
