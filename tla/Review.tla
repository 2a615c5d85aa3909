-------------------------------- MODULE Review -------------------------------
(***************************************************************************)
(* The manual-review queue (internal/review): finalize parks a pending row *)
(* per manual_review decision; reviewers call Resolve, which reads the     *)
(* row, overwrites it and posts the resolution to the Transaction          *)
(* Orchestrator, which holds the saga of the transaction until then.       *)
(* Resolve calls run concurrently: Service.mu covers only the clock, so    *)
(* the store's Get and Update are separate steps.                          *)
(***************************************************************************)
EXTENDS Integers, FiniteSets

CONSTANTS
  Items,         \* decision ids of manual_review decisions
  Calls,         \* Resolve requests
  Notify,        \* TRUE when TX_ORCHESTRATOR_WEBHOOK_URL is set
  MaxFailures    \* bound: 5xx answers and network errors of the webhook

Resolutions == {"ALLOW", "DENY"}
Attempts == 3                           \* attempts of NotifyResolution

ASSUME ReviewAssumption ==
  /\ MaxFailures \in Nat
  /\ Notify \in BOOLEAN

VARIABLES
  row,       \* review_queue: absent, pending, or the resolution of the item
  pc,        \* progress of each Resolve call, then its outcome
  item,      \* the item each call is about
  choice,    \* the resolution each call asks for
  tries,     \* webhook attempts each call has made
  saga,      \* what the orchestrator has resumed the saga with
  failures,  \* webhook failures so far
  late,      \* history: calls that began after another one on the item returned
  wrote,     \* history: calls whose Update reached the store
  cut        \* history: calls ended by a crash, a store error, a 4xx or their caller

vars == <<row, pc, item, choice, tries, saga, failures, late, wrote, cut>>

Init ==
  /\ row = [i \in Items |-> "ABSENT"]
  /\ pc = [c \in Calls |-> "idle"]
  /\ item \in [Calls -> Items]
  /\ choice \in [Calls -> Resolutions]
  /\ tries = [c \in Calls |-> 0]
  /\ saga = [i \in Items |-> "HELD"]
  /\ failures = 0
  /\ late = {}
  /\ wrote = {}
  /\ cut = {}

-----------------------------------------------------------------------------
\* Service.Park, called by finalize; decision ids are fresh, so Put never
\* meets a row of the same id.
Park(i) ==
  /\ row[i] = "ABSENT"
  /\ row' = [row EXCEPT ![i] = "PENDING"]
  /\ UNCHANGED <<pc, item, choice, tries, saga, failures, late, wrote, cut>>

-----------------------------------------------------------------------------
\* Fault: the status of the row is not looked at.
FaultNoStatusCheck(c) == IF row[item[c]] = "ABSENT" THEN "not_found" ELSE "update"

\* What Resolve does with the row it has read: go on to Update, or return.
Checked(c) ==
  CASE row[item[c]] = "ABSENT"  -> "not_found"
    [] row[item[c]] = "PENDING" -> "update"
    [] OTHER                    -> "conflict"

Get(c) ==
  /\ pc[c] = "idle"
  /\ pc' = [pc EXCEPT ![c] = Checked(c)]
  /\ late' = IF \E o \in Calls : pc[o] = "ok" /\ item[o] = item[c]
             THEN late \cup {c} ELSE late
  /\ UNCHANGED <<row, item, choice, tries, saga, failures, wrote, cut>>

\* Fault: the row is overwritten as it was read, without the resolution.
FaultStaleWrite(c) == "PENDING"

\* The row Update writes: the one read by Get with status and resolution set.
Resolved(c) == choice[c]

\* Update overwrites the row whatever it holds by now.
Update(c) ==
  /\ pc[c] = "update"
  /\ row' = [row EXCEPT ![item[c]] = Resolved(c)]
  /\ wrote' = wrote \cup {c}
  /\ pc' = [pc EXCEPT ![c] = IF Notify THEN "post" ELSE "ok"]
  /\ UNCHANGED <<item, choice, tries, saga, failures, late, cut>>

\* Fault: the error of Update is ignored, as the error of the webhook is.
FaultIgnoreUpdateError(c) ==
  /\ pc[c] = "update"
  /\ pc' = [pc EXCEPT ![c] = IF Notify THEN "post" ELSE "ok"]
  /\ UNCHANGED <<row, item, choice, tries, saga, failures, late, wrote, cut>>

\* The store fails in Get or Update; a failed Update may have been committed.
StoreFails(c) ==
  /\ pc[c] \in {"idle", "update"}
  /\ \/ UNCHANGED <<row, wrote>>
     \/ /\ pc[c] = "update"
        /\ row' = [row EXCEPT ![item[c]] = Resolved(c)]
        /\ wrote' = wrote \cup {c}
  /\ pc' = [pc EXCEPT ![c] = "error"]
  /\ cut' = cut \cup {c}
  /\ UNCHANGED <<item, choice, tries, saga, failures, late>>

-----------------------------------------------------------------------------
\* The orchestrator (external): the Idempotency-Key is the decision id, so the
\* first request about an item resumes its saga and later ones do nothing.
Received(c) ==
  [saga EXCEPT ![item[c]] = IF @ = "HELD" THEN choice[c] ELSE @]

\* One turn of the loop of NotifyResolution: answered 2xx ...
PostOK(c) ==
  /\ pc[c] = "post"
  /\ saga' = Received(c)
  /\ tries' = [tries EXCEPT ![c] = @ + 1]
  /\ pc' = [pc EXCEPT ![c] = "ok"]
  /\ UNCHANGED <<row, item, choice, failures, late, wrote, cut>>

\* ... 4xx, which ends the loop; Resolve ignores the error ...
PostRejected(c) ==
  /\ pc[c] = "post"
  /\ tries' = [tries EXCEPT ![c] = @ + 1]
  /\ pc' = [pc EXCEPT ![c] = "ok"]
  /\ cut' = cut \cup {c}
  /\ UNCHANGED <<row, item, choice, saga, failures, late, wrote>>

\* Fault: one attempt fewer.
FaultGiveUpEarly(n) == n + 1 >= Attempts

\* The loop condition: no attempt is left after n of them.
GiveUp(n) == n >= Attempts

\* ... 5xx or a network error, before or after the request was acted on.
PostFails(c) ==
  /\ pc[c] = "post"
  /\ failures < MaxFailures
  /\ failures' = failures + 1
  /\ saga' \in {saga, Received(c)}
  /\ tries' = [tries EXCEPT ![c] = @ + 1]
  /\ pc' = [pc EXCEPT ![c] = IF GiveUp(tries'[c]) THEN "ok" ELSE "post"]
  /\ UNCHANGED <<row, item, choice, late, wrote, cut>>

\* The reviewer's request is cancelled while the loop backs off.
Cancelled(c) ==
  /\ pc[c] = "post"
  /\ tries[c] > 0
  /\ pc' = [pc EXCEPT ![c] = "ok"]
  /\ cut' = cut \cup {c}
  /\ UNCHANGED <<row, item, choice, tries, saga, failures, late, wrote>>

\* The process dies with the calls in it; rows and sagas are elsewhere.
Crash ==
  /\ \E c \in Calls : pc[c] \in {"update", "post"}
  /\ pc' = [c \in Calls |-> IF pc[c] \in {"update", "post"} THEN "crashed" ELSE pc[c]]
  /\ cut' = cut \cup {c \in Calls : pc[c] \in {"update", "post"}}
  /\ UNCHANGED <<row, item, choice, tries, saga, failures, late, wrote>>

Resolve(c) ==
  \/ Get(c) \/ Update(c) \/ StoreFails(c)
  \/ PostOK(c) \/ PostRejected(c) \/ PostFails(c) \/ Cancelled(c)

Next ==
  \/ \E i \in Items : Park(i)
  \/ \E c \in Calls : Resolve(c)
  \/ Crash

\* A Resolve call in progress keeps running: its goroutine is scheduled, the
\* store answers and the webhook client times out.
Fairness == \A c \in Calls : WF_vars(pc[c] # "idle" /\ Resolve(c))

Spec == Init /\ [][Next]_vars /\ Fairness

-----------------------------------------------------------------------------
TypeOK ==
  /\ row \in [Items -> {"ABSENT", "PENDING"} \cup Resolutions]
  /\ pc \in [Calls -> {"idle", "update", "post", "ok", "not_found", "conflict",
                       "error", "crashed"}]
  /\ item \in [Calls -> Items]
  /\ choice \in [Calls -> Resolutions]
  /\ tries \in [Calls -> 0 .. Attempts]
  /\ saga \in [Items -> {"HELD"} \cup Resolutions]
  /\ failures \in 0 .. MaxFailures
  /\ late \subseteq Calls
  /\ wrote \subseteq Calls
  /\ cut \subseteq Calls

\* A Resolve call that begins after another one on the same item has returned
\* its item never succeeds: it ends in ErrAlreadyResolved or a store error.
\* Only calls that overlap can both get past the status check of Resolve.
NoLateSuccess == \A c \in late : pc[c] \in {"conflict", "error"}

\* The orchestrator never resumes a saga before the review row says so: Resolve
\* posts after Update, and an Update that fails ends the call.  So a crash at any
\* point leaves a row that accounts for what the orchestrator was told.
ToldOnlyResolved == \A i \in Items : saga[i] # "HELD" => row[i] \in Resolutions

\* The saga resumes with the resolution the row holds, unless two calls on the
\* item overlapped in Resolve and both reached Update.
SagaAgrees ==
  \A i \in Items :
    saga[i] \in {"HELD", row[i]}
      \/ \E c, o \in wrote : c # o /\ item[c] = i /\ item[o] = i

\* Three attempts outlast two transient webhook failures: a resolved row leads
\* to a resumed saga, unless the webhook failed once more than that or a call on
\* the item was cut short by a crash, a store error, a 4xx or its own caller.
SagaResumes ==
  \A i \in Items :
    row[i] \in Resolutions ~>
      saga[i] # "HELD" \/ failures >= Attempts \/ \E c \in cut : item[c] = i

\* What the comment on Resolve says: re-resolving an already-resolved item
\* returns ErrAlreadyResolved, so at most one call on an item returns it.
OneResolution ==
  \A c, o \in Calls : pc[c] = "ok" /\ pc[o] = "ok" /\ item[c] = item[o] => c = o
=============================================================================
