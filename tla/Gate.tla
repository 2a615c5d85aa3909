--------------------------------- MODULE Gate ---------------------------------
(***************************************************************************)
(* What the service promises its callers, with no word on how: a request   *)
(* gets at most one answer; the answer is the decision on record, which    *)
(* was made once, is never altered, and outlives the process; a request    *)
(* for manual review is in the review queue before it is answered, unless  *)
(* the queue refused it; whatever goes wrong, the caller gets an error or  *)
(* nothing, never a decision without a record.                             *)
(***************************************************************************)
CONSTANTS
  Requests,
  Outcomes,  \* the decisions, "manual_review" among them
  None       \* no decision, no answer

VARIABLES
  record,  \* the decision on record for each request
  review,  \* "no", "queued" or "refused" by the review queue
  answer   \* what the caller of each request has got

vars == <<record, review, answer>>

Init ==
  /\ record = [r \in Requests |-> None]
  /\ review = [r \in Requests |-> "no"]
  /\ answer = [r \in Requests |-> None]

Record(r) ==
  /\ record[r] = None /\ answer[r] = None
  /\ \E d \in Outcomes : record' = [record EXCEPT ![r] = d]
  /\ UNCHANGED <<review, answer>>

Review(r) ==
  /\ record[r] = "manual_review" /\ review[r] = "no" /\ answer[r] = None
  /\ \E s \in {"queued", "refused"} : review' = [review EXCEPT ![r] = s]
  /\ UNCHANGED <<record, answer>>

Answer(r) ==
  /\ record[r] # None /\ answer[r] = None
  /\ record[r] = "manual_review" => review[r] # "no"
  /\ answer' = [answer EXCEPT ![r] = record[r]]
  /\ UNCHANGED <<record, review>>

Refuse(r) ==
  /\ answer[r] = None
  /\ answer' = [answer EXCEPT ![r] = "error"]
  /\ UNCHANGED <<record, review>>

\* The process dies under the requests of S.
Lose(S) ==
  /\ \A r \in S : answer[r] = None
  /\ answer' = [r \in Requests |-> IF r \in S THEN "lost" ELSE answer[r]]
  /\ UNCHANGED <<record, review>>

Next ==
  \/ \E r \in Requests : Record(r) \/ Review(r) \/ Answer(r) \/ Refuse(r)
  \/ \E S \in SUBSET Requests : Lose(S)

Spec == Init /\ [][Next]_vars
=============================================================================
