------------------------------- MODULE Counter --------------------------------
(***************************************************************************)
(* What step 3 of Evaluate has from a velocity.Counter, whichever it is:   *)
(* a number for each user that an Increment raises by one and returns, in  *)
(* one step; a Rollback that takes one off, never below zero; and windows  *)
(* that end at any time, with all that was counted in them.  Only a        *)
(* counter that is not reliable lets a request pass without comparing,     *)
(* denies one without taking its count back, or counts or takes back a     *)
(* request more than once.                                                 *)
(***************************************************************************)
EXTENDS Integers

CONSTANTS
  Requests,
  Users,
  DailyCap,
  Reliable   \* calls never return an error and take effect once

VARIABLES
  owner,    \* user of each request
  count,    \* what Get would return for each user
  verdict   \* "new", "exceeded" until its rollback, then "denied"; or "admitted"

vars == <<owner, count, verdict>>

Init ==
  /\ owner \in [Requests -> Users]
  /\ count = [u \in Users |-> 0]
  /\ verdict = [r \in Requests |-> "new"]

Increment(r) ==
  /\ verdict[r] = "new"
  /\ count' = [count EXCEPT ![owner[r]] = @ + 1]
  /\ verdict' = [verdict EXCEPT ![r] = IF count'[owner[r]] > DailyCap THEN "exceeded" ELSE "admitted"]
  /\ UNCHANGED owner

\* Increment returns an error, having counted the request or not.
Unavailable(r) ==
  /\ ~Reliable
  /\ verdict[r] = "new"
  /\ \E n \in {0, 1} : count' = [count EXCEPT ![owner[r]] = @ + n]
  /\ verdict' = [verdict EXCEPT ![r] = "admitted"]
  /\ UNCHANGED owner

\* The request is counted, and will be again.
CountsAgain(r) ==
  /\ ~Reliable
  /\ verdict[r] = "new"
  /\ count' = [count EXCEPT ![owner[r]] = @ + 1]
  /\ UNCHANGED <<owner, verdict>>

Lowered(n) == IF n > 0 THEN n - 1 ELSE 0

Rollback(r) ==
  /\ verdict[r] = "exceeded"
  /\ count' = [count EXCEPT ![owner[r]] = Lowered(@)]
  /\ verdict' = [verdict EXCEPT ![r] = "denied"]
  /\ UNCHANGED owner

\* Rollback returns an error and has not reached the counter.
KeepsCount(r) ==
  /\ ~Reliable
  /\ verdict[r] = "exceeded"
  /\ verdict' = [verdict EXCEPT ![r] = "denied"]
  /\ UNCHANGED <<owner, count>>

\* The count is taken back, and may be again.
TakesBackAgain(r) ==
  /\ ~Reliable
  /\ verdict[r] = "exceeded"
  /\ count' = [count EXCEPT ![owner[r]] = Lowered(@)]
  /\ UNCHANGED <<owner, verdict>>

\* The windows of the users in S end.
WindowsEnd(S) ==
  /\ count' = [u \in Users |-> IF u \in S THEN 0 ELSE count[u]]
  /\ UNCHANGED <<owner, verdict>>

Next ==
  \/ \E r \in Requests :
       \/ Increment(r) \/ Unavailable(r) \/ CountsAgain(r)
       \/ Rollback(r) \/ KeepsCount(r) \/ TakesBackAgain(r)
  \/ \E S \in SUBSET Users : WindowsEnd(S)

Spec == Init /\ [][Next]_vars
=============================================================================
