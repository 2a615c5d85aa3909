------------------------------ MODULE Velocity ------------------------------
(***************************************************************************)
(* The daily velocity limit: velocity.MemoryCounter (one mutex-protected   *)
(* entry with a time to live per user and window) and its only caller,     *)
(* step 3 of evaluate.Evaluate, which increments the user's daily counter  *)
(* and, when the new value is over the cap, rolls it back in a SECOND call *)
(* and denies.  Requests of the same user run concurrently, so other       *)
(* increments, and the clock, may come between the two calls.              *)
(***************************************************************************)
EXTENDS Integers, FiniteSets

CONSTANTS
  Requests,  \* evaluate calls that reach the velocity step
  Users,
  DailyCap,  \* int64(caps.DefaultDailyCapUSD): compared with a COUNT of requests
  Window,    \* length of the daily window, in clock ticks
  MaxHold,   \* longest time a request takes from Increment to its Rollback
  MaxTime    \* bound on the clock

ASSUME VelocityAssumption ==
  /\ IsFiniteSet(Requests)
  /\ DailyCap \in Nat
  /\ Window \in Nat \ {0}
  \* Rollback is the statement after Increment; the shortest window is 60s.
  /\ MaxHold \in 0..Window
  /\ MaxTime \in Nat

VARIABLES
  now,     \* MemoryCounter.now()
  mem,     \* MemoryCounter.mem: the entry of each user's daily counter
  pc,      \* where each request is in step 3
  owner,   \* user of each request
  at,      \* history: time of each request's Increment
  since    \* history: time the user's present entry was created

vars == <<now, mem, pc, owner, at, since>>

\* An absent entry is one that has always been expired: Increment, Rollback and
\* Get treat the two alike.
NoEntry == [value |-> 0, expiresAt |-> -1]

Init ==
  /\ now = 0
  /\ mem = [u \in Users |-> NoEntry]
  /\ pc = [r \in Requests |-> "new"]
  /\ owner \in [Requests -> Users]
  /\ at = [r \in Requests |-> 0]
  /\ since = [u \in Users |-> 0]

-----------------------------------------------------------------------------
\* now.After(e.expiresAt)
Expired(u) == now > mem[u].expiresAt

\* MemoryCounter.Get
Get(u) == IF Expired(u) THEN 0 ELSE mem[u].value

\* Faults of Increment: an entry that has expired is taken up again; the time to
\* live is set only when the entry is created.
FaultRevives(u) == [value |-> mem[u].value + 1, expiresAt |-> now + Window]
FaultTTLOnCreate(u) ==
  [value |-> Get(u) + 1, expiresAt |-> IF Expired(u) THEN now + Window ELSE mem[u].expiresAt]

\* MemoryCounter.Increment: a fresh entry if there is none alive; the time to
\* live is reset on every call.
Incremented(u) == [value |-> Get(u) + 1, expiresAt |-> now + Window]

\* Fault of Rollback: the entry is cleared.
FaultRollbackClears(u) == [mem[u] EXCEPT !.value = 0]

\* MemoryCounter.Rollback: nothing to do when the entry is gone, and never
\* below zero (ErrNegativeCounter); the time to live stays.
RolledBack(u) ==
  IF Expired(u)
  THEN mem[u]
  ELSE [mem[u] EXCEPT !.value = IF @ = 0 THEN 0 ELSE @ - 1]

\* Whether the counter's new value is over the cap; fault: off by one.
FaultAtCap(v) == v >= DailyCap
OverCap(v) == v > DailyCap

\* Step 3: Increment, then the comparison with the cap.
CheckDaily(r) ==
  LET u == owner[r] IN
  /\ pc[r] = "new"
  /\ mem' = [mem EXCEPT ![u] = Incremented(u)]
  /\ pc' = [pc EXCEPT ![r] = IF OverCap(Get(u) + 1) THEN "exceeded" ELSE "admitted"]
  /\ at' = [at EXCEPT ![r] = now]
  /\ since' = [since EXCEPT ![u] = IF Expired(u) THEN now ELSE @]
  /\ UNCHANGED <<now, owner>>

\* The compensating Rollback of an exceeded request, which is then denied.
RollbackDaily(r) ==
  /\ pc[r] = "exceeded"
  /\ mem' = [mem EXCEPT ![owner[r]] = RolledBack(owner[r])]
  /\ pc' = [pc EXCEPT ![r] = "denied"]
  /\ UNCHANGED <<now, owner, at, since>>

\* The clock.  No request is held between its two calls longer than MaxHold.
Tick ==
  /\ now < MaxTime
  /\ \A r \in Requests : pc[r] = "exceeded" => now < at[r] + MaxHold
  /\ now' = now + 1
  /\ UNCHANGED <<mem, pc, owner, at, since>>

Next ==
  \/ \E r \in Requests : CheckDaily(r)
  \/ \E r \in Requests : RollbackDaily(r)
  \/ Tick

\* A started request runs to its end: nothing between the two calls blocks.
Fairness == \A r \in Requests : WF_vars(RollbackDaily(r))

Spec == Init /\ [][Next]_vars /\ Fairness

-----------------------------------------------------------------------------
TypeOK ==
  /\ now \in Nat
  /\ mem \in [Users -> [value : Nat, expiresAt : -1..(now + Window)]]
  /\ pc \in [Requests -> {"new", "exceeded", "admitted", "denied"}]
  /\ owner \in [Requests -> Users]
  /\ at \in [Requests -> Nat]
  /\ since \in [Users -> Nat]

\* The requests of u admitted in the closed interval from s to t.
Admitted(u, s, t) ==
  {r \in Requests : owner[r] = u /\ pc[r] = "admitted" /\ at[r] \in s..t}

\* In every interval of one window length, wherever it starts, at most DailyCap
\* requests of a user pass the velocity step of Evaluate, however increments,
\* rollbacks and expiry interleave.
WindowLimit ==
  \A u \in Users : \A s \in 0..now : Cardinality(Admitted(u, s, s + Window)) <= DailyCap

\* The compensating Rollback always finds the entry its own Increment counted
\* in: it takes one off a positive value, never hits the clamp
\* (ErrNegativeCounter) and never misses because the entry has expired.
RollbackIsExact ==
  [][\A r \in Requests : pc[r] = "exceeded" /\ pc'[r] = "denied" =>
       mem'[owner[r]].value = mem[owner[r]].value - 1]_vars

\* The requests of u that came to the counter, whatever it made of them, in the
\* window that ends now.
Attempts(u) == {r \in Requests : owner[r] = u /\ pc[r] # "new" /\ now <= at[r] + Window}

\* What a velocity denial of Evaluate rests on: DailyCap requests of the user were
\* admitted since the entry was created, so that increments that are rolled back
\* take no place in it, and the user's last attempt is at most a window old, so that
\* who stays away for longer is not denied.  The admissions may be older than
\* that: Increment restarts the time to live of the entry also for requests that
\* are then denied (velocity.go:125), and these may keep it for ever.
DeniedOnlyByFullEntry ==
  [][\A r \in Requests : pc[r] = "new" /\ pc'[r] = "exceeded" =>
       /\ Cardinality(Admitted(owner[r], since'[owner[r]], now)) >= DailyCap
       /\ DailyCap > 0 => Attempts(owner[r]) # {}]_vars

-----------------------------------------------------------------------------
C == INSTANCE Counter WITH
       Reliable <- TRUE, count <- [u \in Users |-> Get(u)], verdict <- pc

\* Evaluate may take MemoryCounter for a plain number per user that is raised,
\* lowered and, at the end of a window, zero: entries that are left in the map
\* when they expire, and Rollback on one of them, do not show.
ImplementsCounter == C!Spec
=============================================================================
