----------------------------- MODULE RedisCounter -----------------------------
(***************************************************************************)
(* The daily velocity limit over velocity.RedisCounter: one user's key,    *)
(* shared by the requests of all replicas.  Increment is two commands,     *)
(* INCR and EXPIRE, and Rollback is a script; between any two commands     *)
(* other requests run, the clock moves on and the key may expire.  Any     *)
(* command may fail, executed or not.  And go-redis, whose default options *)
(* NewRedisCounter takes, sends a command again when its answer is late or *)
(* lost, without a word to the caller: a command may be executed several   *)
(* times.  Step 3 of Evaluate looks at the value of Increment and not at   *)
(* its error.                                                              *)
(***************************************************************************)
EXTENDS Integers, FiniteSets

CONSTANTS
  Requests,  \* evaluate calls of the user
  DailyCap,  \* what the counter is compared with
  Window,    \* length of the daily window, in clock ticks
  MaxHold,   \* longest time from the INCR a request has its value of to its end
  MaxResends, \* bound: commands that are executed and sent again
  MaxTime    \* bound on the clock

ASSUME RedisCounterAssumption ==
  /\ IsFiniteSet(Requests)
  /\ DailyCap \in Nat
  /\ Window \in Nat \ {0}
  /\ MaxHold \in 0 .. (Window - 1)
  /\ MaxResends \in Nat
  /\ MaxTime \in Nat

VARIABLES
  now,       \* the clock of Redis
  key,       \* vel:{user_id}:d
  pc,        \* where each request is in step 3
  value,     \* what INCR returned to it, until it is compared
  at,        \* history: when it did
  unset,     \* history: requests whose EXPIRE failed since one last got through
  disturbed, \* history: a command of Increment failed, a key expired under one,
             \*          or the script of a Rollback was executed twice
  resends    \* commands executed and sent again

vars == <<now, key, pc, value, at, unset, disturbed, resends>>

\* No time to live: the key stays.
Forever == -1
Absent  == [value |-> -1, expires |-> Forever]
Live    == key # Absent

Init ==
  /\ now = 0
  /\ key = Absent
  /\ pc = [r \in Requests |-> "new"]
  /\ value = [r \in Requests |-> 0]
  /\ at = [r \in Requests |-> 0]
  /\ unset = {}
  /\ disturbed = FALSE
  /\ resends = 0

-----------------------------------------------------------------------------
\* The commands (external): what Redis makes of the key.
Incr == IF Live THEN [key EXCEPT !.value = @ + 1] ELSE [value |-> 1, expires |-> Forever]

\* Fault: EXPIRE with NX, for the first INCR only.
FaultExpireOnce == IF Live /\ key.expires = Forever THEN [key EXCEPT !.expires = now + Window] ELSE key

Expire == IF Live THEN [key EXCEPT !.expires = now + Window] ELSE key

\* Fault: a plain DECR.
FaultNoClamp == IF Live THEN [key EXCEPT !.value = @ - 1] ELSE [value |-> -2, expires |-> Forever]

\* Fault: the new value is always written with SET.
FaultPersist == [value |-> IF Live /\ key.value > 0 THEN key.value - 1 ELSE 0, expires |-> Forever]

\* The script of Rollback: DECR, and SET 0, which drops the time to live, when
\* that went below zero.
Decr ==
  IF Live /\ key.value > 0 THEN [key EXCEPT !.value = @ - 1] ELSE [value |-> 0, expires |-> Forever]

-----------------------------------------------------------------------------
\* The client (external): a command was executed and is sent again.  MaxRetries of
\* redis.Options limits how often that happens to one command, 3 times when unset.
Resend == resends < MaxResends /\ resends' = resends + 1

\* INCR has counted the request and is sent again.
IncrResent(r) ==
  /\ pc[r] \in {"new", "incr"}
  /\ Resend
  /\ key' = Incr
  /\ pc' = [pc EXCEPT ![r] = "incr"]
  /\ UNCHANGED <<now, value, at, unset, disturbed>>

\* Increment, first half.
IncrementStarts(r) ==
  /\ pc[r] \in {"new", "incr"}
  /\ key' = Incr
  /\ value' = [value EXCEPT ![r] = key'.value]
  /\ pc' = [pc EXCEPT ![r] = "expire"]
  /\ at' = [at EXCEPT ![r] = now]
  /\ UNCHANGED <<now, unset, disturbed, resends>>

\* Increment returns 0 and an error nobody looks at: the request passes.
IncrFails(r) ==
  /\ pc[r] \in {"new", "incr"}
  /\ key' \in {key, Incr}
  /\ pc' = [pc EXCEPT ![r] = "admitted"]
  /\ at' = [at EXCEPT ![r] = now]
  /\ unset' = unset \cup {r}
  /\ disturbed' = TRUE
  /\ UNCHANGED <<now, value, resends>>

\* The comparison with the cap.
Compared(r) == IF value[r] > DailyCap THEN "exceeded" ELSE "admitted"

\* EXPIRE has been executed.
Prolonged ==
  /\ key' = Expire
  /\ unset' = IF Live THEN {} ELSE unset

ExpireResent(r) ==
  /\ pc[r] = "expire"
  /\ Resend
  /\ Prolonged
  /\ UNCHANGED <<now, pc, value, at, disturbed>>

\* Increment, second half.
IncrementEnds(r) ==
  /\ pc[r] = "expire"
  /\ Prolonged
  /\ pc' = [pc EXCEPT ![r] = Compared(r)]
  /\ value' = [value EXCEPT ![r] = 0]
  /\ UNCHANGED <<now, at, disturbed, resends>>

\* The value of INCR comes back with the error of EXPIRE and is compared.
ExpireFails(r) ==
  /\ pc[r] = "expire"
  /\ key' \in {key, Expire}
  /\ pc' = [pc EXCEPT ![r] = Compared(r)]
  /\ value' = [value EXCEPT ![r] = 0]
  /\ unset' = unset \cup {r}
  /\ disturbed' = TRUE
  /\ UNCHANGED <<now, at, resends>>

\* The script of Rollback is executed, for the first time or once more.
TakenOff(r) ==
  /\ key' = Decr
  /\ disturbed' = (disturbed \/ pc[r] = "decr")

RollbackResent(r) ==
  /\ pc[r] \in {"exceeded", "decr"}
  /\ Resend
  /\ TakenOff(r)
  /\ pc' = [pc EXCEPT ![r] = "decr"]
  /\ UNCHANGED <<now, value, at, unset>>

\* Rollback; the request is denied.
Rollback(r) ==
  /\ pc[r] \in {"exceeded", "decr"}
  /\ TakenOff(r)
  /\ pc' = [pc EXCEPT ![r] = "denied"]
  /\ UNCHANGED <<now, value, at, unset, resends>>

RollbackFails(r) ==
  /\ pc[r] \in {"exceeded", "decr"}
  /\ TakenOff(r) \/ UNCHANGED <<key, disturbed>>
  /\ pc' = [pc EXCEPT ![r] = "denied"]
  /\ UNCHANGED <<now, value, at, unset, resends>>

Expires == key.expires # Forever /\ now + 1 >= key.expires

\* The clock; a key whose time has come is gone.
Tick ==
  /\ now < MaxTime
  /\ \A r \in Requests : pc[r] \in {"expire", "exceeded", "decr"} => now < at[r] + MaxHold
  /\ now' = now + 1
  /\ key' = IF Expires THEN Absent ELSE key
  /\ disturbed' = (disturbed \/ (Expires /\ \E r \in Requests : pc[r] = "expire"))
  /\ UNCHANGED <<pc, value, at, unset, resends>>

Step(r) ==
  \/ IncrResent(r) \/ IncrementStarts(r) \/ IncrFails(r)
  \/ ExpireResent(r) \/ IncrementEnds(r) \/ ExpireFails(r)
  \/ RollbackResent(r) \/ Rollback(r) \/ RollbackFails(r)

Next == (\E r \in Requests : Step(r)) \/ Tick

Spec == Init /\ [][Next]_vars

-----------------------------------------------------------------------------
TypeOK ==
  /\ now \in 0 .. MaxTime
  /\ key \in [value : Nat, expires : {Forever} \cup 1 .. (MaxTime + Window)] \cup {Absent}
  /\ pc \in [Requests -> {"new", "incr", "expire", "exceeded", "decr", "admitted", "denied"}]
  /\ value \in [Requests -> Nat]
  /\ at \in [Requests -> 0 .. MaxTime]
  /\ unset \subseteq Requests
  /\ disturbed \in BOOLEAN
  /\ resends \in 0 .. MaxResends

\* Requests that Evaluate let through from s up to, not including, t.
Admitted(s, t) == {r \in Requests : pc[r] = "admitted" /\ at[r] >= s /\ at[r] < t}

\* In every interval of a window's length at most DailyCap requests pass, across
\* replicas and although Increment is not atomic, unless a command of Increment
\* failed, the key expired between the INCR of a request and its EXPIRE, or the
\* script of a Rollback was executed twice, which takes off what other requests
\* had counted.  An INCR executed twice and a rollback that is not executed at all
\* do no harm to the limit: they leave the count too high.
WindowLimit ==
  disturbed \/ \A s \in 0 .. now : Cardinality(Admitted(s, s + Window)) <= DailyCap

\* A counter above zero that never expires, which would lock the user out, is the
\* work of a request between its first INCR and its EXPIRE, or of one whose EXPIRE
\* failed and that no later Increment has made up for: a rollback that hits the
\* clamp, for the first time or the second, takes the time to live away, but with
\* it the count.
NoTTLOnlyByFailure ==
  Live /\ key.expires = Forever /\ key.value > 0 =>
    (\E r \in Requests : pc[r] \in {"incr", "expire"}) \/ unset # {}

-----------------------------------------------------------------------------
\* The value the key stands for, and what a request will do with the one it got:
\* both as of the INCR that answered.
Count   == IF Live THEN key.value ELSE 0
Verdict == [r \in Requests |-> CASE pc[r] = "incr"   -> "new"
                                 [] pc[r] = "expire" -> Compared(r)
                                 [] pc[r] = "decr"   -> "exceeded"
                                 [] OTHER            -> pc[r]]

C == INSTANCE Counter WITH
       Users <- {"user"}, Reliable <- FALSE, owner <- [r \in Requests |-> "user"],
       count <- [u \in {"user"} |-> Count], verdict <- Verdict

\* Although Increment is two commands, with a key that may expire and other
\* requests in between, it counts and compares as one step, that of the INCR whose
\* answer it has.  What failing and repeated commands do is no more than what
\* Counter says of a counter that is not reliable: a request passes uncompared, is
\* counted again before it is compared, or is denied with its count left or taken
\* off again.
ImplementsCounter == C!Spec
=============================================================================
