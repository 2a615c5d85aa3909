-------------------------- MODULE RedisCounterProofs --------------------------
(***************************************************************************)
(* Proofs about RedisCounter, for any finite number of requests and any    *)
(* cap, window and clock bound.                                            *)
(*                                                                         *)
(* The limit is not inductive.  As long as nothing disturbs the key, it    *)
(* counts at least the requests that are less than a window old (Counted), *)
(* it is there for each of them, and it outlives those whose EXPIRE is     *)
(* done (Covered).  And the limit has to be kept for the requests that     *)
(* are bound to pass, from their INCR on, not from the comparison: the     *)
(* value INCR returned is old when it is compared (Limited).               *)
(***************************************************************************)
EXTENDS RedisCounter, FiniteSetTheorems, TLAPS

\* The requests that are counted and not yet a full window old.
Recent ==
  {r \in Requests : pc[r] \in {"expire", "exceeded", "admitted"} /\ now < at[r] + Window}

\* The requests from s up to, not including, t that have passed or are going to.
Passes(r) == pc[r] = "admitted" \/ (pc[r] = "expire" /\ value[r] <= DailyCap)
Passing(s, t) == {r \in Requests : Passes(r) /\ at[r] >= s /\ at[r] < t}

Past == \A r \in Requests : at[r] <= now

Prompt == \A r \in Requests : pc[r] \in {"expire", "exceeded", "decr"} => now <= at[r] + MaxHold

Covered ==
  /\ \A r \in Requests : pc[r] = "expire" => Live
  /\ \A r \in Requests : pc[r] \in {"exceeded", "admitted"} /\ now < at[r] + Window =>
       Live /\ (key.expires = Forever \/ at[r] + Window <= key.expires)

Counted == Cardinality(Recent) <= Count

Limited == \A s \in 0 .. now : Cardinality(Passing(s, s + Window)) <= DailyCap

Tracked == Covered /\ Counted /\ Limited

IInv == TypeOK /\ Past /\ Prompt /\ NoTTLOnlyByFailure /\ (disturbed \/ Tracked)

-----------------------------------------------------------------------------
\* Cardinalities of sets of requests are natural numbers, and monotonic.
LEMMA CardinalityMonotonic ==
  ASSUME NEW T \in SUBSET Requests, NEW S \in SUBSET T
  PROVE  /\ Cardinality(S) \in Nat
         /\ Cardinality(T) \in Nat
         /\ Cardinality(S) <= Cardinality(T)
<1>1. IsFiniteSet(T)
  BY RedisCounterAssumption, FS_Subset
<1>2. IsFiniteSet(S) /\ Cardinality(S) <= Cardinality(T)
  BY <1>1, FS_Subset
<1> QED
  BY <1>1, <1>2, FS_CardinalityType

\* One more request makes a set of requests one larger.
LEMMA CardinalityPlusOne ==
  ASSUME NEW S \in SUBSET Requests, NEW r \in Requests, r \notin S
  PROVE  Cardinality(S \cup {r}) = Cardinality(S) + 1 /\ Cardinality(S) \in Nat
<1>1. IsFiniteSet(S)
  BY RedisCounterAssumption, FS_Subset
<1> QED
  BY <1>1, FS_AddElement, FS_CardinalityType

\* One request less makes it one smaller.
LEMMA CardinalityMinusOne ==
  ASSUME NEW S \in SUBSET Requests, NEW r \in S
  PROVE  /\ Cardinality(S \ {r}) = Cardinality(S) - 1
         /\ Cardinality(S) \in Nat /\ Cardinality(S) > 0
<1>1. S \ {r} \in SUBSET Requests /\ r \notin S \ {r} /\ S = (S \ {r}) \cup {r}
  OBVIOUS
<1>2. Cardinality(S) = Cardinality(S \ {r}) + 1 /\ Cardinality(S \ {r}) \in Nat
  BY <1>1, CardinalityPlusOne
<1> QED
  BY <1>2

-----------------------------------------------------------------------------
\* What a key that is there holds.
Keys == [value : Nat, expires : {Forever} \cup 1 .. (MaxTime + Window)]

\* A key is there or it is absent, never both.
LEMMA KeyThere ==
  ASSUME TypeOK
  PROVE  /\ Live <=> key \in Keys
         /\ ~Live <=> key = Absent
         /\ Count \in Nat
         /\ \A k \in Keys : k # Absent
<1>1. \A k \in Keys : k # Absent
  BY DEF Keys, Absent
<1>2. Live <=> key \in Keys
  BY <1>1 DEF TypeOK, Live, Keys
<1>3. Count \in Nat
  BY <1>2 DEF Count, Keys
<1> QED
  BY <1>1, <1>2, <1>3 DEF Live

\* What INCR makes of the key: it counts one more and leaves the time to live.
LEMMA IncrKey ==
  ASSUME TypeOK
  PROVE  /\ Incr \in Keys
         /\ Incr.value = Count + 1
         /\ Live => Incr.expires = key.expires
         /\ ~Live => Incr.expires = Forever
<1>1. CASE Live
  BY <1>1, KeyThere DEF Incr, Count, Keys
<1>2. CASE ~Live
  BY <1>2 DEF Incr, Count, Keys
<1> QED
  BY <1>1, <1>2

\* EXPIRE gives a key that is there a full window, and does not create one.
LEMMA ExpireKey ==
  ASSUME TypeOK
  PROVE  /\ Live => Expire \in Keys /\ Expire.value = key.value /\ Expire.expires = now + Window
         /\ ~Live => Expire = key
<1>1. now + Window \in 1 .. (MaxTime + Window)
  BY RedisCounterAssumption DEF TypeOK
<1>2. CASE Live
  BY <1>1, <1>2, KeyThere DEF Expire, Keys
<1>3. CASE ~Live
  BY <1>3 DEF Expire
<1> QED
  BY <1>2, <1>3

\* The script of Rollback takes one off a positive count and leaves the time to
\* live; otherwise the count is zero afterwards.
LEMMA DecrKey ==
  ASSUME TypeOK
  PROVE  /\ Decr \in Keys
         /\ Count > 0 => Live /\ Decr.value = Count - 1 /\ Decr.expires = key.expires
         /\ Count = 0 => Decr.value = 0 /\ Decr.expires = Forever
<1>1. CASE Live /\ key.value > 0
  BY <1>1, KeyThere DEF Decr, Count, Keys
<1>2. CASE ~(Live /\ key.value > 0)
  <2>1. Count = 0
    BY <1>2, KeyThere DEF Count, Keys
  <2> QED
    BY <1>2, <2>1 DEF Decr, Keys
<1> QED
  BY <1>1, <1>2

-----------------------------------------------------------------------------
\* An absent key, and no request begun.
LEMMA InitIInv == Init => IInv
<1> SUFFICES ASSUME Init PROVE IInv
  OBVIOUS
<1>1. TypeOK
  <2>1. disturbed \in BOOLEAN
    BY Zenon DEF Init
  <2> QED
    BY <2>1, RedisCounterAssumption DEF Init, TypeOK
<1>2. Past /\ Prompt /\ NoTTLOnlyByFailure
  BY DEF Init, Past, Prompt, NoTTLOnlyByFailure, Live
<1>3. Recent = {} /\ \A s \in 0 .. now : Passing(s, s + Window) = {}
  BY DEF Init, Recent, Passing, Passes
<1>4. Covered
  BY DEF Init, Covered
<1>5. Counted /\ Limited
  BY <1>1, <1>3, KeyThere, FS_EmptySet, RedisCounterAssumption DEF Counted, Limited
<1> QED
  BY <1>1, <1>2, <1>4, <1>5 DEF IInv, Tracked

-----------------------------------------------------------------------------
\* The places of a request in step 3.
Places == {"new", "incr", "expire", "exceeded", "decr", "admitted", "denied"}

\* What a step of a request does: one command at most reaches the key, and nothing
\* of another request changes.
LEMMA StepEffect ==
  ASSUME TypeOK, NEW r \in Requests, Step(r)
  PROVE  /\ now' = now
         /\ key' \in {key, Incr, Expire, Decr}
         /\ \E p \in Places : pc' = [pc EXCEPT ![r] = p]
         /\ value' = value \/ \E v \in {0, Incr.value} : value' = [value EXCEPT ![r] = v]
         /\ at' = at \/ at' = [at EXCEPT ![r] = now]
         /\ unset' \in {unset, unset \cup {r}, {}}
         /\ resends' = resends \/ (resends < MaxResends /\ resends' = resends + 1)
         /\ pc'[r] \in {"expire", "exceeded", "decr"} =>
              at'[r] = now \/ (pc[r] \in {"expire", "exceeded", "decr"} /\ at' = at)
<1> USE DEF TypeOK, Places
<1>1. CASE IncrResent(r)
  BY <1>1 DEF IncrResent, Resend
<1>2. CASE IncrementStarts(r)
  BY <1>2 DEF IncrementStarts
<1>3. CASE IncrFails(r)
  BY <1>3 DEF IncrFails
<1>4. CASE ExpireResent(r)
  BY <1>4 DEF ExpireResent, Resend, Prolonged
<1>5. CASE IncrementEnds(r)
  BY <1>5 DEF IncrementEnds, Prolonged, Compared
<1>6. CASE ExpireFails(r)
  BY <1>6 DEF ExpireFails, Compared
<1>7. CASE RollbackResent(r)
  BY <1>7 DEF RollbackResent, Resend, TakenOff
<1>8. CASE Rollback(r)
  BY <1>8 DEF Rollback, TakenOff
<1>9. CASE RollbackFails(r)
  BY <1>9 DEF RollbackFails, TakenOff
<1> QED
  BY <1>1, <1>2, <1>3, <1>4, <1>5, <1>6, <1>7, <1>8, <1>9 DEF Step

\* disturbed says yes or no.
LEMMA Flag ==
  ASSUME TypeOK, NEW r \in Requests, Step(r)
  PROVE  disturbed' \in BOOLEAN
<1>1. disturbed \in BOOLEAN
  BY DEF TypeOK
<1>2. CASE IncrResent(r) \/ IncrementStarts(r) \/ ExpireResent(r) \/ IncrementEnds(r)
  BY <1>1, <1>2, Zenon DEF IncrResent, IncrementStarts, ExpireResent, IncrementEnds
<1>3. CASE IncrFails(r) \/ ExpireFails(r)
  BY <1>3, Zenon DEF IncrFails, ExpireFails
<1>4. CASE RollbackResent(r) \/ Rollback(r) \/ RollbackFails(r)
  BY <1>1, <1>4, Zenon DEF RollbackResent, Rollback, RollbackFails, TakenOff
<1> QED
  BY <1>2, <1>3, <1>4, Zenon DEF Step

\* The types, the clock and the promptness of requests, under a step of one.
LEMMA StepBasics ==
  ASSUME TypeOK, Past, Prompt, NEW r \in Requests, Step(r)
  PROVE  TypeOK' /\ Past' /\ Prompt'
<1>1. key' \in Keys \cup {Absent}
  BY StepEffect, KeyThere, IncrKey, ExpireKey, DecrKey
<1>2. now' = now
  BY StepEffect
<1>3. pc' \in [Requests -> Places]
  BY StepEffect DEF TypeOK, Places
<1>4. value' \in [Requests -> Nat]
  <2>1. Incr.value \in Nat
    BY IncrKey DEF Keys
  <2> QED
    BY <2>1, StepEffect DEF TypeOK
<1>5. at' \in [Requests -> 0 .. MaxTime]
  BY StepEffect DEF TypeOK
<1>6. unset' \subseteq Requests /\ resends' \in 0 .. MaxResends
  BY StepEffect, RedisCounterAssumption DEF TypeOK
<1>7. TypeOK'
  BY <1>1, <1>2, <1>3, <1>4, <1>5, <1>6, Flag DEF TypeOK, Keys, Places
<1>8. Past'
  BY <1>2, StepEffect DEF TypeOK, Past
<1>9. \A q \in Requests : pc'[q] \in {"expire", "exceeded", "decr"} =>
        at'[q] = now \/ (pc[q] \in {"expire", "exceeded", "decr"} /\ at'[q] = at[q])
  BY StepEffect DEF TypeOK
<1>10. Prompt'
  BY <1>2, <1>9, RedisCounterAssumption DEF TypeOK, Prompt
<1> QED
  BY <1>7, <1>8, <1>10

\* A count that lives for ever, under a step of one request.
LEMMA StepNoTTL ==
  ASSUME TypeOK, NoTTLOnlyByFailure, NEW r \in Requests, Step(r)
  PROVE  NoTTLOnlyByFailure'
<1> USE DEF NoTTLOnlyByFailure
<1>1. CASE IncrResent(r) \/ IncrementStarts(r)
  <2>1. pc'[r] \in {"incr", "expire"}
    BY <1>1 DEF IncrResent, IncrementStarts, TypeOK
  <2> QED
    BY <2>1
<1>2. CASE IncrFails(r) \/ ExpireFails(r)
  <2>1. r \in unset'
    BY <1>2 DEF IncrFails, ExpireFails
  <2> QED
    BY <2>1
<1>3. CASE ExpireResent(r) \/ IncrementEnds(r)
  <2>1. key' = Expire
    BY <1>3 DEF ExpireResent, IncrementEnds, Prolonged
  <2>2. Live => key'.expires # Forever
    <3>1. now + Window # Forever
      BY RedisCounterAssumption DEF TypeOK, Forever
    <3> QED
      BY <2>1, <3>1, ExpireKey
  <2>3. ~Live => ~Live'
    BY <2>1, ExpireKey DEF Live
  <2> QED
    BY <2>2, <2>3
<1>4. CASE RollbackResent(r) \/ Rollback(r) \/ RollbackFails(r)
  <2>1. unset' = unset /\ \A q \in Requests : pc[q] \in {"incr", "expire"} => pc'[q] = pc[q]
    BY <1>4 DEF RollbackResent, Rollback, RollbackFails, TypeOK
  <2>2. key' = key \/ key' = Decr
    BY <1>4 DEF RollbackResent, Rollback, RollbackFails, TakenOff
  <2>3. CASE key' = key
    BY <2>1, <2>3 DEF Live
  <2>4. CASE key' = Decr
    <3>1. CASE Count > 0
      BY <2>1, <2>4, <3>1, DecrKey, KeyThere DEF Count
    <3>2. CASE Count = 0
      BY <2>4, <3>2, DecrKey
    <3> QED
      BY <3>1, <3>2, KeyThere
  <2> QED
    BY <2>2, <2>3, <2>4
<1> QED
  BY <1>1, <1>2, <1>3, <1>4 DEF Step

-----------------------------------------------------------------------------
\* A request before its EXPIRE or its Rollback is recent: MaxHold is less than a
\* window.
LEMMA HeldIsRecent ==
  ASSUME TypeOK, Prompt, NEW r \in Requests, pc[r] \in {"expire", "exceeded"}
  PROVE  r \in Recent
<1>1. now < at[r] + Window
  BY RedisCounterAssumption DEF TypeOK, Prompt
<1> QED
  BY <1>1 DEF Recent

\* While a recent request is counted, the key is there and its count positive.
LEMMA RecentIsCounted ==
  ASSUME TypeOK, Tracked, NEW r \in Recent
  PROVE  Live /\ Count > 0 /\ Cardinality(Recent \ {r}) <= Count - 1
<1>1. Recent \in SUBSET Requests
  BY DEF Recent
<1>2. /\ Cardinality(Recent \ {r}) = Cardinality(Recent) - 1
      /\ Cardinality(Recent) \in Nat /\ Cardinality(Recent) > 0
  BY <1>1, CardinalityMinusOne
<1>3. Cardinality(Recent) <= Count /\ Count \in Nat
  BY KeyThere DEF Tracked, Counted
<1>4. Count > 0 /\ Cardinality(Recent \ {r}) <= Count - 1
  BY <1>2, <1>3
<1> QED
  BY <1>4 DEF Count

\* INCR: the key counts the new request with all recent ones, so that a value
\* within the cap leaves room for it in every window it falls into.
LEMMA IncrementStartsTracked ==
  ASSUME TypeOK, Past, Prompt, Tracked, NEW r \in Requests, IncrementStarts(r)
  PROVE  Tracked'
<1>1. /\ now' = now /\ key' = Incr
      /\ pc[r] \in {"new", "incr"} /\ pc'[r] = "expire" /\ at'[r] = now /\ value'[r] = Count + 1
      /\ \A q \in Requests : q # r => pc'[q] = pc[q] /\ at'[q] = at[q] /\ value'[q] = value[q]
  BY IncrKey DEF IncrementStarts, TypeOK
<1>2. /\ now \in Nat /\ Window \in Nat /\ Window > 0 /\ DailyCap \in Nat /\ Count \in Nat
      /\ \A q \in Requests : at[q] \in Nat
  BY RedisCounterAssumption, KeyThere DEF TypeOK
<1>3. Live' /\ Count' = Count + 1
  BY <1>1, IncrKey, KeyThere DEF Live, Count
<1>4. Recent' = Recent \cup {r} /\ r \notin Recent
  BY <1>1, <1>2 DEF Recent
<1>5. Cardinality(Recent') = Cardinality(Recent) + 1 /\ Cardinality(Recent) \in Nat
  <2>1. Recent \in SUBSET Requests
    BY DEF Recent
  <2> QED
    BY <1>4, <2>1, CardinalityPlusOne
<1>6. Counted'
  BY <1>2, <1>3, <1>5 DEF Counted, Tracked
<1>7. Covered'
  <2>1. ASSUME NEW q \in Requests, pc'[q] \in {"exceeded", "admitted"}, now' < at'[q] + Window
        PROVE  key'.expires = Forever \/ at'[q] + Window <= key'.expires
    <3>1. q # r /\ pc[q] \in {"exceeded", "admitted"} /\ at'[q] = at[q] /\ now < at[q] + Window
      BY <1>1, <2>1
    <3>2. Live /\ (key.expires = Forever \/ at[q] + Window <= key.expires)
      BY <3>1 DEF Tracked, Covered
    <3> QED
      BY <1>1, <3>1, <3>2, IncrKey
  <2> QED
    BY <1>3, <2>1 DEF Covered
<1>8. Limited'
  <2> SUFFICES ASSUME NEW s \in 0 .. now PROVE Cardinality(Passing(s, s + Window)') <= DailyCap
    BY <1>1 DEF Limited
  <2>1. Passing(s, s + Window) \in SUBSET Requests /\ Passing(s, s + Window)' \in SUBSET Requests
    BY DEF Passing
  <2>2. CASE r \notin Passing(s, s + Window)'
    <3>1. Passing(s, s + Window)' \subseteq Passing(s, s + Window)
      BY <1>1, <2>2 DEF Passing, Passes
    <3>2. Cardinality(Passing(s, s + Window)) <= DailyCap
      BY DEF Tracked, Limited
    <3> QED
      BY <1>2, <2>1, <3>1, <3>2, CardinalityMonotonic
  <2>3. CASE r \in Passing(s, s + Window)'
    <3>1. Count + 1 <= DailyCap /\ now < s + Window
      BY <1>1, <2>3 DEF Passing, Passes
    <3>2. Passing(s, s + Window)' \subseteq Recent'
      <4> SUFFICES ASSUME NEW q \in Requests, q # r, q \in Passing(s, s + Window)'
                   PROVE  q \in Recent
        BY <1>4 DEF Passing
      <4>1. pc[q] \in {"expire", "admitted"} /\ at[q] >= s
        BY <1>1 DEF Passing, Passes
      <4>2. now < at[q] + Window
        BY <1>2, <3>1, <4>1
      <4> QED
        BY <4>1, <4>2 DEF Recent
    <3>3. Cardinality(Recent') <= Count + 1
      BY <1>2, <1>5 DEF Tracked, Counted
    <3>4. Recent' \in SUBSET Requests
      BY DEF Recent
    <3>5. /\ Cardinality(Passing(s, s + Window)') <= Cardinality(Recent')
          /\ Cardinality(Passing(s, s + Window)') \in Nat /\ Cardinality(Recent') \in Nat
      BY <3>2, <3>4, CardinalityMonotonic
    <3> QED
      BY <1>2, <3>1, <3>3, <3>5
  <2> QED
    BY <2>2, <2>3
<1> QED
  BY <1>6, <1>7, <1>8 DEF Tracked

\* An INCR that is sent again: the key counts more than it has to.
LEMMA IncrResentTracked ==
  ASSUME TypeOK, Past, Prompt, Tracked, NEW r \in Requests, IncrResent(r)
  PROVE  Tracked'
<1>1. /\ now' = now /\ key' = Incr /\ at' = at /\ value' = value
      /\ pc[r] \in {"new", "incr"} /\ pc'[r] = "incr"
      /\ \A q \in Requests : q # r => pc'[q] = pc[q]
  BY DEF IncrResent, TypeOK
<1>2. Live' /\ Count' = Count + 1 /\ Count \in Nat /\ (Live => key'.expires = key.expires)
  BY <1>1, IncrKey, KeyThere DEF Live, Count
<1>3. Recent' = Recent
  BY <1>1 DEF Recent
<1>4. Counted'
  <2>1. Cardinality(Recent) \in Nat
    <3>1. Recent \in SUBSET Requests
      BY DEF Recent
    <3> QED
      BY <3>1, CardinalityMonotonic
  <2> QED
    BY <1>2, <1>3, <2>1 DEF Counted, Tracked
<1>5. Covered'
  BY <1>1, <1>2 DEF Covered, Tracked
<1>6. \A s \in 0 .. now : Passing(s, s + Window)' = Passing(s, s + Window)
  BY <1>1 DEF Passing, Passes
<1>7. Limited'
  BY <1>1, <1>6 DEF Limited, Tracked
<1> QED
  BY <1>4, <1>5, <1>7 DEF Tracked

\* EXPIRE: the key outlives every request counted so far, and who passes was
\* settled by INCR.
LEMMA ExpireTracked ==
  ASSUME TypeOK, Past, Prompt, Tracked, NEW r \in Requests, ExpireResent(r) \/ IncrementEnds(r)
  PROVE  Tracked'
<1>1. /\ now' = now /\ key' = Expire /\ at' = at
      /\ pc[r] = "expire"
      /\ (pc'[r] = "expire" /\ value'[r] = value[r]) \/ pc'[r] = Compared(r)
      /\ \A q \in Requests : q # r => pc'[q] = pc[q] /\ value'[q] = value[q]
  BY DEF ExpireResent, IncrementEnds, Prolonged, TypeOK
<1>2. /\ now \in Nat /\ Window \in Nat /\ DailyCap \in Nat
      /\ \A q \in Requests : at[q] \in Nat /\ at[q] <= now /\ value[q] \in Nat
  BY RedisCounterAssumption DEF TypeOK, Past
<1>3. Live
  BY <1>1 DEF Tracked, Covered
<1>4. Live' /\ key'.value = key.value /\ key'.expires = now + Window
  BY <1>1, <1>3, ExpireKey, KeyThere DEF Live
<1>5. Recent' = Recent
  BY <1>1 DEF Recent, Compared
<1>6. Counted'
  BY <1>3, <1>4, <1>5 DEF Tracked, Counted, Count
<1>7. Covered'
  BY <1>1, <1>2, <1>4 DEF Covered
<1>8. \A q \in Requests : Passes(q)' <=> Passes(q)
  BY <1>1, <1>2 DEF Passes, Compared
<1>9. \A s \in 0 .. now : Passing(s, s + Window)' = Passing(s, s + Window)
  BY <1>1, <1>8 DEF Passing
<1>10. Limited'
  BY <1>1, <1>9 DEF Limited, Tracked
<1> QED
  BY <1>6, <1>7, <1>10 DEF Tracked

\* The first time the script of Rollback is executed, or when it is not at all, the
\* request is no longer among those the key has to count, and at most one is off
\* its value.
LEMMA RollbackTracked ==
  ASSUME TypeOK, Past, Prompt, Tracked, NEW r \in Requests, pc[r] = "exceeded",
         RollbackResent(r) \/ Rollback(r) \/ RollbackFails(r)
  PROVE  Tracked'
<1>1. /\ now' = now /\ key' \in {key, Decr} /\ at' = at /\ value' = value
      /\ pc'[r] \in {"decr", "denied"}
      /\ \A q \in Requests : q # r => pc'[q] = pc[q]
  BY DEF RollbackResent, Rollback, RollbackFails, TakenOff, TypeOK
<1>2. Live /\ Count > 0 /\ Cardinality(Recent \ {r}) <= Count - 1
  BY <1>1, HeldIsRecent, RecentIsCounted
<1>3. Live' /\ key'.expires = key.expires /\ Count' \in {Count, Count - 1}
  <2>1. CASE key' = key
    BY <1>2, <2>1 DEF Live, Count
  <2>2. CASE key' = Decr
    BY <1>2, <2>2, DecrKey, KeyThere DEF Live, Count
  <2> QED
    BY <1>1, <2>1, <2>2
<1>4. Recent' = Recent \ {r}
  BY <1>1 DEF Recent
<1>5. Counted'
  <2>1. Cardinality(Recent \ {r}) \in Nat /\ Count \in Nat
    <3>1. Recent \in SUBSET Requests /\ Recent \ {r} \in SUBSET Recent
      BY DEF Recent
    <3> QED
      BY <3>1, CardinalityMonotonic, KeyThere
  <2> QED
    BY <1>2, <1>3, <1>4, <2>1 DEF Counted
<1>6. Covered'
  BY <1>1, <1>3 DEF Covered, Tracked
<1>7. \A s \in 0 .. now : Passing(s, s + Window)' = Passing(s, s + Window)
  BY <1>1 DEF Passing, Passes
<1>8. Limited'
  BY <1>1, <1>7 DEF Limited, Tracked
<1> QED
  BY <1>5, <1>6, <1>8 DEF Tracked

\* Past that, the key stays as it was as long as the script is not executed again.
LEMMA GivenUpTracked ==
  ASSUME TypeOK, Tracked, NEW r \in Requests, pc[r] = "decr", ~disturbed',
         RollbackResent(r) \/ Rollback(r) \/ RollbackFails(r)
  PROVE  Tracked'
<1>1. /\ now' = now /\ key' = key /\ at' = at /\ value' = value
      /\ pc'[r] = "denied"
      /\ \A q \in Requests : q # r => pc'[q] = pc[q]
  BY DEF RollbackResent, Rollback, RollbackFails, TakenOff, TypeOK
<1>2. Recent' = Recent /\ Count' = Count
  BY <1>1 DEF Recent, Count, Live
<1>3. \A s \in 0 .. now : Passing(s, s + Window)' = Passing(s, s + Window)
  BY <1>1 DEF Passing, Passes
<1>4. Covered'
  BY <1>1 DEF Covered, Tracked, Live
<1> QED
  BY <1>1, <1>2, <1>3, <1>4 DEF Tracked, Counted, Limited

\* The clock.
LEMMA TickBasics ==
  ASSUME TypeOK, Past, Prompt, NoTTLOnlyByFailure, Tick
  PROVE  TypeOK' /\ Past' /\ Prompt' /\ NoTTLOnlyByFailure'
<1>1. /\ now' = now + 1 /\ now < MaxTime /\ key' \in {key, Absent}
      /\ pc' = pc /\ value' = value /\ at' = at /\ unset' = unset /\ resends' = resends
      /\ \A r \in Requests : pc[r] \in {"expire", "exceeded", "decr"} => now < at[r] + MaxHold
  BY DEF Tick
<1>2. disturbed' \in BOOLEAN
  BY Zenon DEF Tick
<1>3. TypeOK'
  BY <1>1, <1>2, RedisCounterAssumption DEF TypeOK
<1>4. Past' /\ Prompt'
  BY <1>1, RedisCounterAssumption DEF TypeOK, Past, Prompt
<1>5. NoTTLOnlyByFailure'
  BY <1>1 DEF NoTTLOnlyByFailure, Live
<1> QED
  BY <1>3, <1>4, <1>5

\* A key that expires under no Increment takes no recent request with it.
LEMMA TickTracked ==
  ASSUME TypeOK, Past, Prompt, Tracked, Tick, ~disturbed'
  PROVE  Tracked'
<1>1. /\ now' = now + 1 /\ key' = IF Expires THEN Absent ELSE key
      /\ pc' = pc /\ value' = value /\ at' = at
  BY DEF Tick
<1>2. Expires => \A r \in Requests : pc[r] # "expire"
  BY DEF Tick
<1>3. /\ now \in Nat /\ Window \in Nat /\ Window > 0 /\ DailyCap \in Nat /\ Count \in Nat
      /\ \A q \in Requests : at[q] \in Nat /\ at[q] <= now
  BY RedisCounterAssumption, KeyThere DEF TypeOK, Past
<1>4. Recent' \subseteq Recent
  BY <1>1, <1>3 DEF Recent
<1>5. Expires => Recent' = {}
  <2> SUFFICES ASSUME Expires, NEW r \in Requests, r \in Recent' PROVE FALSE
    BY DEF Recent
  <2>1. pc[r] \in {"exceeded", "admitted"} /\ now + 1 < at[r] + Window
    BY <1>1, <1>2 DEF Recent
  <2>2. now < at[r] + Window
    BY <1>3, <2>1
  <2>3. Live /\ (key.expires = Forever \/ at[r] + Window <= key.expires)
    BY <2>1, <2>2 DEF Tracked, Covered
  <2>4. key.expires # Forever /\ now + 1 >= key.expires
    BY DEF Expires
  <2>5. key.expires \in Int
    BY <2>3, <2>4, KeyThere, RedisCounterAssumption DEF Keys
  <2> QED
    BY <1>3, <2>1, <2>3, <2>4, <2>5
<1>6. Counted'
  <2>1. CASE Expires
    <3>1. Count' = 0
      BY <1>1, <2>1 DEF Count, Live
    <3> QED
      BY <1>5, <2>1, <3>1, FS_EmptySet DEF Counted
  <2>2. CASE ~Expires
    <3>1. Count' = Count
      BY <1>1, <2>2 DEF Count, Live
    <3>2. Recent \in SUBSET Requests
      BY DEF Recent
    <3>3. Cardinality(Recent') <= Cardinality(Recent) /\ Cardinality(Recent') \in Nat
          /\ Cardinality(Recent) \in Nat
      BY <1>4, <3>2, CardinalityMonotonic
    <3> QED
      BY <1>3, <3>1, <3>3 DEF Counted, Tracked
  <2> QED
    BY <2>1, <2>2
<1>7. Covered'
  <2>1. CASE Expires
    BY <1>1, <1>2, <1>5, <2>1 DEF Covered, Recent
  <2>2. CASE ~Expires
    BY <1>1, <1>3, <2>2 DEF Covered, Tracked, Live
  <2> QED
    BY <2>1, <2>2
<1>8. \A s \in 0 .. now + 1 : Passing(s, s + Window)' = Passing(s, s + Window)
  BY <1>1 DEF Passing, Passes
<1>9. Limited'
  <2> SUFFICES ASSUME NEW s \in 0 .. now + 1 PROVE Cardinality(Passing(s, s + Window)) <= DailyCap
    BY <1>1, <1>8 DEF Limited
  <2>1. CASE s \in 0 .. now
    BY <2>1 DEF Tracked, Limited
  <2>2. CASE s = now + 1
    <3>1. Passing(s, s + Window) = {}
      BY <1>3, <2>2 DEF Passing
    <3> QED
      BY <1>3, <3>1, FS_EmptySet
  <2> QED
    BY <1>3, <2>1, <2>2
<1> QED
  BY <1>6, <1>7, <1>9 DEF Tracked

-----------------------------------------------------------------------------
\* The invariant is inductive, however the commands of requests interleave, fail
\* and meet an expiring key.
LEMMA NextIInv == IInv /\ [Next]_vars => IInv'
<1> SUFFICES ASSUME IInv, [Next]_vars PROVE IInv'
  OBVIOUS
<1>0. TypeOK /\ Past /\ Prompt /\ NoTTLOnlyByFailure /\ (disturbed \/ Tracked)
  BY DEF IInv
<1>1. ASSUME NEW r \in Requests, Step(r) PROVE IInv'
  <2>1. TypeOK' /\ Past' /\ Prompt' /\ NoTTLOnlyByFailure'
    BY <1>0, <1>1, StepBasics, StepNoTTL
  <2>2. disturbed' \/ Tracked'
    <3>1. CASE IncrFails(r) \/ ExpireFails(r)
      BY <3>1 DEF IncrFails, ExpireFails
    <3>2. CASE IncrementStarts(r)
      BY <1>0, <3>2, IncrementStartsTracked DEF IncrementStarts
    <3>3. CASE IncrResent(r)
      BY <1>0, <3>3, IncrResentTracked DEF IncrResent
    <3>4. CASE ExpireResent(r) \/ IncrementEnds(r)
      BY <1>0, <3>4, ExpireTracked DEF ExpireResent, IncrementEnds
    <3>5. CASE RollbackResent(r) \/ Rollback(r) \/ RollbackFails(r)
      <4>1. pc[r] \in {"exceeded", "decr"}
        BY <3>5 DEF RollbackResent, Rollback, RollbackFails
      <4>2. disturbed => disturbed'
        BY <3>5, Zenon DEF RollbackResent, Rollback, RollbackFails, TakenOff
      <4> QED
        BY <1>0, <3>5, <4>1, <4>2, RollbackTracked, GivenUpTracked
    <3> QED
      BY <1>1, <3>1, <3>2, <3>3, <3>4, <3>5 DEF Step
  <2> QED
    BY <2>1, <2>2 DEF IInv
<1>2. CASE Tick
  <2>1. TypeOK' /\ Past' /\ Prompt' /\ NoTTLOnlyByFailure'
    BY <1>0, <1>2, TickBasics
  <2>2. disturbed => disturbed'
    BY <1>2 DEF Tick
  <2>3. disturbed' \/ Tracked'
    BY <1>0, <1>2, <2>2, TickTracked
  <2> QED
    BY <2>1, <2>3 DEF IInv
<1>3. CASE UNCHANGED vars
  <2>1. TypeOK' /\ Past' /\ Prompt' /\ NoTTLOnlyByFailure'
    BY <1>0, <1>3 DEF vars, TypeOK, Past, Prompt, NoTTLOnlyByFailure, Live
  <2>2. Tracked => Tracked'
    BY <1>3 DEF vars, Tracked, Covered, Counted, Limited, Recent, Passing, Passes, Count, Live
  <2> QED
    BY <1>0, <1>3, <2>1, <2>2 DEF vars, IInv
<1> QED
  BY <1>1, <1>2, <1>3 DEF Next

\* Every reachable state of the counter in Redis satisfies the invariant.
THEOREM Invariance == Spec => []IInv
  BY InitIInv, NextIInv, PTL DEF Spec

\* The key is absent or holds a count that is never negative, with a time to live
\* or without.
THEOREM TypeCorrect == Spec => []TypeOK
<1>1. IInv => TypeOK
  BY DEF IInv
<1> QED
  BY <1>1, Invariance, PTL

\* The daily limit holds across replicas, in every interval of a window's length,
\* although INCR, EXPIRE and the rollback are separate commands that may be sent
\* again, unless a command of Increment failed, the key expired between a request's
\* INCR and its EXPIRE, or the script of a Rollback was executed twice.
THEOREM LimitHolds == Spec => []WindowLimit
<1>1. IInv => WindowLimit
  <2> SUFFICES ASSUME IInv, ~disturbed, NEW s \in 0 .. now
               PROVE  Cardinality(Admitted(s, s + Window)) <= DailyCap
    BY DEF WindowLimit
  <2>1. Admitted(s, s + Window) \subseteq Passing(s, s + Window)
    BY DEF Admitted, Passing, Passes
  <2>2. Passing(s, s + Window) \in SUBSET Requests
    BY DEF Passing
  <2>3. Cardinality(Passing(s, s + Window)) <= DailyCap
    BY DEF IInv, Tracked, Limited
  <2> QED
    BY <2>1, <2>2, <2>3, CardinalityMonotonic, RedisCounterAssumption
<1> QED
  BY <1>1, Invariance, PTL

\* No user is locked out by a positive count without a time to live but for an
\* Increment under way or an EXPIRE that failed: not by a rollback that hits the
\* clamp, executed once or more often, and not by a key that expires under an
\* Increment.
THEOREM LockedOutOnlyByFailure == Spec => []NoTTLOnlyByFailure
<1>1. IInv => NoTTLOnlyByFailure
  BY DEF IInv
<1> QED
  BY <1>1, Invariance, PTL

-----------------------------------------------------------------------------
\* Steps of requests, as steps of the abstract counter.
LEMMA StepIsCounterStep ==
  ASSUME TypeOK, NEW r \in Requests, Step(r)
  PROVE  [C!Next]_(C!vars)
<1> DEFINE user == [q \in Requests |-> "user"]
           count == [u \in {"user"} |-> Count]
<1>1. user[r] = "user" /\ user' = user /\ Count \in Nat
  BY KeyThere
<1>2. ASSUME NEW n, Count' = n
      PROVE  count' = [count EXCEPT !["user"] = n]
  BY <1>2
<1>3. CASE IncrResent(r)
  <2>1. Count' = Count + 1
    BY <1>3, IncrKey, KeyThere DEF IncrResent, Live, Count
  <2>2. pc[r] \in {"new", "incr"} /\ pc' = [pc EXCEPT ![r] = "incr"] /\ value' = value
    BY <1>3 DEF IncrResent
  <2>3. Verdict[r] = "new" /\ Verdict' = Verdict
    BY <2>2 DEF TypeOK, Verdict, Compared
  <2>4. C!CountsAgain(r)
    BY <1>1, <1>2, <2>1, <2>3 DEF C!CountsAgain
  <2> QED
    BY <2>4 DEF C!Next
<1>4. CASE IncrementStarts(r)
  <2>1. Count' = Count + 1
    BY <1>4, IncrKey, KeyThere DEF IncrementStarts, Live, Count
  <2>2. /\ pc[r] \in {"new", "incr"} /\ pc' = [pc EXCEPT ![r] = "expire"]
        /\ value' = [value EXCEPT ![r] = Count + 1]
    BY <1>4, IncrKey DEF IncrementStarts
  <2>3. Verdict[r] = "new"
    BY <2>2 DEF Verdict
  <2>4. Verdict' = [Verdict EXCEPT ![r] = IF Count + 1 > DailyCap THEN "exceeded" ELSE "admitted"]
    BY <2>2 DEF TypeOK, Verdict, Compared
  <2>5. C!Increment(r)
    BY <1>1, <1>2, <2>1, <2>3, <2>4 DEF C!Increment
  <2> QED
    BY <2>5 DEF C!Next
<1>5. CASE IncrFails(r)
  <2>1. \E n \in {0, 1} : Count' = Count + n
    <3>1. CASE key' = key
      BY <1>1, <3>1 DEF Count, Live
    <3>2. CASE key' = Incr
      BY <3>2, IncrKey, KeyThere DEF Count, Live
    <3> QED
      BY <1>5, <3>1, <3>2 DEF IncrFails
  <2>2. pc[r] \in {"new", "incr"} /\ pc' = [pc EXCEPT ![r] = "admitted"] /\ value' = value
    BY <1>5 DEF IncrFails
  <2>3. Verdict[r] = "new" /\ Verdict' = [Verdict EXCEPT ![r] = "admitted"]
    BY <2>2 DEF TypeOK, Verdict, Compared
  <2>4. C!Unavailable(r)
    BY <1>1, <1>2, <2>1, <2>3 DEF C!Unavailable
  <2> QED
    BY <2>4 DEF C!Next
<1>6. CASE ExpireResent(r) \/ IncrementEnds(r) \/ ExpireFails(r)
  <2>1. Count' = Count
    <3>1. CASE key' = key
      BY <3>1 DEF Count, Live
    <3>2. CASE key' = Expire
      BY <3>2, ExpireKey, KeyThere DEF Count, Live
    <3> QED
      BY <1>6, <3>1, <3>2 DEF ExpireResent, IncrementEnds, ExpireFails, Prolonged
  <2>2. \/ pc' = pc /\ value' = value
        \/ pc[r] = "expire" /\ pc' = [pc EXCEPT ![r] = Compared(r)] /\ value' = [value EXCEPT ![r] = 0]
    BY <1>6 DEF ExpireResent, IncrementEnds, ExpireFails
  <2>3. Verdict' = Verdict
    BY <2>2 DEF TypeOK, Verdict, Compared
  <2> QED
    BY <1>1, <2>1, <2>3 DEF C!vars
<1>7. CASE RollbackResent(r)
  <2>1. pc[r] \in {"exceeded", "decr"} /\ pc' = [pc EXCEPT ![r] = "decr"] /\ value' = value /\ key' = Decr
    BY <1>7 DEF RollbackResent, TakenOff
  <2>2. Verdict[r] = "exceeded" /\ Verdict' = Verdict
    BY <2>1 DEF TypeOK, Verdict, Compared
  <2>3. Count' = IF Count > 0 THEN Count - 1 ELSE 0
    <3>1. Live' /\ key'.value = IF Count > 0 THEN Count - 1 ELSE 0
      BY <1>1, <2>1, DecrKey, KeyThere DEF Live
    <3> QED
      BY <3>1 DEF Count
  <2>4. C!TakesBackAgain(r)
    BY <1>1, <1>2, <2>2, <2>3 DEF C!TakesBackAgain, C!Lowered
  <2> QED
    BY <2>4 DEF C!Next
<1>8. CASE Rollback(r) \/ RollbackFails(r)
  <2>1. pc[r] \in {"exceeded", "decr"} /\ pc' = [pc EXCEPT ![r] = "denied"] /\ value' = value
    BY <1>8 DEF Rollback, RollbackFails
  <2>2. Verdict[r] = "exceeded" /\ Verdict' = [Verdict EXCEPT ![r] = "denied"]
    BY <2>1 DEF TypeOK, Verdict, Compared
  <2>3. CASE key' = key
    <3>1. Count' = Count
      BY <2>3 DEF Count, Live
    <3>2. C!KeepsCount(r)
      BY <1>1, <2>2, <3>1 DEF C!KeepsCount
    <3> QED
      BY <3>2 DEF C!Next
  <2>4. CASE key' = Decr
    <3>1. Count' = IF Count > 0 THEN Count - 1 ELSE 0
      BY <1>1, <2>4, DecrKey, KeyThere DEF Count, Live
    <3>2. C!Rollback(r)
      BY <1>1, <1>2, <2>2, <3>1 DEF C!Rollback, C!Lowered
    <3> QED
      BY <3>2 DEF C!Next
  <2> QED
    BY <1>8, <2>3, <2>4 DEF Rollback, RollbackFails, TakenOff
<1> QED
  BY <1>3, <1>4, <1>5, <1>6, <1>7, <1>8 DEF Step

\* A tick that takes the key away is the end of a window.
LEMMA TickIsCounterStep ==
  ASSUME TypeOK, Tick
  PROVE  [C!Next]_(C!vars)
<1>1. Verdict' = Verdict /\ [q \in Requests |-> "user"]' = [q \in Requests |-> "user"]
  BY DEF Tick, Verdict, Compared
<1>2. CASE key' = key
  <2>1. Count' = Count
    BY <1>2 DEF Count, Live
  <2> QED
    BY <1>1, <2>1 DEF C!vars
<1>3. CASE key' = Absent
  <2>1. Count' = 0
    BY <1>3 DEF Count, Live
  <2>2. C!WindowsEnd({"user"})
    BY <1>1, <2>1 DEF C!WindowsEnd
  <2> QED
    BY <2>2 DEF C!Next
<1> QED
  BY <1>2, <1>3 DEF Tick

\* The counter in Redis implements the abstract one that is not reliable: Increment
\* takes effect at the INCR that answered, however its commands interleave with
\* those of other requests and with the end of windows, whichever of them fail and
\* whichever are executed more than once.
THEOREM RefinesCounter == Spec => ImplementsCounter
<1>1. Init => C!Init
  <2> SUFFICES ASSUME Init PROVE C!Init
    OBVIOUS
  <2>1. Verdict = [r \in Requests |-> "new"] /\ Count = 0
    BY DEF Init, Verdict, Count, Live
  <2> QED
    BY <2>1 DEF C!Init
<1>2. TypeOK /\ [Next]_vars => [C!Next]_(C!vars)
  <2> SUFFICES ASSUME TypeOK, [Next]_vars PROVE [C!Next]_(C!vars)
    OBVIOUS
  <2>1. CASE UNCHANGED vars
    BY <2>1 DEF vars, C!vars, Verdict, Compared, Count, Live
  <2> QED
    BY <2>1, StepIsCounterStep, TickIsCounterStep DEF Next
<1> QED
  BY <1>1, <1>2, TypeCorrect, PTL DEF Spec, ImplementsCounter, C!Spec

\* What the script of a request's Rollback does to the key the first time, while
\* nothing has disturbed it: it finds the count of the request there, and takes it
\* off or, not executed at all, leaves it.
FindsCount(r) ==
  ~disturbed /\ pc[r] = "exceeded" /\ pc'[r] # "exceeded" =>
    /\ Live /\ key.value > 0
    /\ Live' /\ key'.expires = key.expires
    /\ key'.value \in {key.value - 1, key.value}

\* As long as nothing has disturbed the key, a rollback executed twice included, the
\* compensating Rollback of a request over the cap does not hit the clamp when it
\* is executed first, which would leave a key without a time to live to whoever
\* increments next.  Executed again it takes off one more: the client sends the
\* script like any other command.
THEOREM RollbackExact == Spec => [][\A r \in Requests : FindsCount(r)]_vars
<1>1. IInv /\ [Next]_vars => [\A r \in Requests : FindsCount(r)]_vars
  <2> SUFFICES ASSUME IInv, Next, NEW r \in Requests, ~disturbed, pc[r] = "exceeded", pc'[r] # "exceeded"
               PROVE  /\ Live /\ key.value > 0
                      /\ Live' /\ key'.expires = key.expires
                      /\ key'.value \in {key.value - 1, key.value}
    BY DEF FindsCount
  <2>1. TypeOK /\ Prompt /\ Tracked
    BY DEF IInv
  <2>2. Live /\ Count > 0
    BY <2>1, HeldIsRecent, RecentIsCounted
  <2>3. key' \in {key, Decr}
    <3>1. PICK q \in Requests : Step(q)
      BY DEF Next, Tick
    <3>2. q = r
      <4>1. PICK p \in Places : pc' = [pc EXCEPT ![q] = p]
        BY <2>1, <3>1, StepEffect
      <4> QED
        BY <2>1, <4>1 DEF TypeOK
    <3>3. RollbackResent(r) \/ Rollback(r) \/ RollbackFails(r)
      BY <3>1, <3>2 DEF Step, IncrResent, IncrementStarts, IncrFails, ExpireResent, IncrementEnds, ExpireFails
    <3> QED
      BY <3>3 DEF RollbackResent, Rollback, RollbackFails, TakenOff
  <2>4. CASE key' = key
    BY <2>1, <2>2, <2>4, KeyThere DEF Live, Count
  <2>5. CASE key' = Decr
    BY <2>1, <2>2, <2>5, DecrKey, KeyThere DEF Live, Count
  <2> QED
    BY <2>3, <2>4, <2>5
<1> QED
  BY <1>1, Invariance, PTL DEF Spec
=============================================================================
