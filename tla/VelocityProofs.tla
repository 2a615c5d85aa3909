--------------------------- MODULE VelocityProofs ---------------------------
(***************************************************************************)
(* Proofs about Velocity, for any finite number of requests and any users, *)
(* cap, window and clock bound.                                            *)
(*                                                                         *)
(* The limit is not inductive: it has to be tied to the value the counter  *)
(* holds.  IInv says that a live entry counts at least the requests that   *)
(* still matter to it (Counted), that it outlives all of them (Covered),   *)
(* and that it counts nothing else (NotOvercounted).                       *)
(***************************************************************************)
EXTENDS Velocity, FiniteSetTheorems, TLAPS

\* The requests of u that are counted and not yet a full window old.
Recent(u) ==
  {r \in Requests : owner[r] = u /\ pc[r] \in {"exceeded", "admitted"} /\ now <= at[r] + Window}

\* The requests of u between their Increment and their Rollback.
Pending(u) == {r \in Requests : owner[r] = u /\ pc[r] = "exceeded"}

\* The requests of u admitted since its present entry was created.
Holding(u) == Admitted(u, since[u], now)

Past == /\ \A r \in Requests : at[r] <= now
        /\ \A u \in Users : since[u] <= now

Prompt == \A r \in Requests : pc[r] = "exceeded" => now <= at[r] + MaxHold

Covered == \A r \in Requests : pc[r] # "new" => at[r] + Window <= mem[owner[r]].expiresAt

\* The entry of a user lasts a window from the user's last attempt.
Kept ==
  \A u \in Users : mem[u].expiresAt # -1 =>
    \E q \in Requests : owner[q] = u /\ pc[q] # "new" /\ mem[u].expiresAt = at[q] + Window

Counted == \A u \in Users : Cardinality(Recent(u)) <= Get(u)

NotOvercounted ==
  \A u \in Users : ~Expired(u) =>
    /\ mem[u].value <= Cardinality(Holding(u)) + Cardinality(Pending(u))
    /\ Pending(u) # {} => Cardinality(Holding(u)) >= DailyCap

IInv == TypeOK /\ Past /\ Prompt /\ Covered /\ Counted /\ NotOvercounted /\ WindowLimit

-----------------------------------------------------------------------------
\* Cardinalities of sets of requests are natural numbers, and monotonic.
LEMMA CardinalityMonotonic ==
  ASSUME NEW T \in SUBSET Requests, NEW S \in SUBSET T
  PROVE  /\ IsFiniteSet(S)
         /\ Cardinality(S) \in Nat
         /\ Cardinality(T) \in Nat
         /\ Cardinality(S) <= Cardinality(T)
<1>1. IsFiniteSet(T)
  BY VelocityAssumption, FS_Subset
<1>2. IsFiniteSet(S) /\ Cardinality(S) <= Cardinality(T)
  BY <1>1, FS_Subset
<1> QED
  BY <1>1, <1>2, FS_CardinalityType

\* One more request makes a set of requests one larger.
LEMMA CardinalityPlusOne ==
  ASSUME NEW S \in SUBSET Requests, NEW r \in Requests, r \notin S
  PROVE  Cardinality(S \cup {r}) = Cardinality(S) + 1
  BY CardinalityMonotonic, FS_AddElement

-----------------------------------------------------------------------------
\* Before any request is counted the invariant holds.
LEMMA InitIInv == Init => IInv
<1> SUFFICES ASSUME Init PROVE IInv
  OBVIOUS
<1>1. TypeOK /\ Past /\ Prompt /\ Covered
  BY VelocityAssumption DEF Init, TypeOK, Past, Prompt, Covered, NoEntry
<1>2. \A u \in Users : Recent(u) = {}
  BY DEF Init, Recent
<1>3. Counted
  <2>1. \A u \in Users : Get(u) \in Nat
    BY <1>1 DEF Get, TypeOK
  <2>2. \A u \in Users : Cardinality(Recent(u)) = 0
    BY <1>2, FS_EmptySet
  <2> QED
    BY <2>1, <2>2 DEF Counted
<1>4. \A u \in Users : Expired(u)
  BY DEF Init, Expired, NoEntry
<1>5. NotOvercounted
  BY <1>4 DEF NotOvercounted
<1>6. \A u \in Users : \A s \in 0..now : Admitted(u, s, s + Window) = {}
  BY DEF Init, Admitted
<1>7. WindowLimit
  BY <1>6, FS_EmptySet, VelocityAssumption DEF WindowLimit
<1> QED
  BY <1>1, <1>3, <1>5, <1>7 DEF IInv

-----------------------------------------------------------------------------
\* Values the counter reads are natural numbers.
LEMMA GetNat == TypeOK => \A u \in Users : Get(u) \in Nat
  BY DEF TypeOK, Get

\* The set a step of request r leaves for the users other than r's owner, and
\* for r's owner, in terms of the sets before the step.
LEMMA CheckDailySets ==
  ASSUME IInv, NEW r \in Requests, CheckDaily(r), NEW u \in Users
  PROVE  /\ u # owner[r] => /\ Recent(u)' = Recent(u)
                            /\ Pending(u)' = Pending(u)
                            /\ Holding(u)' = Holding(u)
                            /\ Get(u)' = Get(u)
                            /\ Expired(u)' = Expired(u)
                            /\ mem'[u] = mem[u]
         /\ u = owner[r] => /\ Recent(u)' = Recent(u) \cup {r}
                            /\ Get(u)' = Get(u) + 1
                            /\ ~Expired(u)'
                            /\ mem'[u].value = Get(u) + 1
         /\ r \notin Recent(u)
<1> USE DEF IInv, TypeOK, CheckDaily
<1>1. u # owner[r] => mem'[u] = mem[u] /\ since'[u] = since[u]
  OBVIOUS
<1>2. u = owner[r] => mem'[u] = Incremented(u)
  OBVIOUS
<1>3. ASSUME NEW q \in Requests, q # r
      PROVE  pc'[q] = pc[q] /\ at'[q] = at[q] /\ owner'[q] = owner[q]
  BY <1>3
<1>4. /\ pc[r] = "new" /\ at'[r] = now /\ owner'[r] = owner[r]
      /\ pc'[r] \in {"exceeded", "admitted"}
  OBVIOUS
<1>5. now' = now /\ now \in Nat /\ Window \in Nat
  BY VelocityAssumption
<1>6. ASSUME u # owner[r]
      PROVE  Recent(u)' = Recent(u) /\ Pending(u)' = Pending(u) /\ Holding(u)' = Holding(u)
  <2>1. Recent(u)' = Recent(u)
    BY <1>3, <1>4, <1>5, <1>6 DEF Recent
  <2>2. Pending(u)' = Pending(u)
    BY <1>3, <1>4, <1>6 DEF Pending
  <2>3. Holding(u)' = Holding(u)
    BY <1>1, <1>3, <1>4, <1>5, <1>6 DEF Holding, Admitted
  <2> QED
    BY <2>1, <2>2, <2>3
<1>7. u # owner[r] => Get(u)' = Get(u) /\ Expired(u)' = Expired(u)
  BY <1>1, <1>5 DEF Get, Expired
<1>8. u = owner[r] => Recent(u)' = Recent(u) \cup {r}
  BY <1>3, <1>4, <1>5 DEF Recent
<1>9. u = owner[r] => ~Expired(u)' /\ mem'[u].value = Get(u) + 1
  BY <1>2, <1>5 DEF Incremented, Expired
<1>10. u = owner[r] => Get(u)' = Get(u) + 1
  BY <1>9 DEF Get
<1>11. r \notin Recent(u)
  BY <1>4 DEF Recent
<1> QED
  BY <1>1, <1>6, <1>7, <1>8, <1>9, <1>10, <1>11

\* A user with a request between Increment and Rollback has a live entry.
LEMMA PendingLive ==
  ASSUME IInv, NEW q \in Requests, pc[q] = "exceeded"
  PROVE  ~Expired(owner[q])
  BY VelocityAssumption DEF IInv, TypeOK, Prompt, Covered, Expired

\* What CheckDaily does to the two sets NotOvercounted is about, when the
\* request finds a live entry and when it creates a fresh one.
LEMMA CheckDailyOwnSets ==
  ASSUME IInv, NEW r \in Requests, CheckDaily(r), NEW u \in Users, u = owner[r]
  PROVE  /\ ~Expired(u) /\ pc'[r] = "admitted" =>
              Holding(u)' = Holding(u) \cup {r} /\ Pending(u)' = Pending(u)
         /\ ~Expired(u) /\ pc'[r] = "exceeded" =>
              Holding(u)' = Holding(u) /\ Pending(u)' = Pending(u) \cup {r}
         /\ Expired(u) /\ pc'[r] = "admitted" => Holding(u)' = {r} /\ Pending(u)' = {}
         /\ Expired(u) /\ pc'[r] = "exceeded" => Holding(u)' = {} /\ Pending(u)' = {r}
         /\ r \notin Holding(u) /\ r \notin Pending(u)
<1> USE DEF IInv, TypeOK, CheckDaily
<1>1. ASSUME NEW q \in Requests, q # r
      PROVE  pc'[q] = pc[q] /\ at'[q] = at[q] /\ owner'[q] = owner[q]
  BY <1>1
<1>2. pc[r] = "new" /\ at'[r] = now /\ owner'[r] = owner[r]
  OBVIOUS
<1>3. now' = now /\ now \in Nat /\ since[u] \in Nat /\ since[u] <= now
  BY DEF Past
<1>4. since'[u] = IF Expired(u) THEN now ELSE since[u]
  OBVIOUS
<1>5. ASSUME Expired(u), NEW q \in Requests, owner[q] = u
      PROVE  pc[q] # "exceeded" /\ (pc[q] = "admitted" => at[q] < now)
  <2>1. pc[q] # "exceeded"
    BY <1>5, PendingLive
  <2>2. pc[q] = "admitted" => at[q] + Window < now
    BY <1>5, VelocityAssumption DEF Covered, Expired
  <2> QED
    BY <2>1, <2>2, VelocityAssumption
<1>6. ASSUME ~Expired(u), pc'[r] = "admitted"
      PROVE  Holding(u)' = Holding(u) \cup {r} /\ Pending(u)' = Pending(u)
  BY <1>1, <1>2, <1>3, <1>4, <1>6 DEF Holding, Admitted, Pending
<1>7. ASSUME ~Expired(u), pc'[r] = "exceeded"
      PROVE  Holding(u)' = Holding(u) /\ Pending(u)' = Pending(u) \cup {r}
  BY <1>1, <1>2, <1>3, <1>4, <1>7 DEF Holding, Admitted, Pending
<1>8. ASSUME Expired(u), pc'[r] = "admitted"
      PROVE  Holding(u)' = {r} /\ Pending(u)' = {}
  BY <1>1, <1>2, <1>3, <1>4, <1>5, <1>8 DEF Holding, Admitted, Pending
<1>9. ASSUME Expired(u), pc'[r] = "exceeded"
      PROVE  Holding(u)' = {} /\ Pending(u)' = {r}
  BY <1>1, <1>2, <1>3, <1>4, <1>5, <1>9 DEF Holding, Admitted, Pending
<1>10. r \notin Holding(u) /\ r \notin Pending(u)
  BY <1>2 DEF Holding, Admitted, Pending
<1> QED
  BY <1>6, <1>7, <1>8, <1>9, <1>10

\* A request over the cap finds DailyCap requests admitted since its entry was
\* created.
LEMMA ExceededMeansFull ==
  ASSUME IInv, NEW r \in Requests, CheckDaily(r), pc'[r] = "exceeded",
         NEW u \in Users, u = owner[r]
  PROVE  Cardinality(Holding(u)') >= DailyCap
<1>1. Get(u) \in Nat /\ Get(u) + 1 > DailyCap
  BY GetNat DEF IInv, TypeOK, CheckDaily, OverCap
<1>2. CASE Expired(u)
  <2>1. Get(u) = 0 /\ DailyCap = 0
    BY <1>1, <1>2, VelocityAssumption DEF Get
  <2>2. Holding(u)' = {}
    BY <1>1, <1>2, CheckDailyOwnSets
  <2> QED
    BY <2>1, <2>2, FS_EmptySet
<1>3. CASE ~Expired(u)
  <2>1. Holding(u)' = Holding(u)
    BY <1>1, <1>3, CheckDailyOwnSets
  <2>2. /\ mem[u].value <= Cardinality(Holding(u)) + Cardinality(Pending(u))
        /\ Pending(u) # {} => Cardinality(Holding(u)) >= DailyCap
    BY <1>1, <1>3 DEF IInv, NotOvercounted
  <2>3. Get(u) = mem[u].value
    BY <1>3 DEF Get
  <2>4. Cardinality(Holding(u)) \in Nat
    BY CardinalityMonotonic DEF Holding, Admitted
  <2>5. CASE Pending(u) = {}
    <3>1. Cardinality(Pending(u)) = 0
      BY <2>5, FS_EmptySet
    <3> QED
      BY <1>1, <2>1, <2>2, <2>3, <2>4, <3>1, VelocityAssumption
  <2> QED
    BY <2>1, <2>2, <2>5
<1> QED
  BY <1>2, <1>3

-----------------------------------------------------------------------------
\* Increment and the comparison with the cap preserve the invariant.
LEMMA CheckDailyIInv ==
  ASSUME IInv, NEW r \in Requests, CheckDaily(r)
  PROVE  IInv'
<1>1. TypeOK' /\ Past' /\ Prompt' /\ Covered'
  <2> USE VelocityAssumption DEF IInv, TypeOK, CheckDaily
  <2>1. owner[r] \in Users /\ now \in Nat /\ Get(owner[r]) \in Nat
    BY GetNat
  <2>2. Incremented(owner[r]) \in [value : Nat, expiresAt : -1..(now + Window)]
    BY <2>1 DEF Incremented
  <2>3. TypeOK'
    BY <2>1, <2>2
  <2>4. Past'
    BY <2>1 DEF Past
  <2>5. Prompt'
    BY <2>1 DEF Prompt
  <2>6. Covered'
    <3>1. \A u \in Users : mem'[u].expiresAt >= mem[u].expiresAt
      BY <2>1 DEF Incremented
    <3>2. mem'[owner[r]].expiresAt = now + Window
      BY <2>1 DEF Incremented
    <3>3. ASSUME NEW q \in Requests, pc'[q] # "new"
          PROVE  at'[q] + Window <= mem'[owner'[q]].expiresAt
      <4>1. CASE q = r
        BY <3>2, <4>1, <2>1
      <4>2. CASE q # r
        <5>1. pc[q] # "new" /\ at'[q] = at[q] /\ owner'[q] = owner[q] /\ owner[q] \in Users
          BY <3>3, <4>2
        <5> QED
          BY <5>1, <2>3, <3>1 DEF Covered
      <4> QED
        BY <4>1, <4>2
    <3> QED
      BY <3>3 DEF Covered
  <2> QED
    BY <2>3, <2>4, <2>5, <2>6
<1>2. Counted'
  <2> SUFFICES ASSUME NEW u \in Users PROVE Cardinality(Recent(u)') <= Get(u)'
    BY DEF Counted
  <2>1. Cardinality(Recent(u)) <= Get(u) /\ Get(u) \in Nat
    BY GetNat DEF IInv, Counted
  <2>2. Recent(u) \in SUBSET Requests
    BY DEF Recent
  <2>3. Cardinality(Recent(u)) \in Nat /\ Cardinality(Recent(u) \cup {r}) = Cardinality(Recent(u)) + 1
    BY <2>2, CardinalityMonotonic, CardinalityPlusOne, CheckDailySets
  <2> QED
    BY <2>1, <2>3, CheckDailySets
<1>3. NotOvercounted'
  <2> SUFFICES ASSUME NEW u \in Users, ~Expired(u)'
               PROVE  /\ mem'[u].value <= Cardinality(Holding(u)') + Cardinality(Pending(u)')
                      /\ Pending(u)' # {} => Cardinality(Holding(u)') >= DailyCap
    BY DEF NotOvercounted
  <2>1. CASE u # owner[r]
    BY <2>1, CheckDailySets DEF IInv, NotOvercounted
  <2>2. CASE u = owner[r]
    <3>1. Holding(u) \in SUBSET Requests /\ Pending(u) \in SUBSET Requests
      BY DEF Holding, Admitted, Pending
    <3>2. /\ Cardinality(Holding(u)) \in Nat /\ Cardinality(Pending(u)) \in Nat
          /\ Cardinality(Holding(u) \cup {r}) = Cardinality(Holding(u)) + 1
          /\ Cardinality(Pending(u) \cup {r}) = Cardinality(Pending(u)) + 1
      BY <2>2, <3>1, CardinalityMonotonic, CardinalityPlusOne, CheckDailyOwnSets
    <3>3. Cardinality({}) = 0 /\ Cardinality({r}) = 1
      BY FS_EmptySet, FS_Singleton
    <3>4. mem'[u].value = Get(u) + 1 /\ Get(u) \in Nat
      BY <2>2, CheckDailySets, GetNat DEF IInv
    <3>5. pc'[r] \in {"admitted", "exceeded"}
      BY DEF IInv, TypeOK, CheckDaily
    <3>6. ~Expired(u) => /\ Get(u) = mem[u].value
                         /\ mem[u].value <= Cardinality(Holding(u)) + Cardinality(Pending(u))
                         /\ Pending(u) # {} => Cardinality(Holding(u)) >= DailyCap
      BY DEF IInv, NotOvercounted, Get
    <3>7. Expired(u) => Get(u) = 0
      BY DEF Get
    <3>8. CASE pc'[r] = "exceeded"
      <4>1. Cardinality(Holding(u)') >= DailyCap
        BY <2>2, <3>8, ExceededMeansFull
      <4>2. CASE Expired(u)
        <5>1. Holding(u)' = {} /\ Pending(u)' = {r}
          BY <2>2, <3>8, <4>2, CheckDailyOwnSets
        <5> QED
          BY <3>3, <3>4, <3>7, <4>1, <4>2, <5>1
      <4>3. CASE ~Expired(u)
        <5>1. Holding(u)' = Holding(u) /\ Pending(u)' = Pending(u) \cup {r}
          BY <2>2, <3>8, <4>3, CheckDailyOwnSets
        <5> QED
          BY <3>2, <3>4, <3>6, <4>1, <4>3, <5>1
      <4> QED
        BY <4>2, <4>3
    <3>9. CASE pc'[r] = "admitted"
      <4>1. CASE Expired(u)
        <5>1. Holding(u)' = {r} /\ Pending(u)' = {}
          BY <2>2, <3>9, <4>1, CheckDailyOwnSets
        <5> QED
          BY <3>3, <3>4, <3>7, <4>1, <5>1
      <4>2. CASE ~Expired(u)
        <5>1. Holding(u)' = Holding(u) \cup {r} /\ Pending(u)' = Pending(u)
          BY <2>2, <3>9, <4>2, CheckDailyOwnSets
        <5> QED
          BY <3>2, <3>4, <3>6, <4>2, <5>1, VelocityAssumption
      <4> QED
        BY <4>1, <4>2
    <3> QED
      BY <3>5, <3>8, <3>9
  <2> QED
    BY <2>1, <2>2
<1>4. WindowLimit'
  <2> SUFFICES ASSUME NEW u \in Users, NEW s \in 0..now
               PROVE  Cardinality(Admitted(u, s, s + Window)') <= DailyCap
    BY DEF WindowLimit, CheckDaily
  <2>1. Cardinality(Admitted(u, s, s + Window)) <= DailyCap
    BY DEF IInv, WindowLimit
  <2>2. CASE u = owner[r] /\ pc'[r] = "admitted" /\ now <= s + Window
    <3>1. Get(u) + 1 <= DailyCap /\ Get(u) \in Nat
      BY <2>2, GetNat, VelocityAssumption DEF IInv, TypeOK, CheckDaily, OverCap
    <3>2. Cardinality(Recent(u)') <= DailyCap
      <4>1. Cardinality(Recent(u)') <= Get(u)'
        BY <1>2 DEF Counted
      <4>2. Get(u)' = Get(u) + 1
        BY <2>2, CheckDailySets
      <4>3. Cardinality(Recent(u)') \in Nat
        BY CardinalityMonotonic DEF Recent
      <4> QED
        BY <3>1, <4>1, <4>2, <4>3, VelocityAssumption
    <3>3. Admitted(u, s, s + Window)' \subseteq Recent(u)'
      BY <1>1, <2>2, VelocityAssumption DEF Admitted, Recent, TypeOK, CheckDaily
    <3>4. Recent(u)' \subseteq Requests
      BY DEF Recent
    <3> QED
      BY <3>2, <3>3, <3>4, CardinalityMonotonic, VelocityAssumption
  <2>3. CASE ~(u = owner[r] /\ pc'[r] = "admitted" /\ now <= s + Window)
    <3>1. ASSUME NEW q \in Requests, q # r
          PROVE  pc'[q] = pc[q] /\ at'[q] = at[q] /\ owner'[q] = owner[q]
      BY <3>1 DEF IInv, TypeOK, CheckDaily
    <3>2. r \notin Admitted(u, s, s + Window)' /\ r \notin Admitted(u, s, s + Window)
      BY <2>3 DEF Admitted, IInv, TypeOK, CheckDaily
    <3>3. Admitted(u, s, s + Window)' = Admitted(u, s, s + Window)
      BY <3>1, <3>2 DEF Admitted
    <3> QED
      BY <2>1, <3>3
  <2> QED
    BY <2>2, <2>3
<1> QED
  BY <1>1, <1>2, <1>3, <1>4 DEF IInv

\* A rollback finds its entry alive with a positive value.
LEMMA RollbackFindsEntry ==
  ASSUME IInv, NEW r \in Requests, RollbackDaily(r), NEW u \in Users, u = owner[r]
  PROVE  /\ ~Expired(u)
         /\ r \in Recent(u)
         /\ mem[u].value \in Nat \ {0}
         /\ mem'[u].value = mem[u].value - 1
         /\ mem'[u].expiresAt = mem[u].expiresAt
<1>1. ~Expired(u)
  BY PendingLive DEF RollbackDaily
<1>2. r \in Recent(u)
  BY VelocityAssumption DEF Recent, RollbackDaily, IInv, TypeOK, Prompt
<1>3. Cardinality(Recent(u)) \in Nat \ {0}
  <2>1. IsFiniteSet(Recent(u)) /\ Cardinality(Recent(u)) \in Nat
    BY CardinalityMonotonic DEF Recent
  <2> QED
    BY <1>2, <2>1, FS_EmptySet
<1>4. mem[u].value \in Nat \ {0}
  <2>1. Cardinality(Recent(u)) <= mem[u].value
    BY <1>1 DEF IInv, Counted, Get
  <2>2. mem[u].value \in Nat
    BY DEF IInv, TypeOK
  <2> QED
    BY <1>3, <2>1, <2>2
<1>5. mem'[u] = [mem[u] EXCEPT !.value = @ - 1]
  BY <1>1, <1>4 DEF RollbackDaily, RolledBack, IInv, TypeOK
<1> QED
  BY <1>1, <1>2, <1>4, <1>5 DEF IInv, TypeOK

\* The compensating rollback preserves the invariant.
LEMMA RollbackDailyIInv ==
  ASSUME IInv, NEW r \in Requests, RollbackDaily(r)
  PROVE  IInv'
<1> DEFINE w == owner[r]
<1>1. /\ w \in Users /\ now' = now /\ owner' = owner /\ at' = at /\ since' = since
      /\ pc[r] = "exceeded" /\ pc'[r] = "denied"
      /\ \A q \in Requests : q # r => pc'[q] = pc[q]
      /\ \A u \in Users : u # w => mem'[u] = mem[u]
  BY DEF IInv, TypeOK, RollbackDaily
<1>2. /\ ~Expired(w) /\ r \in Recent(w) /\ mem[w].value \in Nat \ {0}
      /\ mem'[w].value = mem[w].value - 1 /\ mem'[w].expiresAt = mem[w].expiresAt
  BY <1>1, RollbackFindsEntry
<1>3. TypeOK' /\ Past' /\ Prompt' /\ Covered'
  <2>1. TypeOK'
    <3>1. RolledBack(w) \in [value : Nat, expiresAt : -1..(now + Window)]
      <4>1. mem[w] \in [value : Nat, expiresAt : -1..(now + Window)]
        BY <1>1 DEF IInv, TypeOK
      <4> HIDE DEF w
      <4>2. mem[w].value - 1 \in Nat
        BY <1>2
      <4> QED
        BY <1>2, <4>1, <4>2 DEF RolledBack
    <3> QED
      BY <1>1, <3>1 DEF IInv, TypeOK, RollbackDaily
  <2>2. \A u \in Users : mem'[u].expiresAt = mem[u].expiresAt
    BY <1>1, <1>2
  <2>3. Past' /\ Prompt'
    BY <1>1 DEF IInv, Past, Prompt
  <2>4. Covered'
    BY <1>1, <2>2 DEF IInv, TypeOK, Covered
  <2> QED
    BY <2>1, <2>3, <2>4
<1>4. ASSUME NEW u \in Users
      PROVE  /\ Expired(u)' = Expired(u)
             /\ Holding(u)' = Holding(u)
             /\ \A s : Admitted(u, s, s + Window)' = Admitted(u, s, s + Window)
             /\ u # w => Recent(u)' = Recent(u) /\ Pending(u)' = Pending(u) /\ Get(u)' = Get(u)
             /\ u = w => Recent(u)' = Recent(u) \ {r} /\ Pending(u)' = Pending(u) \ {r}
                          /\ Get(u)' = Get(u) - 1
  <2>1. Expired(u)' = Expired(u)
    BY <1>1, <1>2 DEF Expired
  <2>2. \A s, t : Admitted(u, s, t)' = Admitted(u, s, t)
    BY <1>1 DEF Admitted
  <2>3. Holding(u)' = Holding(u)
    BY <1>1, <2>2 DEF Holding
  <2>4. u # w => Recent(u)' = Recent(u) /\ Pending(u)' = Pending(u)
    BY <1>1 DEF Recent, Pending
  <2>5. u = w => Recent(u)' = Recent(u) \ {r} /\ Pending(u)' = Pending(u) \ {r}
    BY <1>1 DEF Recent, Pending
  <2>6. (u # w => Get(u)' = Get(u)) /\ (u = w => Get(u)' = Get(u) - 1)
    BY <1>1, <1>2, <2>1 DEF Get
  <2> QED
    BY <2>1, <2>2, <2>3, <2>4, <2>5, <2>6
<1>5. Recent(w) \in SUBSET Requests /\ Pending(w) \in SUBSET Requests /\ r \in Pending(w)
  BY <1>1 DEF Recent, Pending
<1>6. /\ Cardinality(Recent(w)) \in Nat
      /\ Cardinality(Recent(w) \ {r}) = Cardinality(Recent(w)) - 1
      /\ Cardinality(Pending(w)) \in Nat
      /\ Cardinality(Pending(w) \ {r}) = Cardinality(Pending(w)) - 1
  BY <1>2, <1>5, CardinalityMonotonic, FS_RemoveElement
<1>7. Counted'
  <2> SUFFICES ASSUME NEW u \in Users PROVE Cardinality(Recent(u)') <= Get(u)'
    BY DEF Counted
  <2>1. Cardinality(Recent(u)) <= Get(u) /\ Get(u) \in Nat
    BY GetNat DEF IInv, Counted
  <2> QED
    BY <2>1, <1>4, <1>6
<1>8. NotOvercounted'
  <2> SUFFICES ASSUME NEW u \in Users, ~Expired(u)'
               PROVE  /\ mem'[u].value <= Cardinality(Holding(u)') + Cardinality(Pending(u)')
                      /\ Pending(u)' # {} => Cardinality(Holding(u)') >= DailyCap
    BY DEF NotOvercounted
  <2>1. /\ mem[u].value <= Cardinality(Holding(u)) + Cardinality(Pending(u))
        /\ Pending(u) # {} => Cardinality(Holding(u)) >= DailyCap
    BY <1>4 DEF IInv, NotOvercounted
  <2>2. Cardinality(Holding(u)) \in Nat
    BY CardinalityMonotonic DEF Holding, Admitted
  <2>3. CASE u # w
    BY <1>1, <1>4, <2>1, <2>3
  <2>4. CASE u = w
    <3>1. Holding(u)' = Holding(u) /\ Pending(u)' = Pending(u) \ {r} /\ ~Expired(u)
      BY <1>4, <2>4
    <3>2. Cardinality(Pending(u)') = Cardinality(Pending(u)) - 1 /\ Cardinality(Pending(u)) \in Nat
      BY <1>6, <2>4, <3>1
    <3>3. Cardinality(Holding(u)) >= DailyCap
      BY <1>5, <2>1, <2>4, <3>1
    <3>4. mem'[u].value <= Cardinality(Holding(u)) + Cardinality(Pending(u)) - 1
      <4>1. mem[u].value \in Nat /\ mem'[u].value = mem[u].value - 1
        BY <1>1, <1>2, <2>4
      <4> QED
        BY <2>1, <2>2, <3>1, <3>2, <4>1
    <3> QED
      BY <2>2, <3>1, <3>2, <3>3, <3>4
  <2> QED
    BY <2>3, <2>4
<1>9. WindowLimit'
  BY <1>1, <1>4 DEF IInv, WindowLimit
<1> QED
  BY <1>3, <1>7, <1>8, <1>9 DEF IInv

\* The clock preserves the invariant: requests only leave the present window.
LEMMA TickIInv == IInv /\ Tick => IInv'
<1> SUFFICES ASSUME IInv, Tick PROVE IInv'
  OBVIOUS
<1>1. /\ now \in Nat /\ now' = now + 1
      /\ mem' = mem /\ pc' = pc /\ owner' = owner /\ at' = at /\ since' = since
  BY DEF IInv, TypeOK, Tick
<1>2. TypeOK' /\ Past' /\ Prompt' /\ Covered'
  <2>1. TypeOK'
    BY <1>1, VelocityAssumption DEF IInv, TypeOK
  <2>2. Past' /\ Covered'
    BY <1>1 DEF IInv, TypeOK, Past, Covered
  <2>3. Prompt'
    BY <1>1, VelocityAssumption DEF IInv, TypeOK, Prompt, Tick
  <2> QED
    BY <2>1, <2>2, <2>3
<1>3. Counted'
  <2> SUFFICES ASSUME NEW u \in Users PROVE Cardinality(Recent(u)') <= Get(u)'
    BY DEF Counted
  <2>1. Cardinality(Recent(u)) <= Get(u) /\ Get(u) \in Nat
    BY GetNat DEF IInv, Counted
  <2>2. Recent(u)' \in SUBSET Recent(u) /\ Recent(u) \in SUBSET Requests
    BY <1>1, VelocityAssumption DEF Recent, IInv, TypeOK
  <2>3. CASE ~Expired(u)'
    <3>1. Get(u)' = Get(u)
      BY <1>1, <2>3 DEF Get, Expired, IInv, TypeOK
    <3> QED
      BY <2>1, <2>2, <3>1, CardinalityMonotonic
  <2>4. CASE Expired(u)'
    <3>1. Recent(u)' = {}
      BY <1>1, <1>2, <2>4, VelocityAssumption DEF Recent, Covered, Expired, IInv, TypeOK
    <3> QED
      BY <3>1, <2>4, FS_EmptySet DEF Get
  <2> QED
    BY <2>3, <2>4
<1>4. NotOvercounted'
  <2> SUFFICES ASSUME NEW u \in Users, ~Expired(u)'
               PROVE  /\ mem'[u].value <= Cardinality(Holding(u)') + Cardinality(Pending(u)')
                      /\ Pending(u)' # {} => Cardinality(Holding(u)') >= DailyCap
    BY DEF NotOvercounted
  <2>1. ~Expired(u)
    BY <1>1 DEF Expired, IInv, TypeOK
  <2>2. Pending(u)' = Pending(u)
    BY <1>1 DEF Pending
  <2>3. Holding(u)' = Holding(u)
    BY <1>1 DEF Holding, Admitted, IInv, TypeOK, Past
  <2> QED
    BY <1>1, <2>1, <2>2, <2>3 DEF IInv, NotOvercounted
<1>5. WindowLimit'
  <2> SUFFICES ASSUME NEW u \in Users, NEW s \in 0..now'
               PROVE  Cardinality(Admitted(u, s, s + Window)') <= DailyCap
    BY DEF WindowLimit
  <2>1. Admitted(u, s, s + Window)' = Admitted(u, s, s + Window)
    BY <1>1 DEF Admitted
  <2>2. CASE s \in 0..now
    BY <2>1, <2>2 DEF IInv, WindowLimit
  <2>3. CASE s = now + 1
    <3>1. Admitted(u, s, s + Window) = {}
      BY <1>1, <2>3 DEF Admitted, IInv, TypeOK, Past
    <3> QED
      BY <2>1, <3>1, FS_EmptySet, VelocityAssumption
  <2> QED
    BY <1>1, <2>2, <2>3
<1> QED
  BY <1>2, <1>3, <1>4, <1>5 DEF IInv

-----------------------------------------------------------------------------
\* The invariant is inductive.
LEMMA NextIInv == IInv /\ [Next]_vars => IInv'
<1> SUFFICES ASSUME IInv, [Next]_vars PROVE IInv'
  OBVIOUS
<1>1. ASSUME NEW r \in Requests, CheckDaily(r) PROVE IInv'
  BY <1>1, CheckDailyIInv
<1>2. ASSUME NEW r \in Requests, RollbackDaily(r) PROVE IInv'
  BY <1>2, RollbackDailyIInv
<1>3. CASE Tick
  BY <1>3, TickIInv
<1>4. CASE UNCHANGED vars
  <2>1. TypeOK' /\ Past' /\ Prompt'
    BY <1>4 DEF vars, IInv, TypeOK, Past, Prompt, Expired
  <2>2. Covered' /\ Counted'
    BY <1>4 DEF vars, IInv, Covered, Counted, Recent, Pending, Holding, Admitted, Get, Expired
  <2>3. NotOvercounted' /\ WindowLimit'
    BY <1>4 DEF vars, IInv, NotOvercounted, WindowLimit, Pending, Holding, Admitted, Expired
  <2> QED
    BY <2>1, <2>2, <2>3 DEF IInv
<1> QED
  BY <1>1, <1>2, <1>3, <1>4 DEF Next

\* In every reachable state the counter accounts for its users' requests.
THEOREM Invariance == Spec => []IInv
  BY InitIInv, NextIInv, PTL DEF Spec

\* Every variable of the limiter keeps its type; in particular no value is
\* negative and no entry outlives a window from now.
THEOREM TypeCorrect == Spec => []TypeOK
<1>1. IInv => TypeOK
  BY DEF IInv
<1> QED
  BY <1>1, Invariance, PTL

\* For every number of concurrent requests: no interval of one window ever
\* holds more than DailyCap admitted requests of one user.
THEOREM DailyLimitHolds == Spec => []WindowLimit
<1>1. IInv => WindowLimit
  BY DEF IInv
<1> QED
  BY <1>1, Invariance, PTL

\* Evaluate's compensating Rollback always takes off exactly what its Increment
\* put on.
THEOREM RollbackExact == Spec => RollbackIsExact
<1> DEFINE Exact == \A r \in Requests : pc[r] = "exceeded" /\ pc'[r] = "denied" =>
                      mem'[owner[r]].value = mem[owner[r]].value - 1
<1>1. IInv /\ [Next]_vars => [Exact]_vars
  <2> SUFFICES ASSUME IInv, Next, NEW r \in Requests, pc[r] = "exceeded", pc'[r] = "denied"
               PROVE  mem'[owner[r]].value = mem[owner[r]].value - 1
    OBVIOUS
  <2>1. RollbackDaily(r)
    BY DEF Next, CheckDaily, RollbackDaily, Tick, IInv, TypeOK
  <2> QED
    BY <2>1, RollbackFindsEntry DEF IInv, TypeOK
<1> QED
  BY <1>1, Invariance, PTL DEF Spec, RollbackIsExact

\* Every attempt gives the entry a window to live, and nothing else does.
LEMMA KeptNext == TypeOK /\ Kept /\ [Next]_vars => Kept'
<1> SUFFICES ASSUME TypeOK, Kept, [Next]_vars, NEW u \in Users, mem'[u].expiresAt # -1
             PROVE  \E q \in Requests : /\ owner'[q] = u /\ pc'[q] # "new"
                                        /\ mem'[u].expiresAt = at'[q] + Window
  BY DEF Kept
<1>1. ASSUME mem'[u].expiresAt = mem[u].expiresAt, owner' = owner,
             \A q \in Requests : pc[q] # "new" => pc'[q] # "new" /\ at'[q] = at[q]
      PROVE  \E q \in Requests : /\ owner'[q] = u /\ pc'[q] # "new"
                                 /\ mem'[u].expiresAt = at'[q] + Window
  BY <1>1 DEF Kept
<1>2. ASSUME NEW r \in Requests, CheckDaily(r)
      PROVE  \E q \in Requests : /\ owner'[q] = u /\ pc'[q] # "new"
                                 /\ mem'[u].expiresAt = at'[q] + Window
  <2>1. /\ owner' = owner /\ pc'[r] # "new" /\ at'[r] = now
        /\ \A q \in Requests : pc[q] # "new" => pc'[q] # "new" /\ at'[q] = at[q]
    BY <1>2 DEF CheckDaily, TypeOK
  <2>2. CASE u = owner[r]
    <3>1. mem'[u].expiresAt = now + Window
      BY <1>2, <2>2 DEF CheckDaily, Incremented, TypeOK
    <3> QED
      BY <2>1, <2>2, <3>1
  <2>3. CASE u # owner[r]
    <3>1. mem'[u] = mem[u]
      BY <1>2, <2>3 DEF CheckDaily, TypeOK
    <3> QED
      BY <1>1, <2>1, <3>1
  <2> QED
    BY <2>2, <2>3
<1>3. ASSUME NEW r \in Requests, RollbackDaily(r)
      PROVE  \E q \in Requests : /\ owner'[q] = u /\ pc'[q] # "new"
                                 /\ mem'[u].expiresAt = at'[q] + Window
  <2>1. owner' = owner /\ \A q \in Requests : pc[q] # "new" => pc'[q] # "new" /\ at'[q] = at[q]
    BY <1>3 DEF RollbackDaily, TypeOK
  <2>2. RolledBack(owner[r]).expiresAt = mem[owner[r]].expiresAt
    <3>1. mem[owner[r]] \in [value : Nat, expiresAt : -1..(now + Window)]
      BY DEF TypeOK
    <3> QED
      BY <3>1 DEF RolledBack
  <2>3. mem'[u] = IF u = owner[r] THEN RolledBack(u) ELSE mem[u]
    BY <1>3 DEF RollbackDaily, TypeOK
  <2> QED
    BY <1>1, <2>1, <2>2, <2>3
<1>4. CASE Tick \/ UNCHANGED vars
  BY <1>1, <1>4 DEF Tick, vars
<1> QED
  BY <1>2, <1>3, <1>4 DEF Next

\* Evaluate denies for velocity only when DailyCap requests of the user were
\* admitted since the entry was created and the user's last attempt, which may have
\* been denied itself, is at most a window old: rolled-back increments take no
\* place, and a user who stays away for a window is free again.
THEOREM DenialsExplained == Spec => DeniedOnlyByFullEntry
<1> DEFINE Explained ==
      \A r \in Requests : pc[r] = "new" /\ pc'[r] = "exceeded" =>
        /\ Cardinality(Admitted(owner[r], since'[owner[r]], now)) >= DailyCap
        /\ DailyCap > 0 => Attempts(owner[r]) # {}
<1>1. IInv /\ Kept /\ [Next]_vars => [Explained]_vars
  <2> SUFFICES ASSUME IInv, Kept, Next, NEW r \in Requests, pc[r] = "new", pc'[r] = "exceeded",
                      NEW u \in Users, u = owner[r]
               PROVE  /\ Cardinality(Admitted(u, since'[u], now)) >= DailyCap
                      /\ DailyCap > 0 => Attempts(u) # {}
    BY DEF IInv, TypeOK
  <2>1. CheckDaily(r)
    BY DEF Next, CheckDaily, RollbackDaily, Tick, IInv, TypeOK
  <2>2. Holding(u)' = Admitted(u, since'[u], now)
    BY <2>1 DEF Holding, Admitted, CheckDaily, IInv, TypeOK
  <2>3. Cardinality(Admitted(u, since'[u], now)) >= DailyCap
    BY <2>1, <2>2, ExceededMeansFull
  <2>4. ASSUME DailyCap > 0 PROVE Attempts(u) # {}
    <3>1. Get(u) + 1 > DailyCap
      BY <2>1 DEF CheckDaily, OverCap, IInv, TypeOK
    <3>2. ~Expired(u)
      BY <2>4, <3>1, VelocityAssumption DEF Get
    <3>3. now <= mem[u].expiresAt /\ mem[u].expiresAt # -1
      BY <3>2 DEF Expired, IInv, TypeOK
    <3>4. PICK q \in Requests : owner[q] = u /\ pc[q] # "new" /\ mem[u].expiresAt = at[q] + Window
      BY <3>3 DEF Kept
    <3> QED
      BY <3>3, <3>4 DEF Attempts
  <2> QED
    BY <2>3, <2>4
<1>2. Init => Kept
  BY DEF Init, Kept, NoEntry
<1>3. IInv /\ Kept /\ [Next]_vars => Kept'
  BY KeptNext DEF IInv
<1> QED
  BY <1>1, <1>2, <1>3, Invariance, PTL DEF Spec, DeniedOnlyByFullEntry

-----------------------------------------------------------------------------
\* Each step on the map is a step of the abstract counter; a tick under which
\* entries expire ends the windows of their users.
LEMMA NextIsCounterStep == TypeOK /\ [Next]_vars => [C!Next]_(C!vars)
<1> SUFFICES ASSUME TypeOK, [Next]_vars PROVE [C!Next]_(C!vars)
  OBVIOUS
<1> DEFINE count == [u \in Users |-> Get(u)]
<1>0. DOMAIN mem = Users /\ (\A u \in Users : Get(u) \in Nat) /\ \A r \in Requests : owner[r] \in Users
  BY GetNat DEF TypeOK
<1>1. ASSUME NEW r \in Requests, CheckDaily(r) PROVE C!Increment(r)
  <2>1. \A u \in Users : Get(u)' = IF u = owner[r] THEN Get(u) + 1 ELSE Get(u)
    <3> SUFFICES ASSUME NEW u \in Users
                 PROVE  Get(u)' = IF u = owner[r] THEN Get(u) + 1 ELSE Get(u)
      OBVIOUS
    <3>1. now' = now /\ mem'[u] = IF u = owner[r] THEN Incremented(u) ELSE mem[u]
      BY <1>0, <1>1 DEF CheckDaily
    <3>2. u = owner[r] => ~Expired(u)' /\ mem'[u].value = Get(u) + 1
      BY <3>1, VelocityAssumption DEF Expired, Incremented, TypeOK
    <3>3. u # owner[r] => Expired(u)' = Expired(u)
      BY <3>1 DEF Expired
    <3> QED
      BY <3>1, <3>2, <3>3 DEF Get
  <2>2. count' = [count EXCEPT ![owner[r]] = @ + 1]
    BY <1>0, <2>1
  <2>3. count'[owner[r]] = Get(owner[r]) + 1
    BY <1>0, <2>1
  <2>4. /\ pc[r] = "new" /\ owner' = owner
        /\ pc' = [pc EXCEPT ![r] = IF Get(owner[r]) + 1 > DailyCap THEN "exceeded" ELSE "admitted"]
    BY <1>1 DEF CheckDaily, OverCap
  <2> QED
    BY <2>2, <2>3, <2>4 DEF C!Increment
<1>2. ASSUME NEW r \in Requests, RollbackDaily(r) PROVE C!Rollback(r)
  <2>1. \A u \in Users : Get(u)' = IF u = owner[r] THEN IF Get(u) > 0 THEN Get(u) - 1 ELSE 0
                                   ELSE Get(u)
    <3> SUFFICES ASSUME NEW u \in Users
                 PROVE  Get(u)' = IF u = owner[r] THEN IF Get(u) > 0 THEN Get(u) - 1 ELSE 0
                                  ELSE Get(u)
      OBVIOUS
    <3>1. now' = now /\ mem'[u] = IF u = owner[r] THEN RolledBack(u) ELSE mem[u]
      BY <1>0, <1>2 DEF RollbackDaily
    <3>2. mem[u] \in [value : Nat, expiresAt : -1..(now + Window)]
      BY DEF TypeOK
    <3>3. RolledBack(u).expiresAt = mem[u].expiresAt
      BY <3>2 DEF RolledBack
    <3>4. Expired(u)' = Expired(u)
      BY <3>1, <3>3 DEF Expired
    <3>5. ~Expired(u) => RolledBack(u).value = IF mem[u].value = 0 THEN 0 ELSE mem[u].value - 1
      BY <3>2 DEF RolledBack
    <3> QED
      BY <3>1, <3>2, <3>4, <3>5 DEF Get
  <2>2. count' = [count EXCEPT ![owner[r]] = IF @ > 0 THEN @ - 1 ELSE 0]
    BY <1>0, <2>1
  <2>3. pc[r] = "exceeded" /\ pc' = [pc EXCEPT ![r] = "denied"] /\ owner' = owner
    BY <1>2 DEF RollbackDaily
  <2> QED
    BY <2>2, <2>3 DEF C!Rollback, C!Lowered
<1>3. ASSUME Tick PROVE C!WindowsEnd({u \in Users : Expired(u)'})
  <2>1. \A u \in Users : Get(u)' = IF Expired(u)' THEN 0 ELSE Get(u)
    BY <1>0, <1>3 DEF Tick, Get, Expired, TypeOK
  <2>2. count' = [u \in Users |-> IF u \in {v \in Users : Expired(v)'} THEN 0 ELSE count[u]]
    BY <2>1
  <2>3. owner' = owner /\ pc' = pc
    BY <1>3 DEF Tick
  <2> QED
    BY <2>2, <2>3 DEF C!WindowsEnd
<1>4. CASE UNCHANGED vars
  BY <1>4 DEF vars, C!vars, Get, Expired
<1> QED
  BY <1>1, <1>2, <1>3, <1>4 DEF Next, C!Next

\* MemoryCounter implements the abstract counter, without its failures: for any
\* users, cap and window, the lazily expiring entries are one number per user.
THEOREM RefinesCounter == Spec => ImplementsCounter
<1>1. Init => C!Init
  BY DEF Init, C!Init, Get, Expired, NoEntry
<1> QED
  BY <1>1, NextIsCounterStep, TypeCorrect, PTL DEF Spec, ImplementsCounter, C!Spec
=============================================================================
