--------------------------- MODULE WhitelistProofs ----------------------------
(***************************************************************************)
(* Proofs about Whitelist, for any number of calls, entries, tokens and    *)
(* configurations.  The properties speak of what a call did at its end and *)
(* of what held when it arrived; IInv says what is known in between.       *)
(***************************************************************************)
EXTENDS Whitelist, TLAPS

\* The operation a call runs, given how far it has got.
Routed(c) ==
  /\ pc[c] # "idle" => call[c] \in [op : Ops, entry : Entries]
  /\ pc[c] = "add" => call[c].op = "add"
  /\ pc[c] \in {"get", "update"} => call[c].op = "verify"
  /\ pc[c] = "list" => call[c].op = "list"
  /\ pc[c] \in {"jwks", "scope"} => IsAdminPath(call[c].op)

\* What is left to check of a token, before its claims count as in order.
Cleared(c) ==
  /\ pc[c] = "jwks" =>
       (token[c].kid \in served /\ HasAnyScope(token[c], cfg.scopes) => began[c].inOrder)
  /\ pc[c] = "scope" => (HasAnyScope(token[c], cfg.scopes) => began[c].inOrder)
  /\ pc[c] \in {"add", "get", "update"} => (Enabled(cfg) => began[c].inOrder)

\* What a call was told, or found verified when it arrived, is so.
Lasting(c) ==
  /\ result[c] # "none" => pc[c] = "done"
  /\ result[c] = "ok" /\ call[c].op = "verify" => whitelist[call[c].entry] = "VERIFIED"
  /\ \A e \in began[c].verified : whitelist[e] = "VERIFIED"
  /\ pc[c] = "update" => call[c].entry \notin began[c].verified

Kept(c) ==
  \A e \in began[c].verified :
    result[c] = "ok" =>
      /\ call[c].op = "list" => seen[c][e] = "VERIFIED"
      /\ call[c].op # "list" => call[c].entry # e

CallInv(c) == Routed(c) /\ Cleared(c) /\ Lasting(c) /\ Kept(c)

IInv == TypeOK /\ \A c \in Calls : CallInv(c)

\* A step leaves call c alone when it is not its own.
Idle(c) ==
  /\ pc'[c] = pc[c] /\ call'[c] = call[c] /\ token'[c] = token[c]
  /\ seen'[c] = seen[c] /\ result'[c] = result[c] /\ began'[c] = began[c]

\* The world of a call only gets stricter: keys go, verified entries stay.
Ages ==
  /\ cfg' = cfg
  /\ served' \subseteq served
  /\ \A e \in Entries : whitelist[e] = "VERIFIED" => whitelist'[e] = "VERIFIED"

-----------------------------------------------------------------------------
\* Init has no call under way and nothing promised.
LEMMA InitIInv == Init => IInv
<1> SUFFICES ASSUME Init PROVE IInv
  OBVIOUS
<1>1. TypeOK
  BY WhitelistAssumption DEF Init, TypeOK, Nothing, Statuses, NoCall, NoToken
<1>2. ASSUME NEW c \in Calls PROVE CallInv(c)
  BY DEF Init, CallInv, Routed, Cleared, Lasting, Kept
<1> QED
  BY <1>1, <1>2 DEF IInv

\* A call keeps its invariant through the steps of the others.
LEMMA IdleCall ==
  ASSUME TypeOK, NEW c \in Calls, CallInv(c), Idle(c), Ages
  PROVE  CallInv(c)'
<1> USE DEF CallInv, Idle
<1>0. began[c].verified \subseteq Entries
  BY DEF TypeOK
<1>1. Routed(c)'
  BY DEF Routed
<1>2. Cleared(c)'
  BY Zenon DEF Cleared, Ages
<1>3. Lasting(c)'
  <2>1. result[c] # "none" => call[c] \in [op : Ops, entry : Entries]
    BY DEF Lasting, Routed
  <2>2. result[c] = "ok" => call[c].entry \in Entries
    BY <2>1
  <2> QED
    BY <1>0, <2>2 DEF Lasting, Ages
<1>4. Kept(c)'
  BY DEF Kept
<1> QED
  BY <1>1, <1>2, <1>3, <1>4

\* Each step writes only what belongs to its own call.
LEMMA Frame ==
  ASSUME TypeOK, NEW c \in Calls, Step(c), NEW d \in Calls, d # c
  PROVE  Idle(d)
<1> USE DEF TypeOK, Idle, Answer, Check, Handle, fixed, world
<1>1. CASE Arrive(c)
  BY <1>1 DEF Arrive
<1>2. CASE LookupKey(c) \/ LookupFails(c) \/ CheckScope(c) \/ BadRequest(c)
  BY <1>2 DEF LookupKey, LookupFails, CheckScope, BadRequest
<1>3. CASE Add(c) \/ AddFails(c)
  BY <1>3 DEF Add, AddFails
<1>4. CASE Get(c) \/ Update(c) \/ UpdateFails(c)
  BY <1>4 DEF Get, Update, UpdateFails
<1>5. CASE List(c) \/ ReadFails(c) \/ Lost(c)
  BY <1>5 DEF List, ReadFails, Lost
<1> QED
  BY <1>1, <1>2, <1>3, <1>4, <1>5 DEF Step

\* What a step may do to an entry, and only Add and Verify, the latter when it
\* has found the row pending, do anything.
LEMMA StepAges ==
  ASSUME TypeOK, NEW c \in Calls, Routed(c), Step(c)
  PROVE  /\ Ages
         /\ \A e \in Entries : whitelist'[e] # whitelist[e] =>
              /\ pc[c] \in {"add", "update"} /\ pc'[c] = "done" /\ call[c].entry = e
              /\ whitelist[e] # "VERIFIED" /\ whitelist'[e] = Advanced(whitelist[e])
<1> USE DEF TypeOK, Ages, Answer, world, Advanced
<1>1. CASE /\ UNCHANGED <<cfg, served, whitelist>>
  BY <1>1
<1>2. CASE Add(c) \/ AddFails(c)
  <2>1. call[c].entry \in Entries
    BY <1>2 DEF Routed, Add, AddFails
  <2> QED
    BY <1>2, <2>1 DEF Add, AddFails, Insertable, StatusPending
<1>3. CASE Update(c) \/ UpdateFails(c)
  <2>1. call[c].entry \in Entries
    BY <1>3 DEF Routed, Update, UpdateFails
  <2>2. \A e \in Entries : whitelist[e] \in Statuses
    OBVIOUS
  <2> QED
    BY <1>3, <2>1, <2>2 DEF Update, UpdateFails, StatusVerified, Statuses
<1> QED
  BY <1>1, <1>2, <1>3
     DEF Step, Arrive, LookupKey, LookupFails, CheckScope, BadRequest, Get, List, ReadFails, Lost

\* A handler starts at the step its operation needs.
LEMMA HandlerType ==
  ASSUME NEW op \in Ops
  PROVE  /\ Handler(op) \in {"add", "get", "list"}
         /\ Handler(op) = "add" => op = "add"
         /\ Handler(op) = "get" => op = "verify"
         /\ Handler(op) = "list" => op = "list"
         /\ IsAdminPath(op) => Handler(op) # "list"
BY DEF Handler, Ops, IsAdminPath, AdminPaths

\* The entries some call was told are verified are verified.
LEMMA VerifiedHolds ==
  ASSUME IInv
  PROVE  Verified \subseteq {e \in Entries : whitelist[e] = "VERIFIED"}
<1>1. ASSUME NEW d \in Calls, result[d] = "ok", call[d].op = "verify"
      PROVE  call[d].entry \in Entries /\ whitelist[call[d].entry] = "VERIFIED"
  BY <1>1 DEF IInv, CallInv, Lasting, Routed
<1> QED
  BY <1>1 DEF Verified

\* The types of what every step of a call writes.
StepTypes ==
  /\ pc \in [Calls -> {"idle", "jwks", "scope", "add", "get", "update", "list", "done"}]
  /\ token \in [Calls -> Tokens \cup {NoToken}]
  /\ result \in [Calls -> {"none", "ok", "unauthorized", "forbidden", "bad_request",
                           "not_found", "internal", "lost"}]

\* An answer keeps them.
LEMMA AnswerTypes ==
  ASSUME StepTypes, NEW c \in Calls,
         NEW r \in {"ok", "unauthorized", "forbidden", "bad_request", "duplicate", "not_found",
                    "already_verified", "internal", "lost"},
         Answer(c, r)
  PROVE  StepTypes'
<1>1. ToAppError(r) \in {"ok", "unauthorized", "forbidden", "bad_request", "not_found",
                         "internal", "lost"}
  BY DEF ToAppError
<1> QED
  BY <1>1 DEF StepTypes, Answer

\* Likewise for a step on the way to the answer.
LEMMA CheckTypes ==
  ASSUME StepTypes, NEW c \in Calls, NEW step \in {"jwks", "scope", "add", "get", "update", "list"},
         NEW t \in Tokens \cup {NoToken}, Check(c, step, t)
  PROVE  StepTypes'
BY DEF StepTypes, Check

\* Every step keeps the types.
LEMMA StepTypeOK ==
  ASSUME IInv, NEW c \in Calls, Step(c)
  PROVE  TypeOK'
<1>0. TypeOK /\ StepTypes /\ Routed(c)
  BY DEF IInv, CallInv, TypeOK, StepTypes
<1>1. ASSUME StepTypes', UNCHANGED <<world, fixed, seen>>, whitelist' \in [Entries -> Statuses]
      PROVE  TypeOK'
  BY <1>0, <1>1 DEF TypeOK, StepTypes, world, fixed
<1>2. CASE Arrive(c)
  <2>1. PICK op \in Ops, e \in Entries, t \in Tokens :
          /\ call' = [call EXCEPT ![c] = [op |-> op, entry |-> e]]
          /\ IF ~Enabled(cfg) \/ ~IsAdminPath(op) THEN Handle(c, Handler(op))
             ELSE IF ~ParseAndValidate(cfg, t, now) THEN Answer(c, "unauthorized")
             ELSE Check(c, IF NeedsKey(cfg, t) THEN "jwks" ELSE "scope", t)
          /\ began' = [began EXCEPT ![c] = [inOrder |-> ClaimsInOrder(t), verified |-> Verified]]
    BY <1>2, Zenon DEF Arrive
  <2>2. StepTypes'
    <3>1. Handler(op) \in {"add", "get", "list"}
      BY HandlerType
    <3>2. CASE Handle(c, Handler(op))
      BY <1>0, <3>1, <3>2, CheckTypes DEF Handle
    <3>3. CASE Answer(c, "unauthorized")
      BY <1>0, <3>3, AnswerTypes
    <3>4. CASE Check(c, IF NeedsKey(cfg, t) THEN "jwks" ELSE "scope", t)
      BY <1>0, <3>4, CheckTypes
    <3> QED
      BY <2>1, <3>2, <3>3, <3>4
  <2>3. began' \in [Calls -> [inOrder : BOOLEAN, verified : SUBSET Entries]]
    <3>1. ClaimsInOrder(t) \in BOOLEAN
      BY DEF ClaimsInOrder
    <3>2. [inOrder |-> ClaimsInOrder(t), verified |-> Verified]
            \in [inOrder : BOOLEAN, verified : SUBSET Entries]
      BY <3>1, VerifiedHolds
    <3> QED
      BY <1>0, <2>1, <3>2 DEF TypeOK
  <2>4. call' \in [Calls -> [op : Ops, entry : Entries] \cup {NoCall}]
    BY <1>0, <2>1 DEF TypeOK
  <2>5. UNCHANGED <<world, whitelist, seen>>
    BY <1>2 DEF Arrive
  <2> QED
    BY <1>0, <2>2, <2>3, <2>4, <2>5 DEF TypeOK, StepTypes, world
<1>3. CASE LookupKey(c) \/ LookupFails(c) \/ BadRequest(c) \/ ReadFails(c) \/ Lost(c)
  <2>1. token[c] \in Tokens \cup {NoToken}
    BY <1>0 DEF StepTypes
  <2>2. StepTypes'
    BY <1>0, <1>3, <2>1, AnswerTypes, CheckTypes
       DEF LookupKey, LookupFails, BadRequest, ReadFails, Lost
  <2> QED
    BY <1>0, <1>1, <1>3, <2>2
       DEF LookupKey, LookupFails, BadRequest, ReadFails, Lost, TypeOK
<1>4. CASE CheckScope(c)
  <2>1. Handler(call[c].op) \in {"add", "get", "list"}
    BY <1>0, <1>4, HandlerType DEF CheckScope, Routed
  <2>2. StepTypes'
    BY <1>0, <1>4, <2>1, AnswerTypes, CheckTypes DEF CheckScope, Handle
  <2> QED
    BY <1>0, <1>1, <1>4, <2>2 DEF CheckScope, TypeOK
<1>5. CASE Add(c) \/ AddFails(c)
  <2>1. StepTypes'
    BY <1>0, <1>5, AnswerTypes DEF Add, AddFails
  <2>2. whitelist' \in [Entries -> Statuses]
    BY <1>0, <1>5 DEF Add, AddFails, StatusPending, Statuses, TypeOK
  <2> QED
    BY <1>1, <1>5, <2>1, <2>2 DEF Add, AddFails
<1>6. CASE Get(c)
  <2>1. StepTypes'
    BY <1>0, <1>6, AnswerTypes, CheckTypes DEF Get, Handle
  <2> QED
    BY <1>0, <1>1, <1>6, <2>1 DEF Get, TypeOK
<1>7. CASE Update(c) \/ UpdateFails(c)
  <2>1. StepTypes'
    BY <1>0, <1>7, AnswerTypes DEF Update, UpdateFails
  <2>2. whitelist' \in [Entries -> Statuses]
    BY <1>0, <1>7 DEF Update, UpdateFails, StatusVerified, Statuses, TypeOK
  <2> QED
    BY <1>1, <1>7, <2>1, <2>2 DEF Update, UpdateFails
<1>8. CASE List(c)
  <2>1. StepTypes'
    BY <1>0, <1>8, AnswerTypes DEF List
  <2>2. seen' \in [Calls -> [Entries -> Statuses]]
    BY <1>0, <1>8 DEF List, TypeOK
  <2> QED
    BY <1>0, <1>8, <2>1, <2>2 DEF List, TypeOK, StepTypes, world, fixed
<1> QED
  BY <1>2, <1>3, <1>4, <1>5, <1>6, <1>7, <1>8 DEF Step

\* A call that ends without success promises nothing.
LEMMA EndedCall ==
  ASSUME TypeOK, NEW c \in Calls, CallInv(c), Ages, pc[c] # "idle",
         NEW r, r \notin {"ok", "none"}, Answer(c, r), UNCHANGED <<call, began>>
  PROVE  CallInv(c)'
<1>1. pc'[c] = "done" /\ result'[c] \notin {"ok", "none"} /\ call'[c] = call[c] /\ began'[c] = began[c]
  BY DEF Answer, ToAppError, TypeOK
<1>2. began[c].verified \subseteq Entries
  BY DEF TypeOK
<1> QED
  BY <1>1, <1>2 DEF CallInv, Routed, Cleared, Lasting, Kept, Ages

\* A call that goes on has what its next step needs.
LEMMA ArriveCall ==
  ASSUME IInv, NEW c \in Calls, Arrive(c)
  PROVE  CallInv(c)'
<1> USE DEF Answer, ToAppError, Check, Handle, world
<1>0. TypeOK /\ CallInv(c) /\ pc[c] = "idle" /\ UNCHANGED <<world, whitelist, seen>>
  BY DEF IInv, Arrive
<1>d. DOMAIN pc = Calls /\ DOMAIN token = Calls /\ DOMAIN result = Calls
  BY <1>0 DEF TypeOK
<1>1. PICK op \in Ops, e \in Entries, t \in Tokens :
        /\ call' = [call EXCEPT ![c] = [op |-> op, entry |-> e]]
        /\ IF ~Enabled(cfg) \/ ~IsAdminPath(op) THEN Handle(c, Handler(op))
           ELSE IF ~ParseAndValidate(cfg, t, now) THEN Answer(c, "unauthorized")
           ELSE Check(c, IF NeedsKey(cfg, t) THEN "jwks" ELSE "scope", t)
        /\ began' = [began EXCEPT ![c] = [inOrder |-> ClaimsInOrder(t), verified |-> Verified]]
  BY Zenon DEF Arrive
<1>2. /\ call'[c].op = op /\ call'[c].entry = e
      /\ call'[c] \in [op : Ops, entry : Entries]
      /\ began'[c].inOrder = ClaimsInOrder(t) /\ began'[c].verified = Verified
  BY <1>0, <1>1 DEF TypeOK
<1>3. result[c] = "none"
  BY <1>0 DEF CallInv, Lasting
<1>4. \A x \in began'[c].verified : whitelist'[x] = "VERIFIED"
  BY <1>0, <1>2, VerifiedHolds
<1>5. CASE ~Enabled(cfg) \/ ~IsAdminPath(op)
  <2>1. pc'[c] = Handler(op) /\ result'[c] = "none"
    BY <1>0, <1>1, <1>3, <1>5 DEF TypeOK
  <2>2. Routed(c)'
    BY <1>2, <2>1, HandlerType DEF Routed
  <2>3. Cleared(c)'
    <3>1. Handler(op) = "list" \/ ~Enabled(cfg)
      BY <1>5, HandlerType DEF IsAdminPath, AdminPaths, Ops
    <3>2. Handler(op) \in {"add", "get", "list"}
      BY HandlerType
    <3> QED
      BY <1>0, <2>1, <3>1, <3>2 DEF Cleared
  <2>4. Lasting(c)' /\ Kept(c)'
    <3>1. Handler(op) \in {"add", "get", "list"}
      BY HandlerType
    <3> QED
      BY <1>4, <2>1, <3>1 DEF Lasting, Kept
  <2> QED
    BY <2>2, <2>3, <2>4 DEF CallInv
<1>6. CASE Enabled(cfg) /\ IsAdminPath(op) /\ ~ParseAndValidate(cfg, t, now)
  <2>0. /\ pc' = [pc EXCEPT ![c] = "done"]
        /\ result' = [result EXCEPT ![c] = "unauthorized"]
    BY <1>1, <1>6
  <2>1. pc'[c] = "done" /\ result'[c] = "unauthorized"
    BY <1>d, <2>0
  <2> QED
    <3>1. Routed(c)'
      BY <1>2, <2>1 DEF Routed
    <3>2. Cleared(c)'
      BY <2>1 DEF Cleared
    <3>3. Lasting(c)' /\ Kept(c)'
      BY <1>4, <2>1 DEF Lasting, Kept
    <3> QED
      BY <3>1, <3>2, <3>3 DEF CallInv
<1>7. CASE Enabled(cfg) /\ IsAdminPath(op) /\ ParseAndValidate(cfg, t, now)
  <2>0. /\ pc' = [pc EXCEPT ![c] = IF NeedsKey(cfg, t) THEN "jwks" ELSE "scope"]
        /\ token' = [token EXCEPT ![c] = t] /\ result' = result
    BY <1>1, <1>7
  <2>1. /\ pc'[c] = IF NeedsKey(cfg, t) THEN "jwks" ELSE "scope"
        /\ token'[c] = t /\ result'[c] = "none"
    BY <1>3, <1>d, <2>0
  <2>2. Routed(c)'
    BY <1>2, <1>7, <2>1 DEF Routed, IsAdminPath
  <2>3. Cleared(c)'
    <3>1. NeedsKey(cfg, t) /\ t.kid \in served /\ HasAnyScope(t, cfg.scopes) => ClaimsInOrder(t)
      BY <1>7 DEF ClaimsInOrder
    <3>2. ~NeedsKey(cfg, t) /\ HasAnyScope(t, cfg.scopes) => ClaimsInOrder(t)
      BY <1>7 DEF ClaimsInOrder
    <3>3. cfg' = cfg /\ served' = served
      BY <1>0
    <3> QED
      BY <1>2, <2>1, <3>1, <3>2, <3>3 DEF Cleared
  <2>4. Lasting(c)' /\ Kept(c)'
    BY <1>4, <2>1 DEF Lasting, Kept
  <2> QED
    BY <2>2, <2>3, <2>4 DEF CallInv
<1> QED
  BY <1>5, <1>6, <1>7

\* The steps of the middleware and of the handlers keep what is known of the call.
LEMMA OwnCall ==
  ASSUME IInv, NEW c \in Calls, Step(c), Ages
  PROVE  CallInv(c)'
<1> DEFINE e == call[c].entry
<1>0. TypeOK /\ CallInv(c)
  BY DEF IInv
<1>1. CASE Arrive(c)
  BY <1>1, ArriveCall, Zenon
<1>2. CASE LookupKey(c) /\ FetchJWKS(token[c].kid)
  <2>1. /\ pc[c] = "jwks" /\ pc'[c] = "scope" /\ token'[c] = token[c] /\ result'[c] = result[c]
        /\ cfg' = cfg /\ whitelist' = whitelist /\ call' = call /\ began' = began
        /\ token[c].kid \in served
    BY <1>0, <1>2 DEF LookupKey, Check, FetchJWKS, world, fixed, TypeOK
  <2> QED
    BY <1>0, <2>1, Zenon DEF CallInv, Routed, Cleared, Lasting, Kept
<1>3. CASE CheckScope(c) /\ HasAnyScope(token[c], cfg.scopes)
  <2>1. /\ pc[c] = "scope" /\ pc'[c] = Handler(call[c].op) /\ result'[c] = result[c]
        /\ cfg' = cfg /\ whitelist' = whitelist /\ call' = call /\ began' = began
    BY <1>0, <1>3 DEF CheckScope, Handle, Check, world, fixed, TypeOK
  <2>2. call[c].op \in Ops /\ IsAdminPath(call[c].op) /\ began[c].inOrder
    BY <1>0, <1>3, <2>1 DEF CallInv, Routed, Cleared
  <2>3. /\ Handler(call[c].op) \in {"add", "get"}
        /\ Handler(call[c].op) = "add" => call[c].op = "add"
        /\ Handler(call[c].op) = "get" => call[c].op = "verify"
    BY <2>2, HandlerType
  <2>4. result[c] = "none"
    BY <1>0, <2>1 DEF CallInv, Lasting
  <2>5. Routed(c)'
    BY <1>0, <2>1, <2>3 DEF CallInv, Routed
  <2>6. Cleared(c)'
    <3>1. pc'[c] \in {"add", "get"} /\ began'[c].inOrder
      BY <2>1, <2>2, <2>3
    <3> QED
      BY <3>1 DEF Cleared
  <2>7. Lasting(c)' /\ Kept(c)'
    BY <1>0, <2>1, <2>3, <2>4 DEF CallInv, Lasting, Kept
  <2> QED
    BY <2>5, <2>6, <2>7 DEF CallInv
<1>4. CASE Add(c) /\ Insertable(e)
  <2>1. /\ pc[c] = "add" /\ pc'[c] = "done" /\ result'[c] = "ok"
        /\ whitelist[e] = "ABSENT" /\ call' = call /\ began' = began
    BY <1>0, <1>4 DEF Add, Insertable, Answer, ToAppError, fixed, TypeOK
  <2>2. call[c].op = "add" /\ e \notin began[c].verified /\ began[c].verified \subseteq Entries
    BY <1>0, <2>1 DEF CallInv, Routed, Lasting, TypeOK
  <2> QED
    BY <1>0, <2>1, <2>2 DEF CallInv, Routed, Cleared, Lasting, Kept, Ages
<1>5. CASE Get(c) /\ whitelist[e] # "ABSENT" /\ ~AlreadyVerified(e)
  <2>1. /\ pc[c] = "get" /\ pc'[c] = "update" /\ result'[c] = result[c]
        /\ whitelist[e] # "VERIFIED"
        /\ cfg' = cfg /\ whitelist' = whitelist /\ call' = call /\ began' = began
    BY <1>0, <1>5 DEF Get, Handle, Check, AlreadyVerified, StatusVerified, world, fixed, TypeOK
  <2>2. e \notin began[c].verified
    BY <1>0, <2>1, SMTT(30) DEF CallInv, Lasting
  <2> QED
    BY <1>0, <2>1, <2>2 DEF CallInv, Routed, Cleared, Lasting, Kept
<1>6. CASE Update(c) /\ whitelist[e] # "ABSENT"
  <2>1. /\ pc[c] = "update" /\ pc'[c] = "done" /\ result'[c] = "ok"
        /\ call' = call /\ began' = began
    BY <1>0, <1>6 DEF Update, Answer, ToAppError, fixed, TypeOK
  <2>2. /\ call[c].op = "verify" /\ e \in Entries /\ e \notin began[c].verified
        /\ began[c].verified \subseteq Entries
    BY <1>0, <2>1 DEF CallInv, Routed, Lasting, TypeOK
  <2>3. whitelist'[e] = "VERIFIED"
    BY <1>0, <1>6, <2>2 DEF Update, StatusVerified, TypeOK
  <2> QED
    BY <1>0, <2>1, <2>2, <2>3 DEF CallInv, Routed, Cleared, Lasting, Kept, Ages
<1>7. CASE List(c)
  <2>1. /\ pc[c] = "list" /\ pc'[c] = "done" /\ result'[c] = "ok"
        /\ call' = call /\ began' = began /\ whitelist' = whitelist /\ seen'[c] = whitelist
    BY <1>0, <1>7 DEF List, Answer, ToAppError, fixed, TypeOK
  <2>2. call[c].op = "list" /\ \A x \in began[c].verified : whitelist[x] = "VERIFIED"
    BY <1>0, <2>1 DEF CallInv, Routed, Lasting
  <2> QED
    BY <1>0, <2>1, <2>2 DEF CallInv, Routed, Cleared, Lasting, Kept
<1>8. CASE /\ pc[c] # "idle" /\ UNCHANGED <<call, began>>
           /\ \E r \in {"unauthorized", "forbidden", "bad_request", "duplicate", "not_found",
                        "already_verified", "internal", "lost"} : Answer(c, r)
  BY <1>0, <1>8, EndedCall
<1> QED
  <2>1. CASE LookupKey(c) \/ LookupFails(c) \/ CheckScope(c) \/ BadRequest(c) \/ ReadFails(c) \/ Lost(c)
    BY <2>1, <1>2, <1>3, <1>8
       DEF LookupKey, LookupFails, CheckScope, BadRequest, ReadFails, Lost, fixed
  <2>2. CASE Add(c) \/ AddFails(c) \/ Get(c) \/ Update(c) \/ UpdateFails(c)
    BY <2>2, <1>4, <1>5, <1>6, <1>8 DEF Add, AddFails, Get, Update, UpdateFails, fixed
  <2> QED
    BY <1>1, <1>7, <2>1, <2>2, SMTT(30) DEF Step

\* Each step of Next keeps IInv.
LEMMA NextIInv == IInv /\ [Next]_vars => IInv'
<1> SUFFICES ASSUME IInv, [Next]_vars PROVE IInv'
  OBVIOUS
<1>1. CASE Tick \/ (\E k \in Kids : Withdraw(k)) \/ UNCHANGED vars
  <2>1. TypeOK'
    BY <1>1, WhitelistAssumption, SMTT(30) DEF IInv, TypeOK, Tick, Withdraw, vars
  <2>2. Ages /\ \A c \in Calls : Idle(c)
    BY <1>1 DEF Tick, Withdraw, vars, Ages, Idle
  <2> QED
    BY <2>1, <2>2, IdleCall DEF IInv
<1>2. ASSUME NEW c \in Calls, Step(c) PROVE IInv'
  <2>1. Ages
    BY <1>2, StepAges DEF IInv, CallInv
  <2>2. ASSUME NEW d \in Calls PROVE CallInv(d)'
    BY <1>2, <2>1, <2>2, OwnCall, Frame, IdleCall DEF IInv
  <2> QED
    BY <1>2, <2>2, StepTypeOK DEF IInv
<1> QED
  BY <1>1, <1>2 DEF Next

\* IInv holds throughout.
LEMMA Invariance == Spec => []IInv
BY InitIInv, NextIInv, PTL DEF Spec

-----------------------------------------------------------------------------
\* Each variable keeps its type; the status spellings of Add and Verify are the
\* ones the checks compare with.
THEOREM Typing == Spec => []TypeOK
<1>1. IInv => TypeOK
  BY DEF IInv
<1> QED
  BY <1>1, Invariance, PTL

\* What a Verify has reported done stays done for every call that arrives later,
\* for any number of overlapping Add, Verify and List calls, lost replies and
\* calls cut short.
THEOREM Lasts == Spec => []VerifiedLasts
<1>1. IInv => VerifiedLasts
  BY DEF IInv, CallInv, Kept, VerifiedLasts
<1> QED
  BY <1>1, Invariance, PTL

\* An entry only goes from absent to pending to verified, although Verify reads
\* the row in one statement and writes it in another.
THEOREM OnlyAdvances == Spec => StatusOnlyAdvances
<1>1. IInv /\ [Next]_vars =>
        [\A e \in Entries : whitelist'[e] # whitelist[e] =>
           whitelist[e] # "VERIFIED" /\ whitelist'[e] = Advanced(whitelist[e])]_vars
  <2> SUFFICES ASSUME IInv, [Next]_vars, NEW e \in Entries, whitelist'[e] # whitelist[e]
               PROVE  whitelist[e] # "VERIFIED" /\ whitelist'[e] = Advanced(whitelist[e])
    BY DEF vars
  <2>1. PICK c \in Calls : Step(c)
    BY DEF Next, Tick, Withdraw, vars
  <2> QED
    BY <2>1, StepAges DEF IInv, CallInv
<1> QED
  BY <1>1, Invariance, PTL DEF Spec, StatusOnlyAdvances

\* With auth enabled, every change of the whitelist is the work of a call whose
\* token had its claims in order when it arrived: the middleware's checks, spread
\* over a key lookup that others overtake, add up to the whole condition, which the
\* signature is no part of.
THEOREM NeedClaims == Spec => ChangesNeedClaims
<1>1. IInv /\ [Next]_vars =>
        [\A e \in Entries : whitelist'[e] # whitelist[e] =>
           \E c \in Calls : /\ pc[c] \in {"add", "update"} /\ pc'[c] = "done"
                            /\ call[c].entry = e
                            /\ Enabled(cfg) => began[c].inOrder]_vars
  <2> SUFFICES ASSUME IInv, [Next]_vars, NEW e \in Entries, whitelist'[e] # whitelist[e]
               PROVE  \E c \in Calls : /\ pc[c] \in {"add", "update"} /\ pc'[c] = "done"
                                       /\ call[c].entry = e
                                       /\ Enabled(cfg) => began[c].inOrder
    BY DEF vars
  <2>1. PICK c \in Calls : Step(c)
    BY DEF Next, Tick, Withdraw, vars
  <2>2. pc[c] \in {"add", "update"} /\ pc'[c] = "done" /\ call[c].entry = e
    BY <2>1, StepAges DEF IInv, CallInv
  <2>3. Enabled(cfg) => began[c].inOrder
    BY <2>2 DEF IInv, CallInv, Cleared
  <2> QED
    BY <2>2, <2>3
<1> QED
  BY <1>1, Invariance, PTL DEF Spec, ChangesNeedClaims

=============================================================================
