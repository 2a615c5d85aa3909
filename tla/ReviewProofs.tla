----------------------------- MODULE ReviewProofs ----------------------------
(***************************************************************************)
(* Proofs about Review, for any items and calls, any number of webhook     *)
(* failures, with the notifier configured or not.                          *)
(*                                                                         *)
(* The properties speak of rows and sagas; IInv ties these to the Resolve  *)
(* calls that made them: a call past Update has written (Written), and a   *)
(* resolved row (RowHasWriter) or a resumed saga (SagaHasWriter) holds the *)
(* choice of a call that wrote.                                            *)
(***************************************************************************)
EXTENDS Review, TLAPS

\* How many attempts a call that is not done with its loop has made.
Trying ==
  \A c \in Calls : /\ pc[c] \in {"idle", "update"} => tries[c] = 0
                   /\ pc[c] = "post" => tries[c] < Attempts

Written ==
  /\ \A c \in Calls : pc[c] \in {"post", "ok"} => c \in wrote
  /\ \A c \in wrote : row[item[c]] \in Resolutions

RowHasWriter ==
  \A i \in Items : row[i] \in Resolutions =>
    \E c \in wrote : item[c] = i /\ choice[c] = row[i]

SagaHasWriter ==
  \A i \in Items : saga[i] # "HELD" =>
    \E c \in wrote : item[c] = i /\ choice[c] = saga[i]

IInv == TypeOK /\ Trying /\ Written /\ RowHasWriter /\ SagaHasWriter /\ NoLateSuccess

-----------------------------------------------------------------------------
\* No call has begun.
LEMMA InitIInv == Init => IInv
<1> SUFFICES ASSUME Init PROVE IInv
  OBVIOUS
<1>1. TypeOK
  BY ReviewAssumption DEF Init, TypeOK, Attempts
<1>2. Trying /\ Written /\ NoLateSuccess
  BY DEF Init, Trying, Written, NoLateSuccess
<1>3. RowHasWriter /\ SagaHasWriter
  BY DEF Init, RowHasWriter, SagaHasWriter, Resolutions
<1> QED
  BY <1>1, <1>2, <1>3 DEF IInv

\* Parking touches a row nobody has written.
LEMMA ParkIInv ==
  ASSUME IInv, NEW i \in Items, Park(i)
  PROVE  IInv'
<1> USE DEF IInv
<1>1. \A j \in Items : row'[j] = IF j = i THEN "PENDING" ELSE row[j]
  BY DEF Park, TypeOK
<1>2. TypeOK'
  BY DEF Park, TypeOK
<1>3. Trying' /\ NoLateSuccess' /\ SagaHasWriter'
  BY DEF Park, Trying, NoLateSuccess, SagaHasWriter
<1>4. Written'
  <2>1. \A c \in wrote : item[c] \in Items /\ item[c] # i
    BY DEF Park, Written, TypeOK, Resolutions
  <2> QED
    BY <1>1, <2>1 DEF Park, Written
<1>5. RowHasWriter'
  BY <1>1 DEF Park, RowHasWriter, Resolutions
<1> QED
  BY <1>2, <1>3, <1>4, <1>5

\* Get: a call that begins after a successful one finds the row resolved.
LEMMA GetIInv ==
  ASSUME IInv, NEW c \in Calls, Get(c)
  PROVE  IInv'
<1> USE DEF IInv
<1>1. Checked(c) \in {"not_found", "update", "conflict"}
  BY DEF Checked
<1>2. \A o \in Calls : pc'[o] = IF o = c THEN Checked(c) ELSE pc[o]
  BY DEF Get, TypeOK
<1>3. TypeOK'
  <2>1. late' \subseteq Calls
    BY DEF Get, TypeOK
  <2>2. pc' \in [Calls -> {"idle", "update", "post", "ok", "not_found", "conflict",
                           "error", "crashed"}]
    BY <1>1 DEF Get, TypeOK
  <2> QED
    BY <2>1, <2>2 DEF Get, TypeOK
<1>4. Trying' /\ Written'
  BY <1>1, <1>2 DEF Get, Trying, Written
<1>5. RowHasWriter' /\ SagaHasWriter'
  BY DEF Get, RowHasWriter, SagaHasWriter
<1>6. NoLateSuccess'
  <2>1. c \notin late
    BY DEF Get, NoLateSuccess
  <2>2. \A o \in late : pc'[o] \in {"conflict", "error"}
    BY <1>2, <2>1 DEF NoLateSuccess, TypeOK
  <2>3. ASSUME NEW o \in Calls, pc[o] = "ok", item[o] = item[c]
        PROVE  pc'[c] = "conflict"
    <3>1. row[item[c]] \in Resolutions
      BY <2>3 DEF Written
    <3> QED
      BY <1>2, <3>1 DEF Checked, Resolutions
  <2> QED
    BY <2>2, <2>3 DEF Get, NoLateSuccess
<1> QED
  BY <1>3, <1>4, <1>5, <1>6

\* A write of c leaves its row with the choice of c, who has now written.
LEMMA WriteIInv ==
  ASSUME IInv, NEW c \in Calls, pc[c] = "update",
         row' = [row EXCEPT ![item[c]] = Resolved(c)], wrote' = wrote \cup {c},
         UNCHANGED <<item, choice, saga>>,
         \A o \in Calls : o # c => pc'[o] = pc[o]
  PROVE  Written' /\ RowHasWriter' /\ SagaHasWriter'
<1> USE DEF IInv
<1>1. item[c] \in Items /\ choice[c] \in Resolutions
  BY DEF TypeOK
<1>2. \A j \in Items : row'[j] = IF j = item[c] THEN choice[c] ELSE row[j]
  BY DEF Resolved, TypeOK
<1>3. Written'
  <2>1. \A o \in wrote : row'[item'[o]] \in Resolutions
    BY <1>1, <1>2 DEF Written, TypeOK
  <2>2. row'[item'[c]] \in Resolutions
    BY <1>1, <1>2
  <2>3. \A o \in Calls : pc'[o] \in {"post", "ok"} => o \in wrote'
    BY DEF Written
  <2> QED
    BY <2>1, <2>2, <2>3 DEF Written
<1>4. RowHasWriter'
  <2> SUFFICES ASSUME NEW j \in Items, row'[j] \in Resolutions
               PROVE  \E o \in wrote' : item'[o] = j /\ choice'[o] = row'[j]
    BY DEF RowHasWriter
  <2>1. CASE j = item[c]
    BY <1>2, <2>1
  <2>2. CASE j # item[c]
    BY <1>2, <2>2 DEF RowHasWriter
  <2> QED
    BY <2>1, <2>2
<1>5. SagaHasWriter'
  BY DEF SagaHasWriter
<1> QED
  BY <1>3, <1>4, <1>5

\* The UPDATE of a resolution keeps IInv.
LEMMA UpdateIInv ==
  ASSUME IInv, NEW c \in Calls, Update(c)
  PROVE  IInv'
<1> USE DEF IInv
<1>1. \A o \in Calls : pc'[o] = IF o = c THEN (IF Notify THEN "post" ELSE "ok") ELSE pc[o]
  BY DEF Update, TypeOK
<1>2. TypeOK'
  BY DEF Update, TypeOK, Resolved
<1>3. Trying'
  BY <1>1 DEF Update, Trying, Attempts
<1>4. Written' /\ RowHasWriter' /\ SagaHasWriter'
  BY <1>1, WriteIInv DEF Update
<1>5. NoLateSuccess'
  BY <1>1 DEF Update, NoLateSuccess, TypeOK
<1> QED
  BY <1>2, <1>3, <1>4, <1>5

\* So does a statement that fails.
LEMMA StoreFailsIInv ==
  ASSUME IInv, NEW c \in Calls, StoreFails(c)
  PROVE  IInv'
<1> USE DEF IInv
<1>1. \A o \in Calls : pc'[o] = IF o = c THEN "error" ELSE pc[o]
  BY DEF StoreFails, TypeOK
<1>2. TypeOK'
  BY DEF StoreFails, TypeOK, Resolved
<1>3. Trying'
  BY <1>1 DEF StoreFails, Trying
<1>4. Written' /\ RowHasWriter' /\ SagaHasWriter'
  <2>1. CASE UNCHANGED <<row, wrote>>
    BY <1>1, <2>1 DEF StoreFails, Written, RowHasWriter, SagaHasWriter
  <2>2. CASE ~UNCHANGED <<row, wrote>>
    BY <1>1, <2>2, WriteIInv DEF StoreFails
  <2> QED
    BY <2>1, <2>2
<1>5. NoLateSuccess'
  BY <1>1 DEF StoreFails, NoLateSuccess, TypeOK
<1> QED
  BY <1>2, <1>3, <1>4, <1>5

\* One turn of the loop of NotifyResolution, whatever its outcome: the saga may
\* take the choice of c, who has written.
LEMMA NotifyIInv ==
  ASSUME IInv, NEW c \in Calls,
         PostOK(c) \/ PostRejected(c) \/ PostFails(c) \/ Cancelled(c)
  PROVE  IInv'
<1> USE DEF IInv
<1>1. pc[c] = "post" /\ c \in wrote /\ item[c] \in Items /\ choice[c] \in Resolutions
  BY DEF PostOK, PostRejected, PostFails, Cancelled, Written, TypeOK
<1>2. UNCHANGED <<row, item, choice, late, wrote>> /\ saga' \in {saga, Received(c)}
  BY DEF PostOK, PostRejected, PostFails, Cancelled
<1>3. \A i \in Items : saga'[i] = saga[i] \/ (i = item[c] /\ saga'[i] = choice[c])
  BY <1>2 DEF Received, TypeOK
<1>4. \E v \in {"post", "ok"} : pc' = [pc EXCEPT ![c] = v]
  BY DEF PostOK, PostRejected, PostFails, Cancelled
<1>5. \A o \in Calls : o # c => pc'[o] = pc[o] /\ tries'[o] = tries[o]
  BY DEF PostOK, PostRejected, PostFails, Cancelled, TypeOK
<1>6. pc'[c] \in {"post", "ok"}
  BY <1>4 DEF TypeOK
<1>7. tries[c] \in 0 .. Attempts /\ tries[c] < Attempts
  BY <1>1 DEF Trying, TypeOK
<1>8. \/ tries' = [tries EXCEPT ![c] = tries[c] + 1]
      \/ tries' = tries
  BY DEF PostOK, PostRejected, PostFails, Cancelled
<1>9. tries' \in [Calls -> 0 .. Attempts]
  <2>1. tries[c] + 1 \in 0 .. Attempts
    BY <1>7 DEF Attempts
  <2> QED
    BY <1>8, <2>1 DEF TypeOK
<1>10. failures' \in 0 .. MaxFailures
  BY ReviewAssumption DEF PostOK, PostRejected, PostFails, Cancelled, TypeOK
<1>11. saga' \in [Items -> {"HELD"} \cup Resolutions]
  BY <1>1, <1>2 DEF Received, TypeOK
<1>12. cut' \subseteq Calls
  BY DEF PostOK, PostRejected, PostFails, Cancelled, TypeOK
<1>13. TypeOK'
  BY <1>2, <1>4, <1>9, <1>10, <1>11, <1>12 DEF TypeOK
<1>14. Trying'
  <2>1. pc'[c] = "post" => tries'[c] < Attempts
    <3>1. CASE PostFails(c)
      <4>1. pc'[c] = IF GiveUp(tries'[c]) THEN "ok" ELSE "post"
        BY <3>1 DEF PostFails, TypeOK
      <4>2. tries'[c] \in 0 .. Attempts
        BY <1>9
      <4> QED
        BY <4>1, <4>2 DEF GiveUp, Attempts
    <3>2. CASE PostOK(c) \/ PostRejected(c) \/ Cancelled(c)
      BY <3>2 DEF PostOK, PostRejected, Cancelled, TypeOK
    <3> QED
      BY <3>1, <3>2
  <2> QED
    BY <1>5, <1>6, <2>1 DEF Trying
<1>15. Written' /\ RowHasWriter'
  BY <1>1, <1>2, <1>5 DEF Written, RowHasWriter
<1>16. SagaHasWriter'
  BY <1>1, <1>2, <1>3 DEF SagaHasWriter
<1>17. NoLateSuccess'
  <2>1. c \notin late
    BY <1>1 DEF NoLateSuccess
  <2> QED
    BY <1>2, <1>5, <2>1 DEF NoLateSuccess, TypeOK
<1> QED
  BY <1>13, <1>14, <1>15, <1>16, <1>17

\* A crash ends calls and touches neither rows nor sagas.
LEMMA CrashIInv == IInv /\ Crash => IInv'
<1> SUFFICES ASSUME IInv, Crash PROVE IInv'
  OBVIOUS
<1> USE DEF IInv
<1>1. \A c \in Calls : pc'[c] \in {pc[c], "crashed"}
  BY DEF Crash
<1>2. TypeOK'
  BY DEF Crash, TypeOK
<1>3. Trying'
  BY <1>1 DEF Crash, Trying
<1>4. Written' /\ RowHasWriter' /\ SagaHasWriter'
  BY <1>1 DEF Crash, Written, RowHasWriter, SagaHasWriter
<1>5. NoLateSuccess'
  BY DEF Crash, NoLateSuccess, TypeOK
<1> QED
  BY <1>2, <1>3, <1>4, <1>5

-----------------------------------------------------------------------------
\* The invariant is inductive, however calls, failures and crashes interleave.
LEMMA NextIInv == IInv /\ [Next]_vars => IInv'
<1> SUFFICES ASSUME IInv, [Next]_vars PROVE IInv'
  OBVIOUS
<1>1. ASSUME NEW i \in Items, Park(i) PROVE IInv'
  BY <1>1, ParkIInv
<1>2. ASSUME NEW c \in Calls, Resolve(c) PROVE IInv'
  BY <1>2, GetIInv, UpdateIInv, StoreFailsIInv, NotifyIInv DEF Resolve
<1>3. CASE Crash
  BY <1>3, CrashIInv
<1>4. CASE UNCHANGED vars
  BY <1>4 DEF vars, IInv, TypeOK, Trying, Written, RowHasWriter, SagaHasWriter, NoLateSuccess
<1> QED
  BY <1>1, <1>2, <1>3, <1>4 DEF Next

\* Every reachable state of the review queue satisfies the invariant.
THEOREM Invariance == Spec => []IInv
  BY InitIInv, NextIInv, PTL DEF Spec

\* The review queue's state keeps its type; no call makes more than three
\* webhook attempts.
THEOREM TypeCorrect == Spec => []TypeOK
<1>1. IInv => TypeOK
  BY DEF IInv
<1> QED
  BY <1>1, Invariance, PTL

\* A Resolve call that begins after another one on its item has succeeded does
\* not succeed.
THEOREM LateCallsFail == Spec => []NoLateSuccess
<1>1. IInv => NoLateSuccess
  BY DEF IInv
<1> QED
  BY <1>1, Invariance, PTL

\* The orchestrator resumes no saga whose review row is not resolved, whatever
\* fails or crashes.
THEOREM NeverToldTooEarly == Spec => []ToldOnlyResolved
<1>1. IInv => ToldOnlyResolved
  BY DEF IInv, SagaHasWriter, Written, ToldOnlyResolved
<1> QED
  BY <1>1, Invariance, PTL

\* Only two calls on an item that both wrote can leave its saga and its row with
\* different resolutions.
THEOREM SagaFollowsRow == Spec => []SagaAgrees
<1>1. ASSUME IInv PROVE SagaAgrees
  <2> SUFFICES ASSUME NEW i \in Items, saga[i] # "HELD", saga[i] # row[i]
               PROVE  \E c, o \in wrote : c # o /\ item[c] = i /\ item[o] = i
    BY DEF SagaAgrees
  <2>1. PICK c \in wrote : item[c] = i /\ choice[c] = saga[i]
    BY <1>1 DEF IInv, SagaHasWriter
  <2>2. row[i] \in Resolutions
    BY <1>1, <2>1 DEF IInv, Written
  <2>3. PICK o \in wrote : item[o] = i /\ choice[o] = row[i]
    BY <1>1, <2>2 DEF IInv, RowHasWriter
  <2> QED
    BY <2>1, <2>3
<1> QED
  BY <1>1, Invariance, PTL
=============================================================================
