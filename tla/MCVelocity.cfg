\* Four requests of two users against a cap of two: the cap is reached with
\* requests to spare, and five ticks hold two windows and a half.
CONSTANTS
  Requests = {r1, r2, r3, r4}
  Users = {alice, bob}
  DailyCap = 2
  Window = 2
  MaxHold = 2
  MaxTime = 5
SPECIFICATION Spec
INVARIANT WindowLimit
PROPERTIES
  ImplementsCounter
  RollbackIsExact
  DeniedOnlyByFullEntry
CHECK_DEADLOCK FALSE
