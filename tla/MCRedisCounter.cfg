\* Four requests against a cap of two, over two windows, with one
\* command that is executed twice.
CONSTANTS
  Requests = {r1, r2, r3, r4}
  DailyCap = 2
  Window = 2
  MaxHold = 1
  MaxResends = 1
  MaxTime = 4
SPECIFICATION Spec
INVARIANTS WindowLimit NoTTLOnlyByFailure
PROPERTY ImplementsCounter
SYMMETRY Symmetry
CHECK_DEADLOCK FALSE
