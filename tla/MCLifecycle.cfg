\* Two requests over either transport, and an audit queue of one.
CONSTANTS
  Records = {r1, r2}
  QueueSize = 1
SPECIFICATION ProcessSpec
INVARIANTS CutOnlyLate CloseComesLast
PROPERTIES ShutdownTerminates
CHECK_DEADLOCK FALSE
