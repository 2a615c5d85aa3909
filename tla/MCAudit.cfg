\* Four records meet a queue of two and a worker that holds one, in both modes.
CONSTANTS
  Records = {d1, d2, d3, d4}
  QueueSize = 2
SPECIFICATION Spec
INVARIANTS
  DurableBeforeResponse
  PublishedIsStored
  UncountedOnlyAtClose
PROPERTIES
  CloseTerminates
  AcceptedIsHandled
CHECK_DEADLOCK FALSE
