\* Three concurrent requests of one user, and a crash.
CONSTANTS
  a1 = a1
  Requests = {r1, r2, r3}
  Inputs <- FewInputs
  Addresses = {a1}
  AuthEnabled = FALSE
  VelocityCap = 1
  MaxCrashes = 1
SPECIFICATION Spec
INVARIANTS TypeOK AllowIsSound AnsweredIsDurable ParkedUnlessStoreFails MetricsAgree
PROPERTIES ImplementsGate
SYMMETRY Symmetry
CHECK_DEADLOCK FALSE
