\* One request with every input.
CONSTANTS
  a1 = a1
  Requests = {r1}
  Inputs <- AllInputs
  Addresses = {a1}
  AuthEnabled = TRUE
  VelocityCap = 1
  MaxCrashes = 0
SPECIFICATION Spec
INVARIANT RiskMonotone
CHECK_DEADLOCK FALSE
