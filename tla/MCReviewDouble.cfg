\* Two overlapping Resolve calls on one item.
CONSTANTS
  Items = {d1}
  Calls = {r1, r2}
  Notify = FALSE
  MaxFailures = 0
SPECIFICATION Spec
INVARIANT OneResolution
CHECK_DEADLOCK FALSE
