\* Three Resolve calls about one item, every kind of failure.
CONSTANTS
  Items = {d1}
  Calls = {r1, r2, r3}
  Notify = TRUE
  MaxFailures = 3
SPECIFICATION Spec
INVARIANTS NoLateSuccess ToldOnlyResolved SagaAgrees
PROPERTIES SagaResumes
CHECK_DEADLOCK FALSE
