\* A publish request without activate=true moves the active version.
CONSTANTS
  v1 = v1
  v2 = v2
  v3 = v3
  Replicas = {r1, r2}
  Versions = {v1, v2, v3}
  Number <- MCNumber
  PolicyIds = {p1, p2}
  Ids = {d1}
  MaxBegun = 5
SPECIFICATION Spec
CHECK_DEADLOCK FALSE
PROPERTIES PublishDoesNotActivate
