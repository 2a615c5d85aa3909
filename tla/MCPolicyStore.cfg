\* Two replicas that boot on an empty database, publish, write decisions and crash; the
\* numbers of v1 and v2 collide.
CONSTANTS
  v1 = v1
  v2 = v2
  v3 = v3
  Replicas = {r1, r2}
  Versions = {v1, v2, v3}
  Number <- MCNumber
  PolicyIds = {p1, p2}
  Ids = {d1}
  MaxBegun = 4
SPECIFICATION Spec
SYMMETRY Symmetry
CHECK_DEADLOCK FALSE
INVARIANTS RowNamesItsVersion ActiveIsComplete SecondPolicyOnlyByRace
PROPERTIES RewrittenOnlyByCollision
