\* Three overlapping calls on one entry.
CONSTANTS
  k1 = k1
  Calls = {c1, c2, c3}
  Entries = {e1}
  Tokens <- MCTokens
  Configs <- MCConfigs
  Kids = {k1}
  MaxNow = 2
SPECIFICATION Spec
INVARIANT VerifiedLasts
PROPERTIES ChangesNeedClaims StatusOnlyAdvances
SYMMETRY Symmetry
CHECK_DEADLOCK FALSE
