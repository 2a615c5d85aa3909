\* A publish request and an evaluation beside the hot reloader.
CONSTANTS
  Sources = {seed, next, broken}
  Compiles = {seed, next}
  Publishes = {p1}
  Evaluations = {e1}
  MaxServed = 2
SPECIFICATION Spec
INVARIANTS OneBundlePerEvaluation DriftOnlyUnvalidated StampedUnlessOvertaken
PROPERTIES StaysAvailable Converges
