SPECIFICATION Spec
CONSTANTS
  Galhos = {g1, g2}
  Roots = {r1}
  Tasks = {t1, t2}
  Calls <- DependencyCalls
  AnyPhase = FALSE
SYMMETRY NameSymmetry
INVARIANTS DepsExact AttractorUnrefused
PROPERTY PromoteRespectsDeps
CHECK_DEADLOCK FALSE
