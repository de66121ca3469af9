SPECIFICATION Spec
CONSTANTS
  Galhos = {g1, g2, g3, g4}
  Roots = {}
  Tasks = {t1}
  Calls = {}
  AnyPhase = FALSE
INVARIANTS Acyclic SearchAgrees
CHECK_DEADLOCK FALSE
