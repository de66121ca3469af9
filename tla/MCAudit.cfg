SPECIFICATION AuditSpec
CONSTANTS
  Galhos = {g1}
  Roots = {r1}
  Tasks = {t1, t2}
  Calls <- Morphisms
  AnyPhase = FALSE
SYMMETRY AuditSymmetry
INVARIANTS AuditClean AuditReplays LocksAudited AuditComplete
CHECK_DEADLOCK FALSE
