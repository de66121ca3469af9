SPECIFICATION Spec
CONSTANTS
  Galhos = {g1}
  Roots = {r1, r2}
  Tasks = {t1, t2}
  Calls <- Morphisms
  AnyPhase = TRUE
SYMMETRY StackSymmetry
INVARIANTS TypeOK EvidenceHeld EvidenceFresh LockFlagBacked NoDeadEnd
PROPERTY ImplementsLifecycle ReceiptsByCloud
