SPECIFICATION Spec
CONSTANTS
  t1 = t1
  t2 = t2
  t3 = t3
  p1 = p1
  p2 = p2
  Tasks = {t1}
  Processes = {p1}
  ProcessOf <- OneCaller
  MaxAppends = 4
  Crashes = TRUE
INVARIANT ChainVerifies
CHECK_DEADLOCK FALSE
