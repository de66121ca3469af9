SPECIFICATION Spec
CONSTANTS
  t1 = t1
  t2 = t2
  t3 = t3
  p1 = p1
  p2 = p2
  Tasks = {t1, t2, t3}
  Processes = {p1, p2}
  ProcessOf <- TwoProcesses
  MaxAppends = 4
  Crashes = TRUE
INVARIANTS TypeOK LinksResolve
PROPERTIES HeadAdvances ImplementsLedger
CHECK_DEADLOCK FALSE
