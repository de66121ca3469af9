SPECIFICATION Spec
CONSTANTS
  full = full
  other = other
  p = p
  q = q
  v1 = v1
  v2 = v2
  v3 = v3
  k1 = k1
  k2 = k2
  r1 = r1
  r2 = r2
  Ids = {full, other}
  Paths = {p, q}
  Values = {v1, v2, v3}
  Kinds = {k1, k2}
  Roots = {r1, r2}
  None = None
  Bases <- StartGraphs
  Heads <- Graphs
INVARIANTS TypeOK MergeIsThreeWay ReplayMeetsMerge
CHECK_DEADLOCK FALSE
