SPECIFICATION Spec
CONSTANTS
  root = root
  child = child
  join = join
  Writers = {w1}
  Galhos = {main, branch}
  Nodes = {root, child, join}
  ParentsOf <- Triangle
  MaxGcs = 2
  None = None
SYMMETRY Symmetry
INVARIANTS TypeOK GcKeepsReached HeadsWhole
PROPERTIES HeadsDescend
