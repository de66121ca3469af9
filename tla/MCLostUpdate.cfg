SPECIFICATION Spec
CONSTANTS
  a = a
  b = b
  r = r
  Galhos = {a, b}
  Roots = {r}
  Sessions = {s1, s2}
  SaveOrder <- InOrder
  Commands <- SessionCommands
  Starts <- EmptyOrMidway
  MaxSessions = 3
  MaxFailures = 1
  Chain = Chain
  Missing = Missing
  Closed = Closed
PROPERTY StoreFollowsLifecycle
CHECK_DEADLOCK FALSE
