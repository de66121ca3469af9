SPECIFICATION Spec
CONSTANTS
  n1 = n1
  n2 = n2
  web = web
  Clients = {c1, c2}
  Refs = {n1, n2}
  Stems = {web}
  StemOf <- SharedStem
  Hashes = {h1}
  None = None
INVARIANTS TypeOK TornOnlyByContention RefsResolve LocksOwned
PROPERTIES ImplementsAtomicRefs LocksReleased
CHECK_DEADLOCK FALSE
