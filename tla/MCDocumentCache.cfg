SPECIFICATION Spec
CONSTANTS
  d1 = d1
  d2 = d2
  Docs = {d1, d2}
  NoDoc = NoDoc
  Card = TRUE
  None = None
  Torn = Torn
  Bad = Bad
  MaxDep = 2
  MaxSession = 2
INVARIANTS
  CompleteMeansKept
  NeverReplacedUnderReader
PROPERTIES
  NoReuseOfCondemned
  MetaKeepsPromise
SYMMETRY Symmetry
CHECK_DEADLOCK FALSE
