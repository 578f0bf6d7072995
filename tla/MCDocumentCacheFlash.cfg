SPECIFICATION Spec
CONSTANTS
  d1 = d1
  d2 = d2
  Docs = {d1, d2}
  NoDoc = NoDoc
  Card = FALSE
  None = None
  Torn = Torn
  Bad = Bad
  MaxDep = 2
  MaxSession = 2
INVARIANT
  CompleteMeansKept
CHECK_DEADLOCK FALSE
