SPECIFICATION FairSpec
CONSTANTS
  sd1 = sd1
  combo = combo
  NoCard = NoCard
  Cards = {sd1, combo}
  SdMemory = {sd1}
  MaxId = 3
  MaxMoves = 4
  MaxFiles = 1
INVARIANTS
  SessionIsOfInsertedCard
  ProtocolInv
PROPERTIES
  CleanUnmount
  RequestMeansIntent
  LeaseSpec
  Settles
CHECK_DEADLOCK FALSE
