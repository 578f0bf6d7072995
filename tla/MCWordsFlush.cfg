CONSTANTS
  Scope <- MCScope
  ChunkRecords = 2
  Kept = 0
  JobCount = 1
  Quota = 2
  Share = 2
  MaxGeneration = 4
  MaxDay = 1
  MaxFaults = 0
SPECIFICATION Spec
PROPERTIES FlushCovers
CHECK_DEADLOCK FALSE
