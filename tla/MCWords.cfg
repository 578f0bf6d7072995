CONSTANTS
  Scope <- MCScope
  ChunkRecords = 2
  Kept = 2
  JobCount = 1
  Quota = 2
  Share = 2
  MaxGeneration = 4
  MaxDay = 1
  MaxFaults = 2
SPECIFICATION Spec
INVARIANTS MemoryIsTruth SavedPendingExists
PROPERTIES SavesWhole RatedOnce
CHECK_DEADLOCK FALSE
