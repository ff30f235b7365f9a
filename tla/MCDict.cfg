SPECIFICATION Spec
CONSTANTS
  Keys <- MCKeys
  Values <- MCValues
  SizeOf <- MCSizes
  Hash <- MCHash
  TableSize = 4
  MaxMemory = 4
  TTLs <- MCTTLs
  TimeModulus = 16
  StartTime = 1
  MaxTime = 2
  None = None
INVARIANTS
  TypeOK
  ChainsExact
  UsedExact
  MemoryExact
  MemoryBounded
PROPERTY RefinesKeyspace
