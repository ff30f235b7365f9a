SPECIFICATION Spec
CONSTANTS
  c1 = c1
  c2 = c2
  v1 = v1
  KeyCount = 2
  Values <- MCValues
  Conns <- MCConns
  FdCount = 2
  MaxLines = 3
  MaxEvents = 4
  None = None
INVARIANT FullResync
CHECK_DEADLOCK FALSE
