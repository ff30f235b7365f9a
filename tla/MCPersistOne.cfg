SPECIFICATION Spec
CONSTANTS
  v1 = v1
  auto1 = auto1
  auto2 = auto2
  client1 = client1
  child1 = child1
  KeyCount = 2
  Values <- MCValues
  Deadlines <- MCDeadlines
  MaxTime = 2
  AutoSavers <- MCNobody
  Clients <- MCClient
  Children <- MCChild
  EventLoop = TRUE
  SaveChanges = 0
  SaveSeconds = FALSE
  BufferSize = 2
  Failures <- MCReported
  MaxChanges = 2
  None = None
ACTION_CONSTRAINT OneSaver
INVARIANTS
  TypeOK
  
  DumpWhole
