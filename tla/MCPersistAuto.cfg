SPECIFICATION FairSpec
CONSTANTS
  v1 = v1
  auto1 = auto1
  auto2 = auto2
  client1 = client1
  child1 = child1
  KeyCount = 2
  Values <- MCValues
  Deadlines <- MCDeadlines
  MaxTime = 1
  AutoSavers <- MCAuto
  Clients <- MCNobody
  Children <- MCNobody
  EventLoop = TRUE
  SaveChanges = 2
  SaveSeconds = TRUE
  BufferSize = 2
  Failures <- MCNobody
  MaxChanges = 2
  None = None
INVARIANT DumpWhole
 
