SPECIFICATION Spec
CONSTANTS
  v1 = v1
  auto1 = auto1
  auto2 = auto2
  client1 = client1
  child1 = child1
  KeyCount = 2
  Values <- MCValues
  Deadlines <- MCDeadlines
  MaxTime = 2
  AutoSavers <- MCTwoAutos
  Clients <- MCNobody
  Children <- MCNobody
  EventLoop = FALSE
  SaveChanges = 2
  SaveSeconds = FALSE
  BufferSize = 2
  Failures <- MCNobody
  MaxChanges = 2
  None = None
INVARIANT DumpWhole
