SPECIFICATION Spec
CONSTANTS
  Clients <- MCClients
  Keys <- MCKeys
  Pool <- MCSmallPool
  c1 = c1
  c2 = c2
  k1 = k1
  Text = Text
  IntModulus = 3
  Threaded = TRUE
  MaxClients = 1
  Primary = TRUE
  MaxQueue = 2
  MaxChanges = 1
  None = None
INVARIANTS
  QueueClean
  
  NoDanglingClient
 
