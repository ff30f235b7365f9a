SPECIFICATION Spec
CONSTANTS
  Clients <- MCClients
  Keys <- MCKeys
  Pool <- MCPool
  c1 = c1
  c2 = c2
  k1 = k1
  Text = Text
  IntModulus = 3
  Threaded = FALSE
  MaxClients = 2
  Primary = TRUE
  MaxQueue = 2
  MaxChanges = 2
  None = None
INVARIANTS
  TypeOK
  TxQueued
  QueueClean
  
  
 
