SPECIFICATION FairSpec
CONSTANTS
  a = a
  b = b
  m1 = m1
  m2 = m2
  Clients <- MCClients
  Names <- MCNames
  Messages <- MCMessages
  Room = 1
  None = None
INVARIANTS
  TypeOK
  NoDanglingSubscriber
PROPERTIES
  RefinesChannels
  MutexReleased
