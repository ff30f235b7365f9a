SPECIFICATION Spec
CONSTANT MaxLength = 5
INVARIANTS
  TypeOK
  WordsSplit
  QuotedKept
  FeedSame
  
CHECK_DEADLOCK FALSE
