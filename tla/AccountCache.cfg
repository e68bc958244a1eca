CONSTANTS
  Nobody = nobody
  Callers = {poll, slot}
  MaxChanges = 1
  MaxOrders = 1
SPECIFICATION FairSpec
INVARIANTS
  CacheIInv
  AnswerFresh
PROPERTY Restored
