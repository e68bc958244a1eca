CONSTANTS
  Ids = {r1, r2, r3}
  Patches = {p1}
  MaxReceipts = 2
  MaxEvents = 2
  MaxAge = 1
  MaxLease = 1
  Window = 1
  MaxClock = 2
  MaxSequence = 3
  MaxSessions = 2
SPECIFICATION Spec
SYMMETRY Symmetry
INVARIANTS
  ReceiptsPersist
  SequenceFresh
PROPERTIES
  LeaseSound
  NeverReinitialised
CHECK_DEADLOCK FALSE
