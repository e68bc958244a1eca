CONSTANTS
  MaxRequests = 4
  MaxNonce = 4
  MaxConsumed = 3
  Capacity = 1
  Foreign = TRUE
  Rows = {"clean", "failed", "mismatched", "overcharged"}
SPECIFICATION Spec
INVARIANTS
  IInv
  InventoryOwned
  NeverReplayed
  Accounted
  EntriesConsumed
CHECK_DEADLOCK FALSE
