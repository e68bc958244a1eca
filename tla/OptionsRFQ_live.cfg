CONSTANTS
  MaxRequests = 2
  MaxNonce = 2
  MaxConsumed = 2
  Capacity = 2
  Foreign = FALSE
  Rows = {"clean", "failed", "mismatched", "overcharged"}
SPECIFICATION FairSpec
PROPERTIES
  ImplementsOwner
  RequestRecovered
  QuotingEnds
  ExecutionRecorded
CHECK_DEADLOCK FALSE
