CONSTANTS
  c1 = c1
  c2 = c2
  c3 = c3
  c4 = c4
  MaxSpreads = 2
  Instruments = {c1, c2, c3, c4}
  Plans <- Spreads
  MaxEntries = 3
  VenueFails = TRUE
  Foreign = FALSE
SPECIFICATION FairSpec
PROPERTY OpenServiced
CHECK_DEADLOCK FALSE
