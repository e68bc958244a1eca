CONSTANTS
  eth = eth
  btc = btc
  Profiles = {eth, btc}
  Owner = eth
  Config <- Settings
  MaxPerps = 2
  MaxSpreads = 2
  Features <- Market
  Accounts <- Valuations
  Quotes <- Offers
  PerpValue = 15000
  SpreadValue = 15000
  PerpHold = 2
  OptionsHold = 3
  SnapshotAge = 2
  UnfilledFor = 2
  SpawnLag = 1
  TickMax = 2
  MaxTime = 3
  MaxFaults = 0
SPECIFICATION Spec
PROPERTIES
  AllocationsSeen
