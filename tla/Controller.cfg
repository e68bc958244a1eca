CONSTANTS
  eth = eth
  btc = btc
  Profiles = {eth, btc}
  Owner = eth
  Config <- Settings
  MaxPerps = 1
  MaxSpreads = 2
  Features <- Market
  Accounts <- Valuations
  Quotes <- Offers
  PerpValue = 15000
  SpreadValue = 15000
  PerpHold = 2
  OptionsHold = 2
  SnapshotAge = 2
  UnfilledFor = 1
  SpawnLag = 1
  TickMax = 1
  MaxTime = 2
  MaxFaults = 1
SPECIFICATION Spec
INVARIANTS
  WithinLimits
  TicketSound
PROPERTIES
  OneAtATime
  OrphansBlock
