CONSTANTS
  Ids = {i1, i2, i3, i4}
  Lots = {0, 1, 2}
  Cents = {0, 7, 8}
  Capacity = 5
  Inbox <- LifecycleEvents
  i1 = i1
  i2 = i2
  i3 = i3
  i4 = i4
SYMMETRY IdSymmetry
SPECIFICATION ModelSpec
INVARIANTS
  RestoreFaithful
  Invariant
  FlatOnlyWhenClosed
  EventsOnce
PROPERTIES
  FaultsRetained
