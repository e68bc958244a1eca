CONSTANTS
  owner = owner
  peer = peer
  stranger = stranger
  Clients = {owner, peer, stranger}
  Pairs = {"ETH-USDC"}
  Budget <- Budgets
  Equities = {0, 150, 170, 181, 241}
  MaxTime = 3
  DayLength = 2
  Cooldown = 2
SYMMETRY Peers
SPECIFICATION Spec
INVARIANTS
  IInv
  NeverLoosened
  EntriesSpaced
  BudgetWithinBuffer
PROPERTY NoEntryAfterStop
CHECK_DEADLOCK FALSE
