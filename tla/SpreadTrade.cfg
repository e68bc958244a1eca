CONSTANTS
  Capital = 80000
  Config <- Settings
  Accounts <- Valuations
  Chains <- Listed
  Offers <- Bids
  Fees = {0, 21, 500}
SPECIFICATION Spec
INVARIANTS
  LossWithinFunds
  PlanSound
  ExitsJustified
