SPECIFICATION Spec
CONSTANTS
  Masters <- MCMasters
  Hardened = 2
  MaxDepth = 4
  NoChild <- MCNoChild
  Before <- MCBefore
  KeyLimit = 3
  Offers <- MCOffers
INVARIANTS
  KeyOrderIrrelevant
  AcceptsExactly
  OriginsLead
  AgreesWithAccounts
  UsableByPsbt
CHECK_DEADLOCK FALSE
