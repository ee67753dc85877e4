SPECIFICATION Spec
CONSTANTS
  Masters <- MCMasters
  Hardened = 2
  MaxDepth = 4
  NoChild <- MCNoChild
  Before <- MCBefore
  Keys <- MCKeys
  CosignerLimit = 3
  MaxRun = 2
INVARIANTS
  RunsAreSingles
  OneNetworkOrderIrrelevant
CHECK_DEADLOCK FALSE
