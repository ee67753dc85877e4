SPECIFICATION Spec
CONSTANTS
  Masters <- MCMasters
  Hardened = 2
  MaxDepth = 4
  NoChild = {}
  Before <- MCBefore
  MaxMoney = 2
  Uint32 = 1
  Int31 = 0
  Hashes = {"h1", "h2"}
  Inputs <- MCInputs
  Outputs <- MCOutputs
  MaxItems = 2
INVARIANTS
  NoDoubleSpend
  SignerSeesTruth
  HoldsWhatWasDeclared
  BuiltIffValid
CHECK_DEADLOCK FALSE
