SPECIFICATION LibSpec
CONSTANTS
  Field = 43
  Order = 31
  Gx = 2
  Gy = 12
  Scalars <- MCScalars
  Masters = {"a"}
  Hardened = 12
  MaxDepth = 3
  Before <- ByDepth
  NoChild <- MCNoChild
  Keys <- MCKeys
  Texts <- MCPathTexts
  MaxCalls = 2
  Settings <- MCSettings
  MostLines = 3
  Wallets <- MCWallets
  Numerals <- MCNumerals
INVARIANTS
  LoopInvariant
  AgreesWithSigner
  RegroupsBits
  OneToOne
  PaysExactly
  AsCore
  OnlyIntact
  KeyAtWholePath
  ParsersAgree
  ClientAsMeant
  FileReadsBack
CHECK_DEADLOCK FALSE
