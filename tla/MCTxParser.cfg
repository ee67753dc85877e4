SPECIFICATION USpec
CONSTANTS
  Base = 5
  Width <- MCWidth
  VersionSize = 1
  OutpointSize = 1
  SequenceSize = 1
  AmountSize = 1
  LocktimeSize = 1
  MinInput = 3
  MinOutput = 2
  MaxLength = 17
  InCounts <- MCInCounts
  OutLists <- MCOutLists
INVARIANTS
  RoundTrip
  StrippedForm
  RejectsOnlyMalformed
  PsbtTxParses
