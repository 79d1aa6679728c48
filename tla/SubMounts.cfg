SPECIFICATION Spec
CONSTANTS
  Tokens <- MCTokens
  Share <- MCShare
  Base <- MCBase
  ExportSets <- MCExportSets
  Foreign <- MCForeign
  MaxFaults = 2
INVARIANTS
  NoHiddenMount
  UnmountComplete
  NeighboursKept
CHECK_DEADLOCK FALSE
