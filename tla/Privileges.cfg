SPECIFICATION Spec
CONSTANTS
  Platforms = {"linux", "macos"}
  SudoValues = {TRUE, FALSE}
INVARIANTS
  IdsOfPhase
  CleanupAsRootUnlessGuarded
CHECK_DEADLOCK FALSE
