SPECIFICATION Spec
CONSTANTS
    MaxSignals = 1
    Options <- MCOptions
INVARIANTS
    NoStaleMount
CHECK_DEADLOCK FALSE
