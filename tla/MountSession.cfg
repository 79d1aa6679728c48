SPECIFICATION Spec
CONSTANTS
    MaxSignals = 2
    Options <- MCOptions
INVARIANTS
    ResourcesReleased
    VmResourcesKept
    VmReaped
    ReportSaved
    GuestFailureReported
PROPERTIES
    UnmountEndsSession
    ErrorEndsSession
CHECK_DEADLOCK FALSE
