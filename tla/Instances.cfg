SPECIFICATION Spec
CONSTANTS
  Inst = {i1, i2}
  OldLogs = {o1}
  Retention = 2
  HostTables <- MCHostTables
SYMMETRY Symmetry
INVARIANTS
  HostServicesRestored
  GuestServicesRecognised
  LogKept
CHECK_DEADLOCK FALSE
