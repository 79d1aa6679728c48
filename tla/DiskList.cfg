SPECIFICATION Spec
CONSTANTS
  Hosts <- MCHosts
  Requests <- MCRequests
INVARIANTS
  ListedVolumesMount
  EveryVolumeListed
  DecryptedShown
CHECK_DEADLOCK FALSE
