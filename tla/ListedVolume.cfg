SPECIFICATION Spec
CONSTANTS
  Hosts <- RaidImageHosts
  Requests <- MCRequests
INVARIANT AnyListedVolumeMounts
CHECK_DEADLOCK FALSE
