CONSTANTS
  Systems = {"Linux", "FreeBSD"}
  MaxFaults = 2
  MaxUpgrades = 1
SPECIFICATION Spec
INVARIANTS
  NoHalfBuiltRootfs
  VmproxyRefreshed
PROPERTIES
  RecordedWhenBuilt
  LinuxRecovers
