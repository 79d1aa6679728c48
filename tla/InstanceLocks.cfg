CONSTANTS
  Procs = {p1, p2, p3}
  Devices = {d1}
  Commands = {"mount", "shell", "apk", "install", "uninstall"}
  RwCommands = {"mount", "shell"}
SPECIFICATION Spec
SYMMETRY Symmetry
INVARIANTS
  DeviceWriteExclusion
  RootfsWriteExclusion
  VmHasRootfs
