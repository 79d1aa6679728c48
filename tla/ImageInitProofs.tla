--------------------------- MODULE ImageInitProofs ---------------------------
(***************************************************************************)
(* Proofs about ImageInit, for any number of failures, crashes and         *)
(* upgrades: what a half-done init has left is not taken for a root file   *)
(* system, the version file is written last, and an init that returns Ok   *)
(* has refreshed vmproxy.                                                  *)
(***************************************************************************)
EXTENDS ImageInit, TLAPS

(* What the program finds before its first init. *)
LEMMA TypesAtFirst == Init => TypeOK
<1> SUFFICES ASSUME Init PROVE TypeOK
  OBVIOUS
<1>1. unnoticed \in BOOLEAN BY DEF Init
<1>2. /\ os \in Systems
      /\ file \in [Parts(os) -> State]
      /\ ver \in Recorded /\ mtimes \in Recorded
      /\ pc = "idle" /\ ret = "none"
      /\ faults \in 0..MaxFaults /\ upgrades \in 0..MaxUpgrades
  BY BoundsAssumption DEF Init, Parts, State, Recorded
<1>3. QED BY <1>1, <1>2 DEF TypeOK

(* Every action keeps the types of the variables. *)
LEMMA TypesKept == TypeOK /\ [Next]_vars => TypeOK'
<1> SUFFICES ASSUME TypeOK, [Next]_vars PROVE TypeOK'
  OBVIOUS
<1> USE BoundsAssumption DEF TypeOK, Parts, LinuxParts, FreeBSDParts, State, LinuxSteps,
        FreeBSDSteps, Recorded, Goto, Return, Put, Fault, Linux, FreeBSD
<1>1. CASE InitStep \/ InitBuild(TRUE)
  BY <1>1 DEF InitStep, InitNothingToDo, InitMtimeUnreadable, InitRefresh, InitBuild
<1>2. CASE BuildStep
  <2>1. CASE \E f \in LinuxParts : RemoveEntry(f) BY <2>1 DEF RemoveEntry
  <2>2. CASE RemoveVersion \/ RemoveDone BY <2>2 DEF RemoveVersion, RemoveDone
  <2>3. CASE Unpack \/ ConfigureFstab \/ DownloadEntrypoint
    BY <2>3 DEF Unpack, ConfigureFstab, DownloadEntrypoint
  <2>4. CASE CopyBinaries \/ SetupVm \/ CopyVmproxy
    BY <2>4 DEF CopyBinaries, SetupVm, CopyVmproxy
  <2>5. CASE ExtractKernel \/ CreateDisk \/ Bootstrap
    BY <2>5 DEF ExtractKernel, CreateDisk, Bootstrap
  <2>6. CASE SetupBsd \/ NoBoot BY <2>6 DEF SetupBsd, NoBoot
  <2>7. CASE UpgradeBinaries \/ WriteMtimes
    <3>1. CASE UpgradeBinaries
      <4>1. unnoticed' \in BOOLEAN BY <3>1 DEF UpgradeBinaries
      <4>2. file' \in [Parts(os) -> State] /\ faults' \in 0..MaxFaults
        BY <3>1 DEF UpgradeBinaries
      <4>3. QED BY <3>1, <4>1, <4>2 DEF UpgradeBinaries
    <3>2. CASE WriteMtimes BY <3>2 DEF WriteMtimes
    <3>3. QED BY <2>7, <3>1, <3>2
  <2>8. CASE WriteVersion(TRUE) BY <2>8 DEF WriteVersion
  <2>9. QED BY <1>2, <2>1, <2>2, <2>3, <2>4, <2>5, <2>6, <2>7, <2>8 DEF BuildStep
<1>3. CASE FaultyStep
  <2>1. CASE DownloadEntrypointStatus BY <2>1 DEF DownloadEntrypointStatus
  <2>2. ASSUME NEW packages \in {"absent", "good"}, SetupVmSwallowed(packages) PROVE TypeOK'
    BY <2>2 DEF SetupVmSwallowed
  <2>3. ASSUME NEW d \in {"blank", "holes"}, NEW v \in {"absent", "partial", "good"},
               d = "blank" => v = "absent", BootstrapSwallowed(d, v)
        PROVE TypeOK'
    BY <2>3 DEF BootstrapSwallowed
  <2>4. CASE WriteVersion(FALSE) BY <2>4 DEF WriteVersion
  <2>5. ASSUME NEW r \in {"none", "error"}, Interrupted(r) PROVE TypeOK'
    <3>1. file' \in [Parts(os) -> State]
      BY <2>5 DEF Interrupted, Torn, Writes
    <3>2. QED BY <2>5, <3>1 DEF Interrupted
  <2>6. QED BY <1>3, <2>1, <2>2, <2>3, <2>4, <2>5 DEF FaultyStep
<1>4. CASE Uninstall BY <1>4 DEF Uninstall
<1>5. ASSUME NEW newVersion \in BOOLEAN, NEW seen \in BOOLEAN, Upgrade(newVersion, seen)
      PROVE TypeOK'
  BY <1>5 DEF Upgrade
<1>6. CASE UNCHANGED vars BY <1>6 DEF vars
<1>7. QED BY <1>1, <1>2, <1>3, <1>4, <1>5, <1>6 DEF Next

(***************************************************************************)
(* No step of an init, no failure, crash, uninstall or upgrade takes the   *)
(* image out of its states.                                                *)
(***************************************************************************)
THEOREM ImageTypeCorrect == Spec => []TypeOK
<1> QED BY TypesAtFirst, TypesKept, PTL DEF Spec

-----------------------------------------------------------------------------
(* The inductive invariant.                                                *)

\* a part that its step has completed, be it with a swallowed error
Done(f) == file[f] \in {"good", "holes"}

(* Linux: while the base directory is filled there is no version file, and  *)
(* each step finds what the ones before it have written.                    *)
LinuxInv ==
  os = "Linux" =>
    /\ pc \in {"unpack", "fstab", "entrypoint", "copies", "setup", "version"} => ver = "none"
    /\ pc \in {"entrypoint", "copies", "setup", "version"} => Done("fstab")
    /\ pc \in {"copies", "setup", "version"} => Done("entrypoint")
    /\ pc \in {"setup", "version"} => Done("vmproxy")
    /\ pc = "version" => Done("rest") /\ file["bash"] # "partial" /\ file["nfsd"] # "partial"

(* What the version file vouches for is not half-written. *)
VersionInv ==
  os = "Linux" /\ ver = "current" =>
    \A f \in LinuxParts \ {"vmproxy"} : file[f] # "partial"

(* FreeBSD: the bundle and the disk image when the version is recorded, and *)
(* the binaries when their mtimes are, or else a script has failed unseen.  *)
FreeBSDInv ==
  os = "FreeBSD" =>
    /\ pc \in {"disk", "bootstrap", "setup", "version"} => Done("kernel")
    /\ pc = "setup" => file["disk"] \in {"blank", "partial", "holes"}
    /\ pc \in {"setup", "version"} => file["disk"] = "blank" \/ Done("vmproxy") \/ unnoticed
    /\ pc = "version" => Done("disk")
    /\ pc = "mtimes" => Done("vmproxy") \/ unnoticed
    /\ pc = "refresh" => mtimes # "current"
    /\ mtimes = "current" /\ file["vmproxy"] = "stale" => unnoticed

ImageInv == TypeOK /\ LinuxInv /\ VersionInv /\ FreeBSDInv /\ VmproxyRefreshed

(* Every step keeps it: the build, the parts a crash leaves half-written,   *)
(* an interrupted uninstall and an upgrade.                                 *)
LEMMA ImageKept == ImageInv /\ [Next]_vars => ImageInv'
<1> SUFFICES ASSUME ImageInv, [Next]_vars
             PROVE LinuxInv' /\ VersionInv' /\ FreeBSDInv' /\ VmproxyRefreshed'
  BY TypesKept DEF ImageInv
<1> DEFINE Goal == LinuxInv' /\ VersionInv' /\ FreeBSDInv' /\ VmproxyRefreshed'
<1> USE SystemsAssumption DEF ImageInv, LinuxInv, VersionInv, FreeBSDInv, VmproxyRefreshed, Done, TypeOK, Parts,
        LinuxParts, FreeBSDParts, State, LinuxSteps, FreeBSDSteps, Recorded, Goto, Return, Put,
        Linux, FreeBSD
<1>1. CASE InitStep \/ InitBuild(TRUE)
  BY <1>1 DEF InitStep, InitNothingToDo, InitMtimeUnreadable, InitRefresh, InitBuild,
              RefreshNeeded, CheckPasses, Exists
<1>2. CASE BuildStep
  <2>1. CASE \E f \in LinuxParts : RemoveEntry(f) BY <2>1 DEF RemoveEntry
  <2>2. CASE RemoveVersion \/ RemoveDone BY <2>2 DEF RemoveVersion, RemoveDone
  <2>3. CASE Unpack \/ ConfigureFstab \/ DownloadEntrypoint
    BY <2>3 DEF Unpack, ConfigureFstab, DownloadEntrypoint
  <2>4. CASE CopyBinaries \/ SetupVm \/ CopyVmproxy
    BY <2>4 DEF CopyBinaries, SetupVm, CopyVmproxy
  <2>5. CASE ExtractKernel \/ CreateDisk \/ Bootstrap
    BY <2>5 DEF ExtractKernel, CreateDisk, Bootstrap
  <2>6. CASE SetupBsd \/ NoBoot BY <2>6 DEF SetupBsd, NoBoot
  <2>7. CASE UpgradeBinaries \/ WriteMtimes BY <2>7 DEF UpgradeBinaries, WriteMtimes
  <2>8. CASE WriteVersion(TRUE) BY <2>8 DEF WriteVersion
  <2>9. QED BY <1>2, <2>1, <2>2, <2>3, <2>4, <2>5, <2>6, <2>7, <2>8 DEF BuildStep
<1>3. CASE FaultyStep
  <2>1. CASE DownloadEntrypointStatus BY <2>1 DEF DownloadEntrypointStatus
  <2>2. ASSUME NEW packages \in {"absent", "good"}, SetupVmSwallowed(packages) PROVE Goal
    BY <2>2 DEF SetupVmSwallowed
  <2>3. ASSUME NEW d \in {"blank", "holes"}, NEW v \in {"absent", "partial", "good"},
               d = "blank" => v = "absent", BootstrapSwallowed(d, v)
        PROVE Goal
    BY <2>3 DEF BootstrapSwallowed
  <2>4. CASE WriteVersion(FALSE) BY <2>4 DEF WriteVersion
  <2>5. ASSUME NEW r \in {"none", "error"}, Interrupted(r) PROVE Goal
    BY <2>5 DEF Interrupted, Torn, Writes
  <2>6. QED BY <1>3, <2>1, <2>2, <2>3, <2>4, <2>5 DEF FaultyStep
<1>4. CASE Uninstall BY <1>4 DEF Uninstall
<1>5. ASSUME NEW newVersion \in BOOLEAN, NEW seen \in BOOLEAN, Upgrade(newVersion, seen)
      PROVE Goal
  BY <1>5 DEF Upgrade
<1>6. CASE UNCHANGED vars BY <1>6 DEF vars
<1>7. QED BY <1>1, <1>2, <1>3, <1>4, <1>5, <1>6 DEF Next
(***************************************************************************)
(* The invariant that relates the position of init to what is on disk,     *)
(* after any number of failed, interrupted and repeated builds.            *)
(***************************************************************************)
THEOREM ImageInvariant == Spec => []ImageInv
<1>1. Init => ImageInv
  <2> SUFFICES ASSUME Init PROVE ImageInv
    OBVIOUS
  <2>1. TypeOK BY TypesAtFirst
  <2>2. QED
    BY <2>1 DEF Init, ImageInv, LinuxInv, VersionInv, FreeBSDInv, VmproxyRefreshed, Parts
<1>2. QED BY <1>1, ImageKept, PTL DEF Spec

(***************************************************************************)
(* However often an init of the Linux image fails or is killed, in whatever *)
(* step, the next one does not take what is left for a complete root file   *)
(* system (rootfs_version_matches, required_files_exist).                   *)
(***************************************************************************)
THEOREM HalfBuiltRebuilt == Spec => []NoHalfBuiltRootfs
<1>1. ImageInv => NoHalfBuiltRootfs
  BY DEF ImageInv, VersionInv, NoHalfBuiltRootfs, CheckPasses, VersionMatches
<1>2. QED BY <1>1, ImageInvariant, PTL

(***************************************************************************)
(* An init that returns Ok has left no vmproxy that is recognisably older   *)
(* than the package's: by the comparison on Linux, where it is not half-    *)
(* copied either, and by the recorded mtimes on FreeBSD, unless a script in *)
(* the VM has failed without a status (upgrade-binaries.sh, cp).            *)
(***************************************************************************)
THEOREM VmproxyUpToDate == Spec => []VmproxyRefreshed
<1>1. ImageInv => VmproxyRefreshed
  BY DEF ImageInv
<1>2. QED BY <1>1, ImageInvariant, PTL

(***************************************************************************)
(* The version file appears only in the last step of a build all of whose  *)
(* steps came to their end (write_rootfs_version, init_rootfs).            *)
(***************************************************************************)
THEOREM VersionWrittenLast == Spec => RecordedWhenBuilt
<1> DEFINE Recording == ver # "current" /\ ver' = "current"
           Built == \A f \in Parts(os) \ {"bash", "nfsd"} : 
                      file'[f] \in {"good", "holes"} \/ (f = "vmproxy" /\ unnoticed)
<1>1. ASSUME ImageInv, [Next]_vars, Recording PROVE Built
  <2>1. \E ok \in BOOLEAN : WriteVersion(ok)
    <3>1. CASE InitStep \/ InitBuild(TRUE)
      BY <1>1, <3>1 DEF InitStep, InitNothingToDo, InitMtimeUnreadable, InitRefresh, InitBuild
    <3>2. CASE BuildStep
      BY <1>1, <3>2 DEF BuildStep, RemoveEntry, RemoveVersion, RemoveDone, Unpack,
         ConfigureFstab, DownloadEntrypoint, CopyBinaries, SetupVm, CopyVmproxy, ExtractKernel,
         CreateDisk, Bootstrap, SetupBsd, NoBoot, UpgradeBinaries, WriteMtimes
    <3>3. CASE FaultyStep
      BY <1>1, <3>3 DEF FaultyStep, DownloadEntrypointStatus, SetupVmSwallowed,
         BootstrapSwallowed, Interrupted
    <3>4. CASE Uninstall BY <1>1, <3>4 DEF Uninstall
    <3>5. CASE \E newVersion, seen \in BOOLEAN : Upgrade(newVersion, seen)
      BY <1>1, <3>5 DEF Upgrade
    <3>6. CASE UNCHANGED vars BY <1>1, <3>6 DEF vars
    <3>7. QED BY <1>1, <3>1, <3>2, <3>3, <3>4, <3>5, <3>6 DEF Next
  <2>2. pc = "version" /\ UNCHANGED <<os, file>> BY <2>1 DEF WriteVersion
  <2>3. QED
    BY <1>1, <2>2, SystemsAssumption
       DEF ImageInv, TypeOK, LinuxInv, FreeBSDInv, Done, Parts, LinuxParts, FreeBSDParts
<1>2. ImageInv /\ [Next]_vars => [Recording => Built]_vars
  BY <1>1
<1>3. QED BY <1>2, ImageInvariant, PTL DEF Spec, RecordedWhenBuilt
=============================================================================
