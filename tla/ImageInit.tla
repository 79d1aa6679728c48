------------------------------ MODULE ImageInit -----------------------------
(***************************************************************************)
(* Building and refreshing the root filesystem of the VM: vm_image::init   *)
(* with the init-rootfs program for Linux, with curl, tar and two VMs for  *)
(* FreeBSD, and vm_image::remove.  The build is a row of steps, any of     *)
(* which may fail or be interrupted by a crash; what is on disk afterwards *)
(* is what the next init has to recognise.                                 *)
(*                                                                         *)
(* One process at a time: everything below "idle" happens under the        *)
(* exclusive instance lock (module InstanceLocks).                         *)
(***************************************************************************)
EXTENDS Naturals, FiniteSets

CONSTANTS
  Systems,      \* the guest systems: subset of {"Linux", "FreeBSD"}
  MaxFaults,    \* bound on failures, crashes and swallowed errors
  MaxUpgrades   \* bound on upgrades of the anylinuxfs package

ASSUME SystemsAssumption == Systems \subseteq {"Linux", "FreeBSD"}

ASSUME BoundsAssumption == MaxFaults \in Nat /\ MaxUpgrades \in Nat

VARIABLES
  os,        \* the guest system of the image
  file,      \* its parts on disk, see State
  ver,       \* rootfs.ver: "none", "torn", "old" or "current"
  mtimes,    \* the recorded mtimes of the FreeBSD binaries, likewise
  unnoticed, \* whether a script of a FreeBSD VM failed on vmproxy and nobody noticed
  pc,        \* "idle", or the step of the init in progress
  ret,       \* what the last init returned: "none", "ok" or "error"
  faults, upgrades

vars == <<os, file, ver, mtimes, unnoticed, pc, ret, faults, upgrades>>

(***************************************************************************)
(* The parts of a root filesystem.  "bash" and "nfsd" are checked for by   *)
(* name, "rest" is everything that nobody checks.  The FreeBSD parts are   *)
(* the kernel bundle and the disk image; vmproxy is inside the image.      *)
(***************************************************************************)
LinuxParts == {"bash", "nfsd", "fstab", "entrypoint", "vmproxy", "rest"}

FreeBSDParts == {"kernel", "disk", "vmproxy"}

Parts(s) == IF s = "Linux" THEN LinuxParts ELSE FreeBSDParts

(***************************************************************************)
(* "partial": its writing was interrupted; "holes": something in it is     *)
(* wrong because an error was swallowed or its removal was interrupted;    *)
(* "stale": vmproxy of an older package, "unseen" if size and mtime do not *)
(* tell; "blank": the disk image before the bootstrap VM has filled it.    *)
(***************************************************************************)
State == {"absent", "partial", "holes", "blank", "stale", "unseen", "good"}

LinuxSteps == {"remove", "unpack", "fstab", "entrypoint", "copies", "setup", "version",
               "refresh"}

FreeBSDSteps == {"kernel", "disk", "bootstrap", "setup", "version", "refresh", "mtimes"}

Recorded == {"none", "torn", "old", "current"}

TypeOK ==
  /\ os \in Systems
  /\ file \in [Parts(os) -> State]
  /\ ver \in Recorded
  /\ mtimes \in Recorded
  /\ unnoticed \in BOOLEAN
  /\ pc \in {"idle"} \cup (IF os = "Linux" THEN LinuxSteps ELSE FreeBSDSteps)
  /\ ret \in {"none", "ok", "error"}
  /\ faults \in 0..MaxFaults
  /\ upgrades \in 0..MaxUpgrades

Init ==
  /\ os \in Systems
  /\ file = [f \in Parts(os) |-> "absent"]
  /\ ver = "none"
  /\ mtimes = "none"
  /\ unnoticed = FALSE
  /\ pc = "idle"
  /\ ret = "none"
  /\ faults = 0
  /\ upgrades = 0

-----------------------------------------------------------------------------
Exists(f) == file[f] # "absent"

(* rootfs_version_matches *)
VersionMatches == ver = "current"

(* required_files_exist, fstab_configured and the version *)
CheckPasses ==
  /\ IF os = "Linux"
     THEN (\A f \in {"bash", "nfsd", "entrypoint", "vmproxy"} : Exists(f)) /\ file["fstab"] = "good"
     ELSE Exists("kernel") /\ Exists("disk")
  /\ VersionMatches

(* files_likely_differ on Linux; the mtime files on FreeBSD, where a missing one is old. *)
RefreshNeeded ==
  IF os = "Linux" THEN file["vmproxy"] \in {"partial", "stale"} ELSE mtimes \in {"none", "old"}

Fault == faults < MaxFaults /\ faults' = faults + 1

(* The init in progress goes on to the next step, or returns. *)
Goto(step) == pc' = step /\ UNCHANGED ret

Return(r) == pc' = "idle" /\ ret' = r

Put(f, s) == file' = [file EXCEPT ![f] = s]

(***************************************************************************)
(* Starting an init.                                                       *)
(***************************************************************************)
(* The image is in place and its vmproxy as well. *)
InitNothingToDo ==
  /\ pc = "idle"
  /\ CheckPasses
  /\ ~RefreshNeeded
  /\ mtimes # "torn"
  /\ Return("ok")
  /\ UNCHANGED <<os, unnoticed, file, ver, mtimes, faults, upgrades>>

(* read_mtime_file cannot parse the mtime file a crash has left empty. *)
InitMtimeUnreadable ==
  /\ pc = "idle"
  /\ CheckPasses
  /\ os = "FreeBSD"
  /\ mtimes = "torn"
  /\ Return("error")
  /\ UNCHANGED <<os, unnoticed, file, ver, mtimes, faults, upgrades>>

InitRefresh ==
  /\ pc = "idle"
  /\ CheckPasses
  /\ RefreshNeeded
  /\ Goto("refresh")
  /\ UNCHANGED <<os, unnoticed, file, ver, mtimes, faults, upgrades>>

(* Mutant: a version file that cannot be understood is not rebuilt. *)
InitBuild_KnownVersion(force) ==
  /\ pc = "idle"
  /\ force \/ (~CheckPasses /\ ver # "torn")
  /\ Goto(IF os = "Linux" THEN "remove" ELSE "kernel")
  /\ UNCHANGED <<os, unnoticed, file, ver, mtimes, faults, upgrades>>

(* A full build, because the check fails or was skipped (force). *)
InitBuild(force) ==
  /\ pc = "idle"
  /\ force \/ ~CheckPasses
  /\ Goto(IF os = "Linux" THEN "remove" ELSE "kernel")
  /\ UNCHANGED <<os, unnoticed, file, ver, mtimes, faults, upgrades>>

(***************************************************************************)
(* Linux: initRootfs and the setup VM of init-rootfs.                      *)
(***************************************************************************)
Linux(step) == os = "Linux" /\ pc = step

(* os.RemoveAll takes the base directory apart in any order ... *)
RemoveEntry(f) ==
  /\ Linux("remove")
  /\ Exists(f)
  /\ Put(f, "absent")
  /\ UNCHANGED <<os, unnoticed, ver, mtimes, pc, ret, faults, upgrades>>

(* ... rootfs.ver included. *)
RemoveVersion ==
  /\ Linux("remove")
  /\ ver # "none"
  /\ ver' = "none"
  /\ UNCHANGED <<os, unnoticed, file, mtimes, pc, ret, faults, upgrades>>

(* Mutant: only the rootfs directory is removed. *)
RemoveDone_KeepsVersion ==
  /\ Linux("remove")
  /\ \A f \in LinuxParts : ~Exists(f)
  /\ Goto("unpack")
  /\ UNCHANGED <<os, unnoticed, file, ver, mtimes, faults, upgrades>>

RemoveDone ==
  /\ Linux("remove")
  /\ \A f \in LinuxParts : ~Exists(f)
  /\ ver = "none"
  /\ Goto("unpack")
  /\ UNCHANGED <<os, unnoticed, file, ver, mtimes, faults, upgrades>>

(* downloadImage, unpackImage, configureDNS, appendCaCerts: a rootfs without packages. *)
Unpack ==
  /\ Linux("unpack")
  /\ Put("rest", "partial")
  /\ Goto("fstab")
  /\ UNCHANGED <<os, unnoticed, ver, mtimes, faults, upgrades>>

ConfigureFstab ==
  /\ Linux("fstab")
  /\ Put("fstab", "good")
  /\ Goto("entrypoint")
  /\ UNCHANGED <<os, unnoticed, ver, mtimes, faults, upgrades>>

(* writeSetupScript, downloadEntrypointScript *)
DownloadEntrypoint ==
  /\ Linux("entrypoint")
  /\ Put("entrypoint", "good")
  /\ Goto("copies")
  /\ UNCHANGED <<os, unnoticed, ver, mtimes, faults, upgrades>>

(* A status other than 200 returns the err of the request, which is nil. *)
DownloadEntrypointStatus ==
  /\ Linux("entrypoint")
  /\ Fault
  /\ Put("entrypoint", "holes")
  /\ Goto("copies")
  /\ UNCHANGED <<os, unnoticed, ver, mtimes, upgrades>>

(* copyLinuxModules, copyVmproxyBinary, stampOverrideStat *)
CopyBinaries ==
  /\ Linux("copies")
  /\ Put("vmproxy", "good")
  /\ Goto("setup")
  /\ UNCHANGED <<os, unnoticed, ver, mtimes, faults, upgrades>>

(* vm-setup.sh installs the packages and the kernel modules. *)
SetupVm ==
  /\ Linux("setup")
  /\ file' = [file EXCEPT !["bash"] = "good", !["nfsd"] = "good", !["rest"] = "good"]
  /\ Goto("version")
  /\ UNCHANGED <<os, unnoticed, ver, mtimes, faults, upgrades>>

(* A command of vm-setup.sh fails; the script goes on and ends with mkdir's status. *)
SetupVmSwallowed(packages) ==
  /\ Linux("setup")
  /\ Fault
  /\ file' = [file EXCEPT !["bash"] = packages, !["nfsd"] = packages, !["rest"] = "holes"]
  /\ Goto("version")
  /\ UNCHANGED <<os, unnoticed, ver, mtimes, upgrades>>

(* Refreshing vmproxy in an existing rootfs. *)
CopyVmproxy ==
  /\ Linux("refresh")
  /\ Put("vmproxy", "good")
  /\ Return("ok")
  /\ UNCHANGED <<os, unnoticed, ver, mtimes, faults, upgrades>>

(***************************************************************************)
(* FreeBSD: freebsd::init_rootfs.                                          *)
(***************************************************************************)
FreeBSD(step) == os = "FreeBSD" /\ pc = step

(* The OCI image, the binaries and the kernel bundle are fetched and extracted. *)
ExtractKernel ==
  /\ FreeBSD("kernel")
  /\ Put("kernel", "good")
  /\ Goto("disk")
  /\ UNCHANGED <<os, unnoticed, ver, mtimes, faults, upgrades>>

(* remove_file and create_sparse_file *)
CreateDisk ==
  /\ FreeBSD("disk")
  /\ file' = [file EXCEPT !["disk"] = "blank", !["vmproxy"] = "absent"]
  /\ unnoticed' = FALSE
  /\ Goto("bootstrap")
  /\ UNCHANGED <<os, ver, mtimes, faults, upgrades>>

(* Mutant: the version is recorded as soon as the image boots. *)
Bootstrap_VersionEarly ==
  /\ FreeBSD("bootstrap")
  /\ file' = [file EXCEPT !["disk"] = "partial", !["vmproxy"] = "good"]
  /\ ver' = "current"
  /\ Goto("setup")
  /\ UNCHANGED <<os, unnoticed, mtimes, faults, upgrades>>

(* The bootstrap VM populates the image; the packages are still missing. *)
Bootstrap ==
  /\ FreeBSD("bootstrap")
  /\ file' = [file EXCEPT !["disk"] = "partial", !["vmproxy"] = "good"]
  /\ Goto("setup")
  /\ UNCHANGED <<os, unnoticed, ver, mtimes, faults, upgrades>>

(* freebsd-bootstrap returns from main on an error, which is exit status 0: *)
(* the image is still blank, or cp has stopped anywhere.                    *)
BootstrapSwallowed(d, v) ==
  /\ FreeBSD("bootstrap")
  /\ Fault
  /\ file' = [file EXCEPT !["disk"] = d, !["vmproxy"] = v]
  /\ unnoticed' = (v # "good")
  /\ Goto("setup")
  /\ UNCHANGED <<os, ver, mtimes, upgrades>>

(* The second boot, from the image, installs the packages; pkg's status is lost. *)
SetupBsd ==
  /\ FreeBSD("setup")
  /\ file["disk"] # "blank"
  /\ \/ Put("disk", IF file["disk"] = "holes" THEN "holes" ELSE "good") /\ UNCHANGED faults
     \/ Put("disk", "holes") /\ Fault
  /\ Goto("version")
  /\ UNCHANGED <<os, unnoticed, ver, mtimes, upgrades>>

(* A blank image does not boot, and the VM's status says so. *)
NoBoot ==
  /\ FreeBSD("setup") \/ FreeBSD("refresh")
  /\ file["disk"] = "blank"
  /\ Return("error")
  /\ UNCHANGED <<os, unnoticed, file, ver, mtimes, faults, upgrades>>

(* Mutant: the mtimes are recorded before the VM has replaced the binaries. *)
UpgradeBinaries_RecordFirst ==
  /\ FreeBSD("refresh")
  /\ file["disk"] # "blank"
  /\ mtimes' = "current"
  /\ \/ Put("vmproxy", "good") /\ Goto("mtimes") /\ UNCHANGED faults
     \/ Fault /\ Return("error") /\ UNCHANGED file
  /\ UNCHANGED <<os, unnoticed, ver, upgrades>>

(* upgrade-binaries.sh: a failing mount, mv or cp does not change its exit  *)
(* status; vmproxy is what it was, moved away, or copied in part.           *)
UpgradeBinaries ==
  /\ FreeBSD("refresh")
  /\ file["disk"] # "blank"
  /\ \/ Put("vmproxy", "good") /\ unnoticed' = FALSE /\ UNCHANGED faults
     \/ /\ \E v \in {file["vmproxy"], "absent", "partial"} : Put("vmproxy", v)
        /\ unnoticed' = TRUE
        /\ Fault
  /\ Goto("mtimes")
  /\ UNCHANGED <<os, ver, mtimes, upgrades>>

(* write_mtime_files, at the end of a build and of a refresh. *)
WriteMtimes ==
  /\ FreeBSD("mtimes")
  /\ mtimes' = "current"
  /\ Return("ok")
  /\ UNCHANGED <<os, unnoticed, file, ver, faults, upgrades>>

(***************************************************************************)
(* Both systems.                                                           *)
(***************************************************************************)
(* Writing the version file ends the build; a failed write is only logged. *)
WriteVersion(ok) ==
  /\ pc = "version"
  /\ \/ ok /\ ver' = "current" /\ UNCHANGED faults
     \/ ~ok /\ ver' \in {ver, "torn"} /\ Fault
  /\ IF os = "Linux" THEN Return("ok") ELSE Goto("mtimes")
  /\ UNCHANGED <<os, unnoticed, file, mtimes, upgrades>>

(* The parts a step writes to: an interruption leaves each untouched or partial. *)
Writes(step) ==
  CASE step = "unpack" -> {"rest"}
    [] step \in {"fstab", "entrypoint", "kernel"} -> {step}
    [] step = "copies" \/ (step = "refresh" /\ os = "Linux") -> {"vmproxy"}
    [] step = "setup" /\ os = "Linux" -> {"bash", "nfsd", "rest"}
    [] step = "bootstrap" -> {"disk", "vmproxy"}
    [] step = "setup" /\ os = "FreeBSD" -> {"disk"}
    [] step = "refresh" /\ os = "FreeBSD" -> {"vmproxy"}
    [] OTHER -> {}

(* What an interruption of the current step may leave. *)
Torn ==
  {[f \in Parts(os) |-> IF f \in torn THEN "partial" ELSE file[f]] : torn \in SUBSET Writes(pc)}
    \cup {[file EXCEPT !["disk"] = d, !["vmproxy"] = "absent"] :
            d \in IF pc = "disk" THEN {"absent", "blank"} ELSE {}}

(* The error is returned, or the process dies, in the middle of a step. *)
Interrupted(r) ==
  /\ pc # "idle"
  /\ Fault
  /\ file' \in Torn
  /\ ver' \in IF pc = "version" THEN {ver, "torn"} ELSE {ver}
  /\ mtimes' \in IF pc = "mtimes" THEN {mtimes, "torn"} ELSE {mtimes}
  /\ Return(r)
  /\ UNCHANGED <<os, unnoticed, upgrades>>

(* image uninstall: vm_image::remove, which may stop half-way. *)
Uninstall ==
  /\ pc = "idle"
  /\ \/ /\ file' = [f \in Parts(os) |-> "absent"]
        /\ ver' = "none" /\ mtimes' = "none"
        /\ UNCHANGED faults
     \/ /\ Fault
        /\ \E gone \in SUBSET Parts(os) :
             /\ os = "FreeBSD" => ("vmproxy" \in gone <=> "disk" \in gone)
             /\ file' = [f \in Parts(os) |-> IF f \in gone THEN "absent" ELSE file[f]]
        /\ ver' \in {ver, "none"}
        /\ mtimes' \in {mtimes, "none"}
  /\ ret' = "none"
  /\ UNCHANGED <<os, unnoticed, pc, upgrades>>

(* A new package: another vmproxy, perhaps another rootfs version. *)
Upgrade(newVersion, seen) ==
  /\ pc = "idle"
  /\ upgrades < MaxUpgrades
  /\ upgrades' = upgrades + 1
  /\ ver' = IF newVersion /\ ver = "current" THEN "old" ELSE ver
  /\ mtimes' = IF seen /\ mtimes = "current" THEN "old" ELSE mtimes
  /\ file' = IF file["vmproxy"] = "good"
             THEN [file EXCEPT !["vmproxy"] = IF seen THEN "stale" ELSE "unseen"]
             ELSE file
  /\ ret' = "none"
  /\ UNCHANGED <<os, unnoticed, pc, faults>>

-----------------------------------------------------------------------------
InitStep ==
  \/ InitNothingToDo
  \/ InitMtimeUnreadable
  \/ InitRefresh
  \/ InitBuild(FALSE)

BuildStep ==
  \/ \E f \in LinuxParts : RemoveEntry(f)
  \/ RemoveVersion
  \/ RemoveDone
  \/ Unpack
  \/ ConfigureFstab
  \/ DownloadEntrypoint
  \/ CopyBinaries
  \/ SetupVm
  \/ CopyVmproxy
  \/ ExtractKernel
  \/ CreateDisk
  \/ Bootstrap
  \/ SetupBsd
  \/ NoBoot
  \/ UpgradeBinaries
  \/ WriteMtimes
  \/ WriteVersion(TRUE)

FaultyStep ==
  \/ DownloadEntrypointStatus
  \/ \E packages \in {"absent", "good"} : SetupVmSwallowed(packages)
  \/ BootstrapSwallowed("blank", "absent")
  \/ \E v \in {"absent", "partial", "good"} : BootstrapSwallowed("holes", v)
  \/ WriteVersion(FALSE)
  \/ \E r \in {"none", "error"} : Interrupted(r)

Next ==
  \/ InitStep
  \/ InitBuild(TRUE)
  \/ BuildStep
  \/ FaultyStep
  \/ Uninstall
  \/ \E newVersion, seen \in BOOLEAN : Upgrade(newVersion, seen)

(* An init that was started goes on, and every command starts one. *)
Fairness == WF_vars(InitStep) /\ WF_vars(BuildStep)

Spec == Init /\ [][Next]_vars /\ Fairness

-----------------------------------------------------------------------------
(***************************************************************************)
(* What an interrupted init has left half-written is never taken for an    *)
(* initialised root filesystem: the Linux build removes the version file   *)
(* before it writes anything and creates it last.  (vmproxy is compared    *)
(* with the host's copy each time.  A removal that stops before rootfs.ver *)
(* and the files that are looked for leaves a complete image as far as the *)
(* check can tell: "absent" is not excluded.  A forced FreeBSD install     *)
(* keeps the old version file, so nothing of the kind holds there.)        *)
(***************************************************************************)
NoHalfBuiltRootfs ==
  os = "Linux" /\ pc = "idle" /\ CheckPasses
    => \A f \in LinuxParts \ {"vmproxy"} : file[f] # "partial"

(***************************************************************************)
(* An init that returned Ok leaves no vmproxy that is recognisably older   *)
(* than the host's, by the comparison of files on Linux and by the mtime   *)
(* files on FreeBSD: those are written after the refresh.  The one case in *)
(* which FreeBSD records an old vmproxy as current is a script whose       *)
(* failure its VM does not report.  On Linux it is not half-copied either. *)
(***************************************************************************)
VmproxyRefreshed ==
  pc = "idle" /\ ret = "ok" =>
    /\ file["vmproxy"] = "stale" => os = "FreeBSD" /\ unnoticed
    /\ os = "Linux" => file["vmproxy"] \notin {"absent", "partial"}

(***************************************************************************)
(* The version file appears only once everything it vouches for is there:  *)
(* no step that was interrupted, in this init or in an earlier one, has    *)
(* left its mark (an error that a script swallows has).                    *)
(***************************************************************************)
RecordedWhenBuilt ==
  [][ver # "current" /\ ver' = "current"
       => \A f \in Parts(os) \ {"bash", "nfsd"} :
            file'[f] \in {"good", "holes"} \/ (f = "vmproxy" /\ unnoticed)]_vars

(***************************************************************************)
(* On Linux, no sequence of failures and crashes gets init stuck: once     *)
(* they stop, an init returns Ok.                                          *)
(***************************************************************************)
LinuxRecovers == []<>(os = "Linux" => ret = "ok")

=============================================================================
