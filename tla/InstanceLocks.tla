---------------------------- MODULE InstanceLocks ---------------------------
(***************************************************************************)
(* The file locks that let several anylinuxfs processes share one user     *)
(* profile: the instance lock (/tmp/anylinuxfs.lock), taken shared or      *)
(* exclusive by every command that uses the VM root filesystem, and one    *)
(* lock per block device or image, taken by claim_devices.                 *)
(*                                                                         *)
(* A lock belongs to an open file description.  The VM is a forked child   *)
(* of the command, so the two share every lock: closing a file releases    *)
(* nothing while the other process lives, but an explicit LOCK_UN, which   *)
(* is what dropping a FlockGuard does, releases it for both.               *)
(* init-rootfs is another program: it inherits no lock.                    *)
(***************************************************************************)
EXTENDS Naturals, FiniteSets

CONSTANTS
  Procs,        \* anylinuxfs processes
  Devices,      \* block devices and disk images
  Commands,     \* the commands they run; "install" is also the init command
  RwCommands    \* the commands that may be given --rw-rootfs

ASSUME CommandsAssumption ==
  /\ Commands \subseteq {"mount", "shell", "apk", "list", "install", "uninstall"}
  /\ RwCommands \subseteq Commands \cap {"mount", "shell", "list"}

VARIABLES
  cmd,      \* the command a process runs
  pc,       \* where it is; "killed" once it got SIGKILL while its VM lives on,
            \* "orphan" when its init-rootfs does
  rw,       \* --rw-rootfs
  ro,       \* config.read_only when the devices are claimed
  disks,    \* the devices named on the command line
  lock,     \* what its file description holds on the instance lock
  dlock,    \* and on each device
  vm,       \* its VM: "none", or running with the root filesystem "ro" or "rw"
  rootfs    \* the root filesystem on disk: "absent", "partial", "ready" when it
            \* passes the check of vm_image::init, or "damaged" when an init-rootfs
            \* writes, or has written, to it without a lock: the check may pass

vars == <<cmd, pc, rw, ro, disks, lock, dlock, vm, rootfs>>

(* "lost": the process goes on without the lock it means to have. *)
Held == {"none", "SH", "EX", "lost"}

TypeOK ==
  /\ cmd \in [Procs -> Commands \cup {"none"}]
  /\ pc \in [Procs -> {"idle", "claim", "init", "modify", "upgrade", "start",
                       "run", "unwind", "exit", "killed", "orphan"}]
  /\ rw \in [Procs -> BOOLEAN]
  /\ ro \in [Procs -> BOOLEAN]
  /\ disks \in [Procs -> SUBSET Devices]
  /\ lock \in [Procs -> Held]
  /\ dlock \in [Procs -> [Devices -> Held]]
  /\ vm \in [Procs -> {"none", "ro", "rw"}]
  /\ rootfs \in {"absent", "partial", "ready", "damaged"}
  /\ \A p \in Procs : pc[p] = "idle" => lock[p] = "none" /\ vm[p] = "none"

Init ==
  /\ cmd = [p \in Procs |-> "none"]
  /\ pc = [p \in Procs |-> "idle"]
  /\ rw = [p \in Procs |-> FALSE]
  /\ ro = [p \in Procs |-> FALSE]
  /\ disks = [p \in Procs |-> {}]
  /\ lock = [p \in Procs |-> "none"]
  /\ dlock = [p \in Procs |-> [d \in Devices |-> "none"]]
  /\ vm = [p \in Procs |-> "none"]
  /\ rootfs = "absent"

(***************************************************************************)
(* flock(fd, kind | LOCK_NB) on a description that may already hold a lock *)
(***************************************************************************)
Grantable(held, p, kind) ==
  \A q \in Procs \ {p} : held[q] \in {"none", "lost"} \/ (kind = "SH" /\ held[q] = "SH")

DeviceHolders(d) == [p \in Procs |-> dlock[p][d]]

(* FlockKind of the instance lock: only a shell takes --rw-rootfs into account. *)
LockKind(c, w) ==
  IF c \in {"install", "uninstall"} \/ (c = "shell" /\ w) THEN "EX" ELSE "SH"

(* FlockKind of a device lock. *)
DeviceKind_AlwaysShared(readOnly) == "SH"

DeviceKind(readOnly) == IF readOnly THEN "SH" ELSE "EX"

(* Where a command goes after it has taken the instance lock ... *)
FirstStep(c) ==
  CASE c = "mount" -> "claim"
    [] c \in {"install", "uninstall"} -> "modify"
    [] OTHER -> "init"

(* ... after it has claimed its devices ... *)
AfterClaim(c) == IF c = "mount" THEN "init" ELSE "start"

(* ... and after vm_image::init. *)
AfterInit(c) ==
  CASE c = "shell" -> "claim"
    [] c = "apk" -> "upgrade"
    [] c = "install" -> "exit"
    [] OTHER -> "start"

-----------------------------------------------------------------------------
Goto(p, to) == pc' = [pc EXCEPT ![p] = to]

(* All files of a dead process and of its dead VM are closed. *)
ReleaseAs(p, to) ==
  /\ cmd' = [cmd EXCEPT ![p] = "none"]
  /\ Goto(p, to)
  /\ rw' = [rw EXCEPT ![p] = FALSE]
  /\ ro' = [ro EXCEPT ![p] = FALSE]
  /\ disks' = [disks EXCEPT ![p] = {}]
  /\ lock' = [lock EXCEPT ![p] = "none"]
  /\ dlock' = [dlock EXCEPT ![p] = [d \in Devices |-> "none"]]

Release(p) == ReleaseAs(p, "idle")

(* The command takes the instance lock; a refused lock ends it right there. *)
Start(p, c, w, r, ds) ==
  /\ pc[p] = "idle"
  /\ w => c \in RwCommands
  /\ c \notin {"mount", "shell"} => ds = {} /\ ~r
  /\ Grantable(lock, p, LockKind(c, w))
  /\ cmd' = [cmd EXCEPT ![p] = c]
  /\ rw' = [rw EXCEPT ![p] = w]
  /\ ro' = [ro EXCEPT ![p] = r]
  /\ disks' = [disks EXCEPT ![p] = ds]
  /\ lock' = [lock EXCEPT ![p] = LockKind(c, w)]
  /\ Goto(p, FirstStep(c))
  /\ rootfs' = IF FirstStep(c) = "modify" THEN "partial" ELSE rootfs
  /\ UNCHANGED <<dlock, vm>>

(* claim_devices locks the devices one after the other. *)
ClaimDevice(p, d) ==
  /\ pc[p] = "claim"
  /\ d \in disks[p]
  /\ dlock[p][d] = "none"
  /\ \/ /\ Grantable(DeviceHolders(d), p, DeviceKind(ro[p]))
        /\ dlock' = [dlock EXCEPT ![p][d] = DeviceKind(ro[p])]
        /\ UNCHANGED pc
     \/ /\ ~Grantable(DeviceHolders(d), p, DeviceKind(ro[p]))
        /\ Goto(p, "exit")
        /\ UNCHANGED dlock
  /\ UNCHANGED <<cmd, rw, ro, disks, lock, vm, rootfs>>

DevicesClaimed(p) ==
  /\ pc[p] = "claim"
  /\ \A d \in disks[p] : dlock[p][d] # "none"
  /\ Goto(p, AfterClaim(cmd[p]))
  /\ UNCHANGED <<cmd, rw, ro, disks, lock, dlock, vm, rootfs>>

(* vm_image::init finds rootfs.ver and the files it looks for; a shell may *)
(* be told to skip it.                                                     *)
InitNotNeeded(p) ==
  /\ pc[p] = "init"
  /\ rootfs \in {"ready", "damaged"} \/ cmd[p] = "shell"
  /\ Goto(p, AfterInit(cmd[p]))
  /\ UNCHANGED <<cmd, rw, ro, disks, lock, dlock, vm, rootfs>>

(* FlockGuard::upgrade, to rebuild the root filesystem or refresh vmproxy  *)
(* in it: a no-op on a lock that is already exclusive.  A refused upgrade  *)
(* ends the command, whether or not flock kept the shared lock.            *)
Upgrade(p) ==
  \/ /\ Grantable(lock, p, "EX")
     /\ lock' = [lock EXCEPT ![p] = "EX"]
     /\ Goto(p, IF pc[p] = "init" THEN "modify" ELSE "start")
     /\ rootfs' = IF pc[p] = "init" THEN "partial" ELSE rootfs
  \/ /\ ~Grantable(lock, p, "EX")
     /\ lock' \in {lock, [lock EXCEPT ![p] = "none"]}
     /\ Goto(p, "exit")
     /\ UNCHANGED rootfs

(* Mutant: the upgrade is taken for granted. *)
InitNeeded_NoUpgrade(p) ==
  /\ pc[p] = "init"
  /\ Goto(p, "modify")
  /\ rootfs' = "partial"
  /\ UNCHANGED <<cmd, rw, ro, disks, lock, dlock, vm>>

InitNeeded(p) ==
  /\ pc[p] = "init"
  /\ Upgrade(p)
  /\ UNCHANGED <<cmd, rw, ro, disks, dlock, vm>>

UpgradeForApk(p) ==
  /\ pc[p] = "upgrade"
  /\ Upgrade(p)
  /\ UNCHANGED <<cmd, rw, ro, disks, dlock, vm>>

(* Mutant: the inner guard unlocks instead of going back to a shared lock. *)
ModifyDone_Unlocks(p) ==
  /\ pc[p] = "modify"
  /\ cmd[p] # "uninstall"
  /\ rootfs' = "ready"
  /\ lock' = [lock EXCEPT ![p] = IF LockKind(cmd[p], rw[p]) = "EX" THEN "EX" ELSE "none"]
  /\ Goto(p, AfterInit(cmd[p]))
  /\ UNCHANGED <<cmd, rw, ro, disks, dlock, vm>>

(* The root filesystem is built; the inner guard of a shared lock goes     *)
(* back to it.  flock does not convert a lock atomically and the result is *)
(* ignored: if another process gets in between, the lock is lost.          *)
ModifyDone(p) ==
  /\ pc[p] = "modify"
  /\ cmd[p] # "uninstall"
  /\ rootfs' = "ready"
  /\ \/ lock' = [lock EXCEPT ![p] = LockKind(cmd[p], rw[p])]
     \/ LockKind(cmd[p], rw[p]) = "SH" /\ lock' = [lock EXCEPT ![p] = "lost"]
  /\ Goto(p, AfterInit(cmd[p]))
  /\ UNCHANGED <<cmd, rw, ro, disks, dlock, vm>>

(* Downloading, unpacking, the setup VM, copying vmproxy, removing a file: *)
(* any may fail.  A removal that stops early may leave everything the      *)
(* check looks for.                                                        *)
ModifyFails(p) ==
  /\ pc[p] = "modify"
  /\ rootfs' \in {"partial", "ready"}
  /\ Goto(p, "exit")
  /\ UNCHANGED <<cmd, rw, ro, disks, lock, dlock, vm>>

RemoveDone(p) ==
  /\ pc[p] = "modify"
  /\ cmd[p] = "uninstall"
  /\ rootfs' = "absent"
  /\ Goto(p, "exit")
  /\ UNCHANGED <<cmd, rw, ro, disks, lock, dlock, vm>>

(* The fork and krun_start_enter. *)
StartVm(p) ==
  /\ pc[p] = "start"
  /\ vm' = [vm EXCEPT ![p] = IF rw[p] \/ cmd[p] = "apk" THEN "rw" ELSE "ro"]
  /\ Goto(p, "run")
  /\ UNCHANGED <<cmd, rw, ro, disks, lock, dlock, rootfs>>

(* Setting up the VM fails in the forked child: the error unwinds the      *)
(* child's stack too, and its copy of the guard unlocks for both.          *)
StartVmFails(p) ==
  /\ pc[p] = "start"
  /\ lock' = [lock EXCEPT ![p] = "none"]
  /\ Goto(p, "exit")
  /\ UNCHANGED <<cmd, rw, ro, disks, dlock, vm, rootfs>>

(* The VM ends; a living parent has been waiting for it. *)
VmExits(p) ==
  /\ vm[p] # "none"
  /\ vm' = [vm EXCEPT ![p] = "none"]
  /\ IF pc[p] = "killed"
     THEN Release(p)
     ELSE Goto(p, "exit") /\ UNCHANGED <<cmd, rw, ro, disks, lock, dlock>>
  /\ UNCHANGED rootfs

(* An error in the parent while its VM runs: the guard is declared after   *)
(* the deferred actions, so it is dropped, and unlocks, before they tell   *)
(* the VM to quit and wait for it.                                         *)
HostError(p) ==
  /\ pc[p] = "run"
  /\ vm[p] # "none"
  /\ cmd[p] \in {"mount", "list"}
  /\ lock' = [lock EXCEPT ![p] = "none"]
  /\ Goto(p, "unwind")
  /\ UNCHANGED <<cmd, rw, ro, disks, dlock, vm, rootfs>>

(* Any other early return, and the end of every command. *)
Exit(p) ==
  /\ \/ pc[p] = "exit"
     \/ pc[p] \in {"claim", "init", "upgrade", "start"}
  /\ Release(p)
  /\ UNCHANGED <<vm, rootfs>>

(* Mutant: the device files are not shared with the VM. *)
Kill_DeviceLocksLost(p) ==
  /\ pc[p] \notin {"idle", "killed", "orphan"}
  /\ IF vm[p] = "none"
     THEN Release(p)
     ELSE /\ Goto(p, "killed")
          /\ dlock' = [dlock EXCEPT ![p] = [d \in Devices |-> "none"]]
          /\ UNCHANGED <<cmd, rw, ro, disks, lock>>
  /\ UNCHANGED <<vm, rootfs>>

(* SIGKILL: no destructor runs, and the VM lives on.  A killed rebuild or  *)
(* removal may, like one that failed, leave what passes the check.         *)
Kill(p) ==
  /\ pc[p] \notin {"idle", "killed", "orphan"}
  /\ IF vm[p] = "none"
     THEN Release(p)
     ELSE Goto(p, "killed") /\ UNCHANGED <<cmd, rw, ro, disks, lock, dlock>>
  /\ rootfs' \in IF pc[p] = "modify" THEN {"partial", "ready"} ELSE {rootfs}
  /\ UNCHANGED vm

(* SIGKILL while init-rootfs runs: it goes on, without any lock. *)
KillDuringInit(p) ==
  /\ pc[p] = "modify"
  /\ cmd[p] # "uninstall"
  /\ ReleaseAs(p, "orphan")
  /\ rootfs' = "damaged"
  /\ UNCHANGED vm

OrphanWrites(p) ==
  /\ pc[p] = "orphan"
  /\ rootfs # "damaged"
  /\ rootfs' = "damaged"
  /\ UNCHANGED <<cmd, pc, rw, ro, disks, lock, dlock, vm>>

OrphanEnds(p) ==
  /\ pc[p] = "orphan"
  /\ Release(p)
  /\ UNCHANGED <<vm, rootfs>>

Step(p) ==
  \/ \E c \in Commands, w \in BOOLEAN, r \in BOOLEAN, ds \in SUBSET Devices : Start(p, c, w, r, ds)
  \/ \E d \in Devices : ClaimDevice(p, d)
  \/ DevicesClaimed(p)
  \/ InitNotNeeded(p)
  \/ InitNeeded(p)
  \/ UpgradeForApk(p)
  \/ ModifyDone(p)
  \/ ModifyFails(p)
  \/ RemoveDone(p)
  \/ StartVm(p)
  \/ StartVmFails(p)
  \/ VmExits(p)
  \/ HostError(p)
  \/ Exit(p)
  \/ Kill(p)
  \/ KillDuringInit(p)
  \/ OrphanWrites(p)
  \/ OrphanEnds(p)

Next == \E p \in Procs : Step(p)

Spec == Init /\ [][Next]_vars

-----------------------------------------------------------------------------
(* p works on the root filesystem under the exclusive lock: it rebuilds or *)
(* removes it, or runs the shell or apk in a VM that writes to it.         *)
Maintains(p) ==
  pc[p] = "modify" \/ (vm[p] = "rw" /\ cmd[p] \in {"shell", "apk"})

(* The instance lock of p is gone though its VM or its init-rootfs lives   *)
(* on, or though it has not yet started its VM: an error unwinds, or p was *)
(* killed, or it did not get its shared lock back.                         *)
Abandoned(p) ==
  \/ pc[p] \in {"unwind", "orphan"}
  \/ pc[p] = "killed" /\ lock[p] = "none"
  \/ lock[p] = "lost"

(***************************************************************************)
(* claim_devices keeps a device that a VM may write to from every other    *)
(* VM that was given the device to mount, even after the process that      *)
(* claimed it was killed: two VMs share a device only if both are          *)
(* read-only.                                                              *)
(***************************************************************************)
DeviceWriteExclusion ==
  \A p, q \in Procs :
    p # q /\ vm[p] # "none" /\ vm[q] # "none" /\ disks[p] \cap disks[q] # {}
      => ro[p] /\ ro[q]

(***************************************************************************)
(* While a process rebuilds or removes the root filesystem, or changes it  *)
(* from a shell or with apk, no other process does so and no other VM      *)
(* runs, one with --rw-rootfs included.  Only a VM or an init-rootfs whose *)
(* process no longer has its lock can be beside it.  (mount and list take  *)
(* --rw-rootfs under the shared lock: they are kept from a maintainer, not *)
(* from each other.)                                                       *)
(***************************************************************************)
RootfsWriteExclusion ==
  \A p, q \in Procs :
    p # q /\ Maintains(p) /\ ~Abandoned(p) /\ ~Abandoned(q)
      => pc[q] # "modify" /\ vm[q] = "none"

(***************************************************************************)
(* What mount and list found in vm_image::init under a shared lock still   *)
(* holds when the VM is started and as long as it runs with its lock:      *)
(* nobody has begun to rebuild or to remove the root filesystem under it.  *)
(* An init-rootfs that has lost its parent can ("damaged").  apk converts  *)
(* its lock once more and does not look again.  That what passed the check *)
(* is complete is not claimed: see ImageInit.                              *)
(***************************************************************************)
VmHasRootfs ==
  \A p \in Procs :
    vm[p] # "none" /\ cmd[p] \in {"mount", "list"} /\ ~Abandoned(p)
      => rootfs \in {"ready", "damaged"}


=============================================================================
