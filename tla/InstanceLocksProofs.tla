------------------------ MODULE InstanceLocksProofs ------------------------
(***************************************************************************)
(* Proofs about the instance lock and the device locks for any number of   *)
(* processes and devices.                                                  *)
(***************************************************************************)
EXTENDS InstanceLocks, TLAPS

(***************************************************************************)
(* The inductive invariant.  LockTable: flock never grants an exclusive    *)
(* lock beside another one.  DeviceInv: a command past claim_devices holds *)
(* the lock its mode asks for on each of its devices.  VmInv: a VM belongs *)
(* to a process that waits for it, unwinds, or was killed, and the root    *)
(* filesystem is modified under an exclusive lock.                         *)
(***************************************************************************)
LockTable ==
  /\ \A p, q \in Procs : p # q /\ lock[p] = "EX" => lock[q] \in {"none", "lost"}
  /\ \A p, q \in Procs, d \in Devices :
       p # q /\ dlock[p][d] = "EX" => dlock[q][d] \in {"none", "lost"}

Claimed(p) ==
  \/ pc[p] \in {"start", "run", "unwind", "killed"}
  \/ cmd[p] = "mount" /\ pc[p] \in {"init", "modify"}

DeviceInv ==
  /\ \A p \in Procs, d \in Devices : dlock[p][d] \in {"none", DeviceKind(ro[p])}
  /\ \A p \in Procs : Claimed(p) => \A d \in disks[p] : dlock[p][d] # "none"
  /\ \A p \in Procs : cmd[p] \notin {"mount", "shell"} => disks[p] = {}
  /\ \A p \in Procs : pc[p] = "idle" => \A d \in Devices : dlock[p][d] = "none"

VmInv ==
  /\ \A p \in Procs : vm[p] # "none" => pc[p] \in {"run", "unwind", "killed"}
  /\ \A p \in Procs : pc[p] = "claim" => cmd[p] \in {"mount", "shell"}
  /\ \A p \in Procs : pc[p] = "upgrade" => cmd[p] = "apk"
  /\ \A p \in Procs : pc[p] = "modify" => lock[p] = "EX"

(***************************************************************************)
(* RootfsInv: a command keeps at least its shared lock until its VM ends,  *)
(* unless it is lost, and an exclusive one for as long as it maintains the *)
(* root filesystem; an error or SIGKILL may take the lock away, and then   *)
(* the process never gets past it.  ReadyInv: what vm_image::init found    *)
(* under a shared lock stays true as long as the lock is held.             *)
(***************************************************************************)
Locked(p) ==
  \/ pc[p] \in {"claim", "init", "modify", "upgrade", "start", "run"}
  \/ pc[p] = "killed" /\ lock[p] # "none"

MayMaintain(p) ==
  \/ pc[p] = "modify"
  \/ pc[p] \in {"claim", "init", "start"} /\ rw[p] /\ cmd[p] = "shell"
  \/ pc[p] = "start" /\ cmd[p] = "apk"
  \/ Locked(p) /\ vm[p] = "rw" /\ cmd[p] \in {"shell", "apk"}

RootfsInv ==
  /\ \A p \in Procs : Locked(p) => lock[p] # "none"
  /\ \A p \in Procs : MayMaintain(p) => lock[p] = "EX"
  /\ \A p \in Procs : rw[p] => cmd[p] \in {"mount", "shell", "list"}
  /\ \A p \in Procs : pc[p] \in {"unwind", "orphan"} => lock[p] = "none"

Ready(p) ==
  /\ cmd[p] \in {"mount", "list"}
  /\ lock[p] # "lost"
  /\ \/ pc[p] \in {"start", "run"}
     \/ pc[p] = "killed" /\ lock[p] # "none"

ReadyInv == \A p \in Procs : Ready(p) => rootfs \in {"ready", "damaged"}

LockInv == TypeOK /\ LockTable /\ DeviceInv /\ VmInv

(* Closing the files of a process leaves everything well typed. *)
LEMMA ReleaseType ==
  ASSUME TypeOK, NEW p \in Procs, Release(p), vm'[p] = "none",
         vm' \in [Procs -> {"none", "ro", "rw"}], \A q \in Procs \ {p} : vm'[q] = vm[q],
         rootfs' \in {"absent", "partial", "ready", "damaged"}
  PROVE  TypeOK'
<1>1. dlock' \in [Procs -> [Devices -> Held]]
  <2>1. [d \in Devices |-> "none"] \in [Devices -> Held]
    BY DEF Held
  <2> QED BY <2>1 DEF ReleaseAs, Release, Goto, TypeOK
<1>2. /\ cmd' \in [Procs -> Commands \cup {"none"}]
      /\ rw' \in [Procs -> BOOLEAN]
      /\ ro' \in [Procs -> BOOLEAN]
      /\ disks' \in [Procs -> SUBSET Devices]
  BY DEF ReleaseAs, Release, Goto, TypeOK
<1>3. /\ pc' \in [Procs -> {"idle", "claim", "init", "modify", "upgrade", "start",
                            "run", "unwind", "exit", "killed", "orphan"}]
      /\ lock' \in [Procs -> Held]
      /\ \A q \in Procs : pc'[q] = "idle" => lock'[q] = "none" /\ vm'[q] = "none"
  BY DEF ReleaseAs, Release, Goto, TypeOK, Held
<1> QED BY <1>1, <1>2, <1>3 DEF TypeOK

(* No step of a command breaks the types. *)
LEMMA StepType ==
  ASSUME TypeOK, VmInv, NEW p \in Procs, Step(p)
  PROVE  TypeOK'
<1> USE CommandsAssumption DEF TypeOK, Held, VmInv, Goto, LockKind, DeviceKind, FirstStep,
       AfterClaim, AfterInit
<1>1. ASSUME NEW c \in Commands, NEW w \in BOOLEAN, NEW r \in BOOLEAN,
             NEW ds \in SUBSET Devices, Start(p, c, w, r, ds)
      PROVE  TypeOK'
  BY <1>1 DEF Start
<1>2. ASSUME NEW d \in Devices, ClaimDevice(p, d) PROVE TypeOK'
  <2>1. /\ DeviceKind(ro[p]) \in Held
        /\ dlock' \in {dlock, [dlock EXCEPT ![p][d] = DeviceKind(ro[p])]}
        /\ pc' \in {pc, [pc EXCEPT ![p] = "exit"]}
        /\ pc[p] = "claim"
        /\ UNCHANGED <<cmd, rw, ro, disks, lock, vm, rootfs>>
    BY <1>2 DEF ClaimDevice
  <2>2. [dlock[p] EXCEPT ![d] = DeviceKind(ro[p])] \in [Devices -> Held]
    BY <2>1
  <2>3. [dlock EXCEPT ![p][d] = DeviceKind(ro[p])] \in [Procs -> [Devices -> Held]]
    BY <2>2
  <2>4. dlock' \in [Procs -> [Devices -> Held]]
    BY <2>1, <2>3
  <2> QED BY <2>1, <2>4
<1>3. CASE DevicesClaimed(p)
  BY <1>3 DEF DevicesClaimed
<1>4. CASE InitNotNeeded(p)
  BY <1>4 DEF InitNotNeeded
<1>5. CASE InitNeeded(p)
  <2>1. CASE Grantable(lock, p, "EX")
    <3>1. /\ lock' = [lock EXCEPT ![p] = "EX"]
          /\ pc' = [pc EXCEPT ![p] = "modify"]
          /\ rootfs' = "partial"
          /\ UNCHANGED <<cmd, rw, ro, disks, dlock, vm>>
      BY <1>5, <2>1 DEF InitNeeded, Upgrade, Goto
    <3> QED BY <1>5, <2>1, <3>1 DEF InitNeeded
  <2>2. CASE ~Grantable(lock, p, "EX")
    <3>1. /\ lock' = lock \/ lock' = [lock EXCEPT ![p] = "none"]
          /\ pc' = [pc EXCEPT ![p] = "exit"]
          /\ UNCHANGED <<cmd, rw, ro, disks, dlock, vm, rootfs>>
      BY <1>5, <2>2 DEF InitNeeded, Upgrade, Goto
    <3>2. CASE lock' = lock
      BY <1>5, <3>1, <3>2 DEF InitNeeded
    <3>3. CASE lock' = [lock EXCEPT ![p] = "none"]
      BY <1>5, <3>1, <3>3 DEF InitNeeded
    <3> QED BY <3>1, <3>2, <3>3
  <2> QED BY <2>1, <2>2
<1>6. CASE UpgradeForApk(p)
  <2>1. CASE Grantable(lock, p, "EX")
    <3>1. /\ lock' = [lock EXCEPT ![p] = "EX"]
          /\ pc' = [pc EXCEPT ![p] = "start"]
          /\ UNCHANGED rootfs
          /\ UNCHANGED <<cmd, rw, ro, disks, dlock, vm>>
      BY <1>6, <2>1 DEF UpgradeForApk, Upgrade, Goto
    <3> QED BY <1>6, <2>1, <3>1 DEF UpgradeForApk
  <2>2. CASE ~Grantable(lock, p, "EX")
    <3>1. /\ lock' = lock \/ lock' = [lock EXCEPT ![p] = "none"]
          /\ pc' = [pc EXCEPT ![p] = "exit"]
          /\ UNCHANGED <<cmd, rw, ro, disks, dlock, vm, rootfs>>
      BY <1>6, <2>2 DEF UpgradeForApk, Upgrade, Goto
    <3>2. CASE lock' = lock
      BY <1>6, <3>1, <3>2 DEF UpgradeForApk
    <3>3. CASE lock' = [lock EXCEPT ![p] = "none"]
      BY <1>6, <3>1, <3>3 DEF UpgradeForApk
    <3> QED BY <3>1, <3>2, <3>3
  <2> QED BY <2>1, <2>2
<1>7. CASE ModifyDone(p)
  <2>1. CASE lock' = [lock EXCEPT ![p] = LockKind(cmd[p], rw[p])]
    BY <1>7, <2>1 DEF ModifyDone
  <2>2. CASE lock' = [lock EXCEPT ![p] = "lost"]
    BY <1>7, <2>2 DEF ModifyDone
  <2> QED BY <1>7, <2>1, <2>2 DEF ModifyDone
<1>8. CASE ModifyFails(p)
  BY <1>8 DEF ModifyFails
<1>9. CASE RemoveDone(p)
  BY <1>9 DEF RemoveDone
<1>10. CASE StartVm(p)
  BY <1>10 DEF StartVm
<1>11. CASE StartVmFails(p)
  BY <1>11 DEF StartVmFails
<1>12. CASE VmExits(p)
  <2>1. CASE pc[p] = "killed"
    <3>1. Release(p) /\ vm' = [vm EXCEPT ![p] = "none"] /\ rootfs' = rootfs
      BY <1>12, <2>1 DEF VmExits
    <3> QED BY <3>1, ReleaseType
  <2>2. CASE pc[p] # "killed"
    BY <1>12, <2>2 DEF VmExits
  <2> QED BY <2>1, <2>2
<1>13. CASE HostError(p)
  BY <1>13 DEF HostError
<1>14. CASE Exit(p)
  <2>1. Release(p) /\ UNCHANGED <<vm, rootfs>> /\ vm[p] = "none"
    BY <1>14 DEF Exit
  <2> QED BY <2>1, ReleaseType
<1>15. CASE Kill(p)
  <2>1. CASE vm[p] = "none"
    <3>1. Release(p) /\ UNCHANGED vm /\ rootfs' \in {rootfs, "partial", "ready"}
      BY <1>15, <2>1 DEF Kill
    <3> QED BY <2>1, <3>1, ReleaseType
  <2>2. CASE vm[p] # "none"
    BY <1>15, <2>2 DEF Kill
  <2> QED BY <2>1, <2>2
<1>16. CASE KillDuringInit(p)
  BY <1>16 DEF KillDuringInit, ReleaseAs, Goto
<1>17. CASE OrphanWrites(p)
  BY <1>17 DEF OrphanWrites
<1>18. CASE OrphanEnds(p)
  <2>1. Release(p) /\ UNCHANGED <<vm, rootfs>> /\ vm[p] = "none"
    BY <1>18 DEF OrphanEnds
  <2> QED BY <2>1, ReleaseType
<1> QED
  BY <1>1, <1>2, <1>3, <1>4, <1>5, <1>6, <1>7, <1>8, <1>9, <1>10,
     <1>11, <1>12, <1>13, <1>14, <1>15, <1>16, <1>17, <1>18
  DEF Step

(* flock refuses what would put a lock beside an exclusive one. *)
LEMMA StepLockTable ==
  ASSUME TypeOK, VmInv, LockTable, NEW p \in Procs, Step(p)
  PROVE  LockTable'
<1> USE DEF TypeOK, Held, VmInv, LockTable, LockKind
<1>1. ASSUME NEW c \in Commands, NEW w \in BOOLEAN, NEW r \in BOOLEAN,
             NEW ds \in SUBSET Devices, Start(p, c, w, r, ds)
      PROVE  LockTable'
  BY <1>1 DEF Start, Grantable, DeviceHolders
<1>2. ASSUME NEW d \in Devices, ClaimDevice(p, d) PROVE LockTable'
  <2>1. CASE Grantable(DeviceHolders(d), p, DeviceKind(ro[p]))
    <3>1. /\ lock' = lock
          /\ dlock' = [dlock EXCEPT ![p][d] = DeviceKind(ro[p])]
      BY <1>2, <2>1 DEF ClaimDevice
    <3>2. \A q \in Procs \ {p} : /\ dlock[q][d] # "EX"
                                 /\ DeviceKind(ro[p]) = "EX" => dlock[q][d] \in {"none", "lost"}
      BY <2>1 DEF Grantable, DeviceHolders, DeviceKind
    <3>3. \A q \in Procs, e \in Devices :
            dlock'[q][e] = IF q = p /\ e = d THEN DeviceKind(ro[p]) ELSE dlock[q][e]
      BY <3>1
    <3> QED BY <3>1, <3>2, <3>3 DEF DeviceKind
  <2>2. CASE ~Grantable(DeviceHolders(d), p, DeviceKind(ro[p]))
    BY <1>2, <2>2 DEF ClaimDevice
  <2> QED BY <2>1, <2>2
<1>3. CASE DevicesClaimed(p)
  BY <1>3 DEF DevicesClaimed
<1>4. CASE InitNotNeeded(p)
  BY <1>4 DEF InitNotNeeded
<1>5. CASE InitNeeded(p)
  <2>1. CASE Grantable(lock, p, "EX")
    <3>1. /\ lock' = [lock EXCEPT ![p] = "EX"]
          /\ pc' = [pc EXCEPT ![p] = "modify"]
          /\ rootfs' = "partial"
          /\ UNCHANGED <<cmd, rw, ro, disks, dlock, vm>>
      BY <1>5, <2>1 DEF InitNeeded, Upgrade, Goto
    <3> QED BY <1>5, <2>1, <3>1 DEF InitNeeded, Grantable, DeviceHolders
  <2>2. CASE ~Grantable(lock, p, "EX")
    <3>1. /\ lock' = lock \/ lock' = [lock EXCEPT ![p] = "none"]
          /\ pc' = [pc EXCEPT ![p] = "exit"]
          /\ UNCHANGED <<cmd, rw, ro, disks, dlock, vm, rootfs>>
      BY <1>5, <2>2 DEF InitNeeded, Upgrade, Goto
    <3>2. CASE lock' = lock
      BY <1>5, <3>1, <3>2 DEF InitNeeded
    <3>3. CASE lock' = [lock EXCEPT ![p] = "none"]
      BY <1>5, <3>1, <3>3 DEF InitNeeded
    <3> QED BY <3>1, <3>2, <3>3
  <2> QED BY <2>1, <2>2
<1>6. CASE UpgradeForApk(p)
  <2>1. CASE Grantable(lock, p, "EX")
    <3>1. /\ lock' = [lock EXCEPT ![p] = "EX"]
          /\ pc' = [pc EXCEPT ![p] = "start"]
          /\ UNCHANGED rootfs
          /\ UNCHANGED <<cmd, rw, ro, disks, dlock, vm>>
      BY <1>6, <2>1 DEF UpgradeForApk, Upgrade, Goto
    <3> QED BY <1>6, <2>1, <3>1 DEF UpgradeForApk, Grantable, DeviceHolders
  <2>2. CASE ~Grantable(lock, p, "EX")
    <3>1. /\ lock' = lock \/ lock' = [lock EXCEPT ![p] = "none"]
          /\ pc' = [pc EXCEPT ![p] = "exit"]
          /\ UNCHANGED <<cmd, rw, ro, disks, dlock, vm, rootfs>>
      BY <1>6, <2>2 DEF UpgradeForApk, Upgrade, Goto
    <3>2. CASE lock' = lock
      BY <1>6, <3>1, <3>2 DEF UpgradeForApk
    <3>3. CASE lock' = [lock EXCEPT ![p] = "none"]
      BY <1>6, <3>1, <3>3 DEF UpgradeForApk
    <3> QED BY <3>1, <3>2, <3>3
  <2> QED BY <2>1, <2>2
<1>7. CASE ModifyDone(p)
  <2>1. CASE lock' = [lock EXCEPT ![p] = LockKind(cmd[p], rw[p])]
    BY <1>7, <2>1 DEF ModifyDone
  <2>2. CASE lock' = [lock EXCEPT ![p] = "lost"]
    BY <1>7, <2>2 DEF ModifyDone
  <2> QED BY <1>7, <2>1, <2>2 DEF ModifyDone
<1>8. CASE ModifyFails(p)
  BY <1>8 DEF ModifyFails
<1>9. CASE RemoveDone(p)
  BY <1>9 DEF RemoveDone
<1>10. CASE StartVm(p)
  BY <1>10 DEF StartVm
<1>11. CASE StartVmFails(p)
  BY <1>11 DEF StartVmFails
<1>12. CASE VmExits(p)
  <2>1. CASE pc[p] = "killed"
    <3>1. Release(p) /\ vm' = [vm EXCEPT ![p] = "none"] /\ rootfs' = rootfs
      BY <1>12, <2>1 DEF VmExits
    <3> QED BY <3>1, <2>1 DEF ReleaseAs, Release, Goto
  <2>2. CASE ~(pc[p] = "killed")
    BY <1>12, <2>2 DEF VmExits
  <2> QED BY <2>1, <2>2
<1>13. CASE HostError(p)
  BY <1>13 DEF HostError
<1>14. CASE Exit(p)
  BY <1>14 DEF Exit, ReleaseAs, Release, Goto
<1>15. CASE Kill(p)
  <2>1. CASE vm[p] = "none"
    <3>1. Release(p) /\ UNCHANGED vm /\ rootfs' \in {rootfs, "partial", "ready"}
      BY <1>15, <2>1 DEF Kill
    <3> QED BY <3>1, <2>1 DEF ReleaseAs, Release, Goto
  <2>2. CASE ~(vm[p] = "none")
    BY <1>15, <2>2 DEF Kill
  <2> QED BY <2>1, <2>2
<1>16. CASE KillDuringInit(p)
  BY <1>16 DEF KillDuringInit, ReleaseAs, Goto
<1>17. CASE OrphanWrites(p)
  BY <1>17 DEF OrphanWrites
<1>18. CASE OrphanEnds(p)
  BY <1>18 DEF OrphanEnds, ReleaseAs, Release, Goto
<1> QED
  BY <1>1, <1>2, <1>3, <1>4, <1>5, <1>6, <1>7, <1>8, <1>9, <1>10,
     <1>11, <1>12, <1>13, <1>14, <1>15, <1>16, <1>17, <1>18
  DEF Step

(* No step starts a VM on a device that is not locked, or unlocks one under it. *)
LEMMA StepDevices ==
  ASSUME TypeOK, VmInv, DeviceInv, NEW p \in Procs, Step(p)
  PROVE  DeviceInv'
<1> USE CommandsAssumption DEF TypeOK, Held, VmInv, DeviceInv, Claimed, Goto, LockKind,
       DeviceKind, FirstStep, AfterClaim, AfterInit
<1>1. ASSUME NEW c \in Commands, NEW w \in BOOLEAN, NEW r \in BOOLEAN,
             NEW ds \in SUBSET Devices, Start(p, c, w, r, ds)
      PROVE  DeviceInv'
  BY <1>1 DEF Start
<1>2. ASSUME NEW d \in Devices, ClaimDevice(p, d) PROVE DeviceInv'
  <2>1. CASE Grantable(DeviceHolders(d), p, DeviceKind(ro[p]))
    <3>1. /\ dlock' = [dlock EXCEPT ![p][d] = DeviceKind(ro[p])]
          /\ pc[p] = "claim"
          /\ UNCHANGED <<cmd, pc, ro, disks>>
      BY <1>2, <2>1 DEF ClaimDevice
    <3>2. \A q \in Procs, e \in Devices :
            dlock'[q][e] = IF q = p /\ e = d THEN DeviceKind(ro[p]) ELSE dlock[q][e]
      BY <3>1
    <3> QED BY <3>1, <3>2
  <2>2. CASE ~Grantable(DeviceHolders(d), p, DeviceKind(ro[p]))
    <3>1. pc' = [pc EXCEPT ![p] = "exit"] /\ UNCHANGED <<cmd, ro, disks, dlock>>
      BY <1>2, <2>2 DEF ClaimDevice
    <3> QED BY <3>1
  <2> QED BY <2>1, <2>2
<1>3. CASE DevicesClaimed(p)
  BY <1>3 DEF DevicesClaimed
<1>4. CASE InitNotNeeded(p)
  BY <1>4 DEF InitNotNeeded
<1>5. CASE InitNeeded(p)
  <2>1. CASE Grantable(lock, p, "EX")
    <3>1. /\ lock' = [lock EXCEPT ![p] = "EX"]
          /\ pc' = [pc EXCEPT ![p] = "modify"]
          /\ rootfs' = "partial"
          /\ UNCHANGED <<cmd, rw, ro, disks, dlock, vm>>
      BY <1>5, <2>1 DEF InitNeeded, Upgrade, Goto
    <3> QED BY <1>5, <2>1, <3>1 DEF InitNeeded
  <2>2. CASE ~Grantable(lock, p, "EX")
    <3>1. /\ lock' = lock \/ lock' = [lock EXCEPT ![p] = "none"]
          /\ pc' = [pc EXCEPT ![p] = "exit"]
          /\ UNCHANGED <<cmd, rw, ro, disks, dlock, vm, rootfs>>
      BY <1>5, <2>2 DEF InitNeeded, Upgrade, Goto
    <3>2. CASE lock' = lock
      BY <1>5, <3>1, <3>2 DEF InitNeeded
    <3>3. CASE lock' = [lock EXCEPT ![p] = "none"]
      BY <1>5, <3>1, <3>3 DEF InitNeeded
    <3> QED BY <3>1, <3>2, <3>3
  <2> QED BY <2>1, <2>2
<1>6. CASE UpgradeForApk(p)
  <2>1. CASE Grantable(lock, p, "EX")
    <3>1. /\ lock' = [lock EXCEPT ![p] = "EX"]
          /\ pc' = [pc EXCEPT ![p] = "start"]
          /\ UNCHANGED rootfs
          /\ UNCHANGED <<cmd, rw, ro, disks, dlock, vm>>
      BY <1>6, <2>1 DEF UpgradeForApk, Upgrade, Goto
    <3> QED BY <1>6, <2>1, <3>1 DEF UpgradeForApk
  <2>2. CASE ~Grantable(lock, p, "EX")
    <3>1. /\ lock' = lock \/ lock' = [lock EXCEPT ![p] = "none"]
          /\ pc' = [pc EXCEPT ![p] = "exit"]
          /\ UNCHANGED <<cmd, rw, ro, disks, dlock, vm, rootfs>>
      BY <1>6, <2>2 DEF UpgradeForApk, Upgrade, Goto
    <3>2. CASE lock' = lock
      BY <1>6, <3>1, <3>2 DEF UpgradeForApk
    <3>3. CASE lock' = [lock EXCEPT ![p] = "none"]
      BY <1>6, <3>1, <3>3 DEF UpgradeForApk
    <3> QED BY <3>1, <3>2, <3>3
  <2> QED BY <2>1, <2>2
<1>7. CASE ModifyDone(p)
  BY <1>7 DEF ModifyDone
<1>8. CASE ModifyFails(p)
  BY <1>8 DEF ModifyFails
<1>9. CASE RemoveDone(p)
  BY <1>9 DEF RemoveDone
<1>10. CASE StartVm(p)
  BY <1>10 DEF StartVm
<1>11. CASE StartVmFails(p)
  BY <1>11 DEF StartVmFails
<1>12. CASE VmExits(p)
  <2>1. CASE pc[p] = "killed"
    <3>1. Release(p)
      BY <1>12, <2>1 DEF VmExits
    <3> QED BY <3>1 DEF ReleaseAs, Release, Goto
  <2>2. CASE pc[p] # "killed"
    <3>1. pc' = [pc EXCEPT ![p] = "exit"] /\ UNCHANGED <<cmd, ro, disks, dlock>>
      BY <1>12, <2>2 DEF VmExits
    <3> QED BY <3>1
  <2> QED BY <2>1, <2>2
<1>13. CASE HostError(p)
  BY <1>13 DEF HostError
<1>14. CASE Exit(p)
  BY <1>14 DEF Exit, ReleaseAs, Release, Goto
<1>15. CASE Kill(p)
  <2>1. CASE vm[p] = "none"
    <3>1. Release(p)
      BY <1>15, <2>1 DEF Kill
    <3> QED BY <3>1 DEF ReleaseAs, Release, Goto
  <2>2. CASE vm[p] # "none"
    <3>1. /\ pc[p] \in {"run", "unwind"}
          /\ pc' = [pc EXCEPT ![p] = "killed"]
          /\ UNCHANGED <<cmd, ro, disks, dlock>>
      BY <1>15, <2>2 DEF Kill
    <3> QED BY <3>1
  <2> QED BY <2>1, <2>2
<1>16. CASE KillDuringInit(p)
  BY <1>16 DEF KillDuringInit, ReleaseAs, Goto
<1>17. CASE OrphanWrites(p)
  BY <1>17 DEF OrphanWrites
<1>18. CASE OrphanEnds(p)
  BY <1>18 DEF OrphanEnds, ReleaseAs, Release, Goto
<1> QED
  BY <1>1, <1>2, <1>3, <1>4, <1>5, <1>6, <1>7, <1>8, <1>9, <1>10,
     <1>11, <1>12, <1>13, <1>14, <1>15, <1>16, <1>17, <1>18
  DEF Step

(* A VM does not outlive its process unless the process was killed. *)
LEMMA StepVm ==
  ASSUME TypeOK, VmInv, NEW p \in Procs, Step(p)
  PROVE  VmInv'
<1> USE CommandsAssumption DEF TypeOK, Held, VmInv, Goto, FirstStep, AfterClaim, AfterInit,
       LockKind
<1>1. ASSUME NEW c \in Commands, NEW w \in BOOLEAN, NEW r \in BOOLEAN,
             NEW ds \in SUBSET Devices, Start(p, c, w, r, ds)
      PROVE  VmInv'
  BY <1>1 DEF Start
<1>2. ASSUME NEW d \in Devices, ClaimDevice(p, d) PROVE VmInv'
  <2>1. pc[p] = "claim" /\ vm' = vm /\ cmd' = cmd /\ lock' = lock
    BY <1>2 DEF ClaimDevice
  <2>2. pc' = pc \/ pc' = [pc EXCEPT ![p] = "exit"]
    BY <1>2 DEF ClaimDevice
  <2>3. CASE pc' = pc
    BY <2>1, <2>3
  <2>4. CASE pc' = [pc EXCEPT ![p] = "exit"]
    BY <2>1, <2>4
  <2> QED BY <2>2, <2>3, <2>4
<1>3. CASE DevicesClaimed(p)
  BY <1>3 DEF DevicesClaimed
<1>4. CASE InitNotNeeded(p)
  BY <1>4 DEF InitNotNeeded
<1>5. CASE InitNeeded(p)
  <2>1. CASE Grantable(lock, p, "EX")
    <3>1. /\ lock' = [lock EXCEPT ![p] = "EX"]
          /\ pc' = [pc EXCEPT ![p] = "modify"]
          /\ rootfs' = "partial"
          /\ UNCHANGED <<cmd, rw, ro, disks, dlock, vm>>
      BY <1>5, <2>1 DEF InitNeeded, Upgrade, Goto
    <3> QED BY <1>5, <2>1, <3>1 DEF InitNeeded
  <2>2. CASE ~Grantable(lock, p, "EX")
    <3>1. /\ lock' = lock \/ lock' = [lock EXCEPT ![p] = "none"]
          /\ pc' = [pc EXCEPT ![p] = "exit"]
          /\ UNCHANGED <<cmd, rw, ro, disks, dlock, vm, rootfs>>
      BY <1>5, <2>2 DEF InitNeeded, Upgrade, Goto
    <3>2. CASE lock' = lock
      BY <1>5, <3>1, <3>2 DEF InitNeeded
    <3>3. CASE lock' = [lock EXCEPT ![p] = "none"]
      BY <1>5, <3>1, <3>3 DEF InitNeeded
    <3> QED BY <3>1, <3>2, <3>3
  <2> QED BY <2>1, <2>2
<1>6. CASE UpgradeForApk(p)
  <2>1. CASE Grantable(lock, p, "EX")
    <3>1. /\ lock' = [lock EXCEPT ![p] = "EX"]
          /\ pc' = [pc EXCEPT ![p] = "start"]
          /\ UNCHANGED rootfs
          /\ UNCHANGED <<cmd, rw, ro, disks, dlock, vm>>
      BY <1>6, <2>1 DEF UpgradeForApk, Upgrade, Goto
    <3> QED BY <1>6, <2>1, <3>1 DEF UpgradeForApk
  <2>2. CASE ~Grantable(lock, p, "EX")
    <3>1. /\ lock' = lock \/ lock' = [lock EXCEPT ![p] = "none"]
          /\ pc' = [pc EXCEPT ![p] = "exit"]
          /\ UNCHANGED <<cmd, rw, ro, disks, dlock, vm, rootfs>>
      BY <1>6, <2>2 DEF UpgradeForApk, Upgrade, Goto
    <3>2. CASE lock' = lock
      BY <1>6, <3>1, <3>2 DEF UpgradeForApk
    <3>3. CASE lock' = [lock EXCEPT ![p] = "none"]
      BY <1>6, <3>1, <3>3 DEF UpgradeForApk
    <3> QED BY <3>1, <3>2, <3>3
  <2> QED BY <2>1, <2>2
<1>7. CASE ModifyDone(p)
  BY <1>7 DEF ModifyDone
<1>8. CASE ModifyFails(p)
  BY <1>8 DEF ModifyFails
<1>9. CASE RemoveDone(p)
  BY <1>9 DEF RemoveDone
<1>10. CASE StartVm(p)
  BY <1>10 DEF StartVm
<1>11. CASE StartVmFails(p)
  BY <1>11 DEF StartVmFails
<1>12. CASE VmExits(p)
  <2>1. CASE pc[p] = "killed"
    <3>1. Release(p) /\ vm' = [vm EXCEPT ![p] = "none"] /\ rootfs' = rootfs
      BY <1>12, <2>1 DEF VmExits
    <3> QED BY <3>1, <2>1 DEF ReleaseAs, Release, Goto
  <2>2. CASE ~(pc[p] = "killed")
    BY <1>12, <2>2 DEF VmExits
  <2> QED BY <2>1, <2>2
<1>13. CASE HostError(p)
  BY <1>13 DEF HostError
<1>14. CASE Exit(p)
  BY <1>14 DEF Exit, ReleaseAs, Release, Goto
<1>15. CASE Kill(p)
  <2>1. CASE vm[p] = "none"
    <3>1. Release(p) /\ UNCHANGED vm /\ rootfs' \in {rootfs, "partial", "ready"}
      BY <1>15, <2>1 DEF Kill
    <3> QED BY <3>1, <2>1 DEF ReleaseAs, Release, Goto
  <2>2. CASE ~(vm[p] = "none")
    <3>1. pc' = [pc EXCEPT ![p] = "killed"] /\ UNCHANGED <<cmd, lock, vm>>
      BY <1>15, <2>2 DEF Kill, Goto
    <3> QED BY <3>1
  <2> QED BY <2>1, <2>2
<1>16. CASE KillDuringInit(p)
  BY <1>16 DEF KillDuringInit, ReleaseAs, Goto
<1>17. CASE OrphanWrites(p)
  BY <1>17 DEF OrphanWrites
<1>18. CASE OrphanEnds(p)
  BY <1>18 DEF OrphanEnds, ReleaseAs, Release, Goto
<1> QED
  BY <1>1, <1>2, <1>3, <1>4, <1>5, <1>6, <1>7, <1>8, <1>9, <1>10,
     <1>11, <1>12, <1>13, <1>14, <1>15, <1>16, <1>17, <1>18
  DEF Step

(* No step loses a lock that its process still needs, except by a mark. *)
LEMMA StepRootfs ==
  ASSUME TypeOK, VmInv, RootfsInv, NEW p \in Procs, Step(p)
  PROVE  RootfsInv'
<1> USE CommandsAssumption DEF TypeOK, Held, VmInv, RootfsInv, Locked, MayMaintain, Goto, LockKind,
       FirstStep, AfterClaim, AfterInit
<1>1. ASSUME NEW c \in Commands, NEW w \in BOOLEAN, NEW r \in BOOLEAN,
             NEW ds \in SUBSET Devices, Start(p, c, w, r, ds)
      PROVE  RootfsInv'
  BY <1>1 DEF Start
<1>2. ASSUME NEW d \in Devices, ClaimDevice(p, d) PROVE RootfsInv'
  BY <1>2 DEF ClaimDevice
<1>3. CASE DevicesClaimed(p)
  BY <1>3 DEF DevicesClaimed
<1>4. CASE InitNotNeeded(p)
  BY <1>4 DEF InitNotNeeded
<1>5. CASE InitNeeded(p)
  <2>1. CASE Grantable(lock, p, "EX")
    <3>1. /\ lock' = [lock EXCEPT ![p] = "EX"]
          /\ pc' = [pc EXCEPT ![p] = "modify"]
          /\ rootfs' = "partial"
          /\ UNCHANGED <<cmd, rw, ro, disks, dlock, vm>>
      BY <1>5, <2>1 DEF InitNeeded, Upgrade, Goto
    <3> QED BY <1>5, <2>1, <3>1 DEF InitNeeded
  <2>2. CASE ~Grantable(lock, p, "EX")
    <3>1. /\ lock' = lock \/ lock' = [lock EXCEPT ![p] = "none"]
          /\ pc' = [pc EXCEPT ![p] = "exit"]
          /\ UNCHANGED <<cmd, rw, ro, disks, dlock, vm, rootfs>>
      BY <1>5, <2>2 DEF InitNeeded, Upgrade, Goto
    <3>2. CASE lock' = lock
      BY <1>5, <3>1, <3>2 DEF InitNeeded
    <3>3. CASE lock' = [lock EXCEPT ![p] = "none"]
      BY <1>5, <3>1, <3>3 DEF InitNeeded
    <3> QED BY <3>1, <3>2, <3>3
  <2> QED BY <2>1, <2>2
<1>6. CASE UpgradeForApk(p)
  <2>1. CASE Grantable(lock, p, "EX")
    <3>1. /\ lock' = [lock EXCEPT ![p] = "EX"]
          /\ pc' = [pc EXCEPT ![p] = "start"]
          /\ UNCHANGED rootfs
          /\ UNCHANGED <<cmd, rw, ro, disks, dlock, vm>>
      BY <1>6, <2>1 DEF UpgradeForApk, Upgrade, Goto
    <3> QED BY <1>6, <2>1, <3>1 DEF UpgradeForApk
  <2>2. CASE ~Grantable(lock, p, "EX")
    <3>1. /\ lock' = lock \/ lock' = [lock EXCEPT ![p] = "none"]
          /\ pc' = [pc EXCEPT ![p] = "exit"]
          /\ UNCHANGED <<cmd, rw, ro, disks, dlock, vm, rootfs>>
      BY <1>6, <2>2 DEF UpgradeForApk, Upgrade, Goto
    <3>2. CASE lock' = lock
      BY <1>6, <3>1, <3>2 DEF UpgradeForApk
    <3>3. CASE lock' = [lock EXCEPT ![p] = "none"]
      BY <1>6, <3>1, <3>3 DEF UpgradeForApk
    <3> QED BY <3>1, <3>2, <3>3
  <2> QED BY <2>1, <2>2
<1>7. CASE ModifyDone(p)
  BY <1>7 DEF ModifyDone
<1>8. CASE ModifyFails(p)
  BY <1>8 DEF ModifyFails
<1>9. CASE RemoveDone(p)
  BY <1>9 DEF RemoveDone
<1>10. CASE StartVm(p)
  BY <1>10 DEF StartVm
<1>11. CASE StartVmFails(p)
  BY <1>11 DEF StartVmFails
<1>12. CASE VmExits(p)
  <2>1. CASE pc[p] = "killed"
    <3>1. Release(p) /\ vm' = [vm EXCEPT ![p] = "none"] /\ rootfs' = rootfs
      BY <1>12, <2>1 DEF VmExits
    <3> QED BY <3>1, <2>1 DEF ReleaseAs, Release, Goto
  <2>2. CASE ~(pc[p] = "killed")
    BY <1>12, <2>2 DEF VmExits
  <2> QED BY <2>1, <2>2
<1>13. CASE HostError(p)
  BY <1>13 DEF HostError
<1>14. CASE Exit(p)
  BY <1>14 DEF Exit, ReleaseAs, Release, Goto
<1>15. CASE Kill(p)
  <2>1. CASE vm[p] = "none"
    <3>1. Release(p) /\ UNCHANGED vm /\ rootfs' \in {rootfs, "partial", "ready"}
      BY <1>15, <2>1 DEF Kill
    <3> QED BY <3>1, <2>1 DEF ReleaseAs, Release, Goto
  <2>2. CASE ~(vm[p] = "none")
    BY <1>15, <2>2 DEF Kill
  <2> QED BY <2>1, <2>2
<1>16. CASE KillDuringInit(p)
  BY <1>16 DEF KillDuringInit, ReleaseAs, Goto
<1>17. CASE OrphanWrites(p)
  BY <1>17 DEF OrphanWrites
<1>18. CASE OrphanEnds(p)
  BY <1>18 DEF OrphanEnds, ReleaseAs, Release, Goto
<1> QED
  BY <1>1, <1>2, <1>3, <1>4, <1>5, <1>6, <1>7, <1>8, <1>9, <1>10,
     <1>11, <1>12, <1>13, <1>14, <1>15, <1>16, <1>17, <1>18
  DEF Step

(* No step takes the root filesystem from under a command that has checked it. *)
LEMMA StepReady ==
  ASSUME TypeOK, VmInv, LockTable, RootfsInv, ReadyInv, NEW p \in Procs, Step(p)
  PROVE  ReadyInv'
<1> USE CommandsAssumption DEF TypeOK, Held, VmInv, LockTable, RootfsInv, Locked, MayMaintain,
       ReadyInv, Ready, Goto, LockKind, FirstStep, AfterClaim, AfterInit
<1>1. ASSUME NEW c \in Commands, NEW w \in BOOLEAN, NEW r \in BOOLEAN,
             NEW ds \in SUBSET Devices, Start(p, c, w, r, ds)
      PROVE  ReadyInv'
  BY <1>1 DEF Start, Grantable
<1>2. ASSUME NEW d \in Devices, ClaimDevice(p, d) PROVE ReadyInv'
  BY <1>2 DEF ClaimDevice, Grantable
<1>3. CASE DevicesClaimed(p)
  BY <1>3 DEF DevicesClaimed
<1>4. CASE InitNotNeeded(p)
  BY <1>4 DEF InitNotNeeded
<1>5. CASE InitNeeded(p)
  <2>1. CASE Grantable(lock, p, "EX")
    <3>1. /\ lock' = [lock EXCEPT ![p] = "EX"]
          /\ pc' = [pc EXCEPT ![p] = "modify"]
          /\ rootfs' = "partial"
          /\ UNCHANGED <<cmd, rw, ro, disks, dlock, vm>>
      BY <1>5, <2>1 DEF InitNeeded, Upgrade, Goto
    <3> QED BY <1>5, <2>1, <3>1 DEF InitNeeded, Grantable
  <2>2. CASE ~Grantable(lock, p, "EX")
    <3>1. /\ lock' = lock \/ lock' = [lock EXCEPT ![p] = "none"]
          /\ pc' = [pc EXCEPT ![p] = "exit"]
          /\ UNCHANGED <<cmd, rw, ro, disks, dlock, vm, rootfs>>
      BY <1>5, <2>2 DEF InitNeeded, Upgrade, Goto
    <3>2. CASE lock' = lock
      BY <1>5, <3>1, <3>2 DEF InitNeeded
    <3>3. CASE lock' = [lock EXCEPT ![p] = "none"]
      BY <1>5, <3>1, <3>3 DEF InitNeeded
    <3> QED BY <3>1, <3>2, <3>3
  <2> QED BY <2>1, <2>2
<1>6. CASE UpgradeForApk(p)
  <2>1. CASE Grantable(lock, p, "EX")
    <3>1. /\ lock' = [lock EXCEPT ![p] = "EX"]
          /\ pc' = [pc EXCEPT ![p] = "start"]
          /\ UNCHANGED rootfs
          /\ UNCHANGED <<cmd, rw, ro, disks, dlock, vm>>
      BY <1>6, <2>1 DEF UpgradeForApk, Upgrade, Goto
    <3> QED BY <1>6, <2>1, <3>1 DEF UpgradeForApk, Grantable
  <2>2. CASE ~Grantable(lock, p, "EX")
    <3>1. /\ lock' = lock \/ lock' = [lock EXCEPT ![p] = "none"]
          /\ pc' = [pc EXCEPT ![p] = "exit"]
          /\ UNCHANGED <<cmd, rw, ro, disks, dlock, vm, rootfs>>
      BY <1>6, <2>2 DEF UpgradeForApk, Upgrade, Goto
    <3>2. CASE lock' = lock
      BY <1>6, <3>1, <3>2 DEF UpgradeForApk
    <3>3. CASE lock' = [lock EXCEPT ![p] = "none"]
      BY <1>6, <3>1, <3>3 DEF UpgradeForApk
    <3> QED BY <3>1, <3>2, <3>3
  <2> QED BY <2>1, <2>2
<1>7. CASE ModifyDone(p)
  BY <1>7 DEF ModifyDone
<1>8. CASE ModifyFails(p)
  BY <1>8 DEF ModifyFails
<1>9. CASE RemoveDone(p)
  BY <1>9 DEF RemoveDone
<1>10. CASE StartVm(p)
  BY <1>10 DEF StartVm
<1>11. CASE StartVmFails(p)
  BY <1>11 DEF StartVmFails
<1>12. CASE VmExits(p)
  <2>1. CASE pc[p] = "killed"
    <3>1. Release(p) /\ vm' = [vm EXCEPT ![p] = "none"] /\ rootfs' = rootfs
      BY <1>12, <2>1 DEF VmExits
    <3> QED BY <3>1, <2>1 DEF ReleaseAs, Release, Goto
  <2>2. CASE ~(pc[p] = "killed")
    BY <1>12, <2>2 DEF VmExits
  <2> QED BY <2>1, <2>2
<1>13. CASE HostError(p)
  BY <1>13 DEF HostError
<1>14. CASE Exit(p)
  BY <1>14 DEF Exit, ReleaseAs, Release, Goto
<1>15. CASE Kill(p)
  <2>1. CASE vm[p] = "none"
    <3>1. Release(p) /\ UNCHANGED vm /\ (pc[p] # "modify" => rootfs' = rootfs)
      BY <1>15, <2>1 DEF Kill
    <3>2. \A q \in Procs \ {p} : Ready(q)' <=> Ready(q)
      BY <3>1 DEF ReleaseAs, Release, Goto
    <3>3. ~Ready(p)'
      BY <3>1 DEF ReleaseAs, Release, Goto
    <3>4. CASE pc[p] = "modify"
      <4>1. \A q \in Procs \ {p} : lock[q] \in {"none", "lost"}
        BY <3>4
      <4>2. \A q \in Procs \ {p} : ~Ready(q)
        BY <4>1
      <4> QED BY <3>2, <3>3, <4>2
    <3>5. CASE pc[p] # "modify"
      BY <3>1, <3>2, <3>3, <3>5
    <3> QED BY <3>4, <3>5
  <2>2. CASE ~(vm[p] = "none")
    BY <1>15, <2>2 DEF Kill
  <2> QED BY <2>1, <2>2
<1>16. CASE KillDuringInit(p)
  BY <1>16 DEF KillDuringInit, ReleaseAs, Goto
<1>17. CASE OrphanWrites(p)
  BY <1>17 DEF OrphanWrites
<1>18. CASE OrphanEnds(p)
  BY <1>18 DEF OrphanEnds, ReleaseAs, Release, Goto
<1> QED
  BY <1>1, <1>2, <1>3, <1>4, <1>5, <1>6, <1>7, <1>8, <1>9, <1>10,
     <1>11, <1>12, <1>13, <1>14, <1>15, <1>16, <1>17, <1>18
  DEF Step

(***************************************************************************)
(* The variables of the lock model keep their types, and a process that    *)
(* does not run holds neither the instance lock nor a VM.                  *)
(***************************************************************************)
THEOREM LocksTypeCorrect == Spec => []TypeOK
<1>1. Init => TypeOK /\ VmInv
  BY DEF Init, TypeOK, Held, VmInv
<1>2. TypeOK /\ VmInv /\ [Next]_vars => (TypeOK /\ VmInv)'
  <2> SUFFICES ASSUME TypeOK, VmInv, [Next]_vars PROVE TypeOK' /\ VmInv'
    OBVIOUS
  <2>1. CASE Next
    BY <2>1, StepType, StepVm DEF Next
  <2>2. CASE UNCHANGED vars
    BY <2>2 DEF vars, TypeOK, VmInv
  <2> QED BY <2>1, <2>2
<1> QED BY <1>1, <1>2, PTL DEF Spec

(***************************************************************************)
(* flock's rule, the claims of the devices and the owners of the VMs are   *)
(* together inductive.                                                     *)
(***************************************************************************)
THEOREM LockInvariant == Spec => []LockInv
<1>1. Init => LockInv
  BY DEF Init, LockInv, TypeOK, Held, LockTable, DeviceInv, Claimed, VmInv
<1>2. LockInv /\ [Next]_vars => LockInv'
  <2> SUFFICES ASSUME LockInv, [Next]_vars PROVE LockInv'
    OBVIOUS
  <2> USE DEF LockInv
  <2>1. CASE Next
    BY <2>1, StepType, StepVm, StepLockTable, StepDevices DEF Next
  <2>2. CASE UNCHANGED vars
    BY <2>2 DEF vars, TypeOK, LockTable, DeviceInv, Claimed, VmInv
  <2> QED BY <2>1, <2>2
<1> QED BY <1>1, <1>2, PTL DEF Spec

(***************************************************************************)
(* Two VMs that were given the same device to mount are both read-only,    *)
(* whatever the number of processes and devices and whoever was killed.    *)
(***************************************************************************)
THEOREM DevicesExclusive == Spec => []DeviceWriteExclusion
<1>1. LockInv => DeviceWriteExclusion
  <2> SUFFICES ASSUME LockInv, NEW p \in Procs, NEW q \in Procs, p # q,
                      vm[p] # "none", vm[q] # "none", NEW d \in disks[p] \cap disks[q]
               PROVE  ro[p] /\ ro[q]
    BY DEF DeviceWriteExclusion
  <2>1. d \in Devices /\ Claimed(p) /\ Claimed(q)
    BY DEF LockInv, TypeOK, VmInv, Claimed
  <2>2. dlock[p][d] = DeviceKind(ro[p]) /\ dlock[q][d] = DeviceKind(ro[q])
    BY <2>1 DEF LockInv, DeviceInv
  <2> QED BY <2>1, <2>2 DEF LockInv, TypeOK, LockTable, DeviceKind
<1> QED BY <1>1, LockInvariant, PTL

(***************************************************************************)
(* Whichever commands are given --rw-rootfs, whoever rebuilds, removes or  *)
(* maintains the root filesystem under the exclusive lock is alone on it.  *)
(***************************************************************************)
THEOREM RootfsExclusive == Spec => []RootfsWriteExclusion
<1>1. Init => LockInv /\ RootfsInv
  BY DEF Init, LockInv, TypeOK, Held, LockTable, DeviceInv, Claimed, VmInv, RootfsInv,
         Locked, MayMaintain
<1>2. LockInv /\ RootfsInv /\ [Next]_vars => RootfsInv'
  <2> SUFFICES ASSUME LockInv, RootfsInv, [Next]_vars PROVE RootfsInv'
    OBVIOUS
  <2>1. CASE Next
    BY <2>1, StepRootfs DEF Next, LockInv
  <2>2. CASE UNCHANGED vars
    BY <2>2 DEF vars, RootfsInv, Locked, MayMaintain
  <2> QED BY <2>1, <2>2
<1>3. LockInv /\ RootfsInv => RootfsWriteExclusion
  <2> SUFFICES ASSUME LockInv, RootfsInv, NEW p \in Procs, NEW q \in Procs, p # q,
                      Maintains(p), ~Abandoned(p), ~Abandoned(q)
               PROVE  pc[q] # "modify" /\ vm[q] = "none"
    BY DEF RootfsWriteExclusion
  <2>1. lock[p] = "EX"
    BY DEF LockInv, VmInv, RootfsInv, Maintains, Abandoned, Locked, MayMaintain
  <2>2. lock[q] \in {"none", "lost"}
    BY <2>1 DEF LockInv, LockTable
  <2> QED BY <2>2 DEF LockInv, VmInv, RootfsInv, Maintains, Abandoned, Locked
<1> QED BY <1>1, <1>2, <1>3, LockInvariant, PTL DEF Spec

(***************************************************************************)
(* Nobody begins to rebuild or remove the root filesystem under a VM of    *)
(* mount or list that has its lock, whichever commands write to it.        *)
(***************************************************************************)
THEOREM RootfsKept == Spec => []VmHasRootfs
<1>1. Init => RootfsInv /\ ReadyInv
  BY DEF Init, RootfsInv, Locked, MayMaintain, ReadyInv, Ready
<1>2. LockInv /\ RootfsInv /\ ReadyInv /\ [Next]_vars => (RootfsInv /\ ReadyInv)'
  <2> SUFFICES ASSUME LockInv, RootfsInv, ReadyInv, [Next]_vars
               PROVE  RootfsInv' /\ ReadyInv'
    OBVIOUS
  <2>1. CASE Next
    BY <2>1, StepRootfs, StepReady DEF Next, LockInv
  <2>2. CASE UNCHANGED vars
    BY <2>2 DEF vars, RootfsInv, Locked, MayMaintain, ReadyInv, Ready
  <2> QED BY <2>1, <2>2
<1>3. LockInv /\ ReadyInv => VmHasRootfs
  BY DEF LockInv, VmInv, ReadyInv, Ready, VmHasRootfs, Abandoned
<1> QED BY <1>1, <1>2, <1>3, LockInvariant, PTL DEF Spec
=============================================================================
