# Verification of anylinuxfs

TLA+ specifications of anylinuxfs, the TLC configurations that model-check
them, and TLAPS proofs about them. anylinuxfs mounts Linux file systems on a
host by starting a small libkrun virtual machine that has the disk attached and
exports it over NFS back to the host.

## 1. The system

| Part | Code | State it keeps | Operations | Interacts with |
|---|---|---|---|---|
| mount session | `anylinuxfs/src/cmd_mount.rs` `run_mount_child` | a stack of deferred clean-ups, sockets and files, the forked VM, NFS status | start helper, fork VM, wait for NFS, mount, detach, wait for unmount, quit, reap | VM (pty, control socket), foreground process (pipe), signal hub, API socket |
| foreground process | `cmd_mount.rs` `run_mount_parent` | nothing but its child | detach or join | mount session |
| deferred actions | `common-utils/src/lib.rs` `Deferred` | a list of closures | add, call_now, remove, drop | every function that cleans up |
| instance and device locks | `utils.rs` `LockFile`, `FlockGuard`; `cmd_mount.rs` `claim_devices` | flocks on one lock file and on each partition | acquire, upgrade, revert, release | all commands |
| VM images | `vm_image.rs`, `init-rootfs/main.go`, `freebsd-bootstrap/main.go` | files of the root file system, `rootfs.ver`, mtime files | check, build, refresh, uninstall | locks, VM |
| guest control socket | `vmproxy/src/main.rs` `CtrlSocketServer`, `common-utils/src/vmctrl.rs` | three channels, a subscription flag | accept, subscribe, quit, send report | mount session, `stop` |
| guest mount pipeline | `vmproxy/src/main.rs` `run`, `zfs.rs` | mounts, opened LUKS devices, imported pools, exports | decrypt, mount, export, unmount, report | control socket, pty |
| signal hub | `pubsub.rs` | subscribers | publish, subscribe, unsubscribe | mount session threads |
| API socket | `api.rs` | `RuntimeInfo` | serve | `stop`, `status`, later mounts |
| stop, unmount, status | `main.rs`, `cmd_mount.rs` | none | poll, unmount, quit, signal, kill | API socket, control socket, mount table |
| nested exports | `fsutil.rs` | the kernel's mount table | mount and unmount a tree of exports in parallel | mount session, `unmount` |
| rpcbind registration | `rpcbind/`, `cmd_mount.rs` | displaced services; the host's table | list, unregister, register, restore | other instances, the host's rpcbind |
| privileges | `privilege.rs` | real, effective and saved ids of the process | drop, elevate, guard, elevate on drop | threads of the mount session |
| disk listing | `diskutil/mod.rs`, `diskutil/linux.rs`, `devinfo.rs` | devices to inspect, a map of volumes | probe, attach to a microVM, decrypt, map volumes back to host identifiers | VM, `mount` (`claim_devices`) |
| log retention | `cmd_mount.rs` `cleanup_old_logs` | files in the log directory | create, keep the newest and the active | other instances |
| network helper | `vm_network/` | child process and its socket | start, terminate | mount session |
| settings, command line, host network queries | `settings.rs`, `cli.rs`, `netutil.rs` | none that outlives a call | parse, merge, print | - |

What is hard here: five threads of the host process, the guest's threads, other
instances and the user act at the same time; a failing call at any point must
release everything acquired so far, in an order that does not pull resources
from under a running VM; a process can be killed between any two steps and leave
locks, half-built images or a running VM; the guest powers itself off and must
have handed over its kernel log and its result before; several waits have no
time limit.

`PROJECT.json` lists every such hazard at its line with the properties that
cover it.

## 2. The modules

### CtrlSocket, GuestReport, CtrlSocketProofs

`CtrlSocket` is the guest's control socket with its accept thread (`accept`), one thread
per subscriber (`sub`) and vmproxy's main thread (`main`). `request` and `response` are
what each host connection sent and got; `backlog` and `conn` are the listening socket's
queue and the connection being served; `subscribed` is `events_subscribed`; `quit`,
`report`, `reportRx` and `doneTx` are the three channels: the report receiver and the
done sender sit in mutexes from which one thread takes them. The guard of the receiver's
mutex lives until its subscriber has written the report, so a second subscriber waits
for that (`TakeReceiver`). Each send, receive, socket read and write is one action,
because between any two of them another thread may run. A request that cannot be read, a
write that fails and a failing `accept()` are actions too.

`GuestReport` is the promise to the host: the guest powers off only after the
report was attempted if somebody subscribed, and it does power off after a Quit.
`CtrlSocket` implements it, with its liveness (`ImplementsGuestReport`).

### InstanceLocks, InstanceLocksProofs

`lock` and `dlock` are the flocks each process holds on the instance lock file
and on each device, `rootfs` is the state of the Linux image, `vm` the VM of each
process. Actions are the steps of the commands `mount`, `shell`, `apk`, `list`,
`image install` and `image uninstall` at which locks are taken, converted or
released: `Start` (LockFile::acquire_lock), `ClaimDevice` (one device at a time),
`InitNotNeeded` and `InitNeeded` (the check of the image under the shared lock and
the upgrade), `ModifyDone` and `ModifyFails` (the guard of the upgrade reverts; the
result of that flock is ignored at `utils.rs:612` and `:621`, so the lock may be lost),
`StartVm`, `VmExits`, `HostError` (the guard is dropped before the deferred
actions), `Exit`. `Kill` is SIGKILL at any point; a VM that was forked keeps the
inherited descriptors and so the locks. A killed host leaves an init-rootfs child
behind that goes on writing (`OrphanWrites`). A `rootfs` that is "ready" passes the
check, whether or not it is complete: a kill in the middle of a build or a removal
leaves it "partial" or "ready", and `ImageInit` has the detail. `RwCommands` are the
commands with `--rw-rootfs`: `shell` takes the exclusive lock for it, `mount` and `list`
stay with the shared one. `mount` with a key file also writes that file into the root
file system, under the shared lock (`vm.rs:342`); each process has a name of its own for
it, so it is not counted as a change of the image.

### ImageInit, ImageInitProofs

One image directory over time. `file` gives every part of the image a state (absent,
partial, good, and stale or unseen for an outdated vmproxy), `ver` and `mtimes` are the
version and time-stamp files. `init_rootfs` is split into one action per file-system
step, so that a failure or a kill (`Interrupted`, at most `MaxFaults`) can come between
any two of them. `DownloadEntrypointStatus`, `SetupVmSwallowed`, `BootstrapSwallowed`
and the failing script of `UpgradeBinaries` are errors that the code does not notice;
`unnoticed` remembers those that may have left an old, a partial or no vmproxy in a
FreeBSD image. A removal (`RemoveEntry`) takes one part after another in any order, so
that one that is interrupted may leave the version file and the parts that the check
looks at, with others absent. `Upgrade` (at most `MaxUpgrades`) installs a new
anylinuxfs with a newer vmproxy and possibly a new root-file-system version.

### Deferred, DeferredProofs

`Deferred` is the list of clean-up actions that `run_mount_child` and vmproxy's `run`
keep: `Add` puts an action at its end, `PopAction` takes one out (`call_now`, `remove`),
and Drop runs the last one first. `MountSession` and `GuestMount` use it.

### MountSession, MountSessionProofs

One `mount` on a Linux host. `pc` is the main thread of `run_mount_child`, `deferred`
its Deferred stack and `held` the resources that exist. Every call with a `?` may fail
(`Fail`), which ends the main line and unwinds `deferred` from its end; `start_gvproxy`
may fail after it has started the helper, which then has no clean-up. `ReadPtyFails` is
a read error of the console (bytes that are not UTF-8, a character split over two
reads): the reader ends ("cut") although the guest goes on. If the VM serves
nevertheless, the host waits for its end without sending Quit. `BindApi`, `ReadPty`,
`SubscribeToVmEvents` and `ForwardSignal` are the other threads. The VM is seen as the
host sees it: boot, up, serving, stopping, exited; `CtrlSocket` is the detail of how it
gets from serving to exited. `quit`, `sub` and `report` are the Quit request, this
host's subscription and the guest's report. `share` is the NFS mount in the host's mount
table and `seen` what the main line knows of it. Wait statuses and exit codes are
numbers, because `exit(256)` is `exit(0)`. A signal between the fork of the VM and the
start of the signal hub (`cmd_mount.rs:1503` to `:1548`) kills the host by default; that
window is left out (`TermSignal`). `MCMountSession` supplies the option sets.

### GuestMount, GuestMountProofs

vmproxy's `run` in a Linux guest and the host threads at the other end of the console,
which `MountSession` takes as one outcome. `gpc` is the position of `run`, `deferred`
its Deferred stack, `fs` the file system and `info` what the guest knows of it (label,
read-only, exports). The guest speaks by printing tags on `console`; `ReadLine` is one
line of `PtyReader`, which keeps what it gathered in `rd`, switches the user's console
(`log`), and passes prompt tags on in `prompts`; `ReadError` ends it at any line
(`cut`), with the console as it is. It then drops the pty before the sender of the
prompts, so that the host, whose `recv` fails and which asks for all passphrases that
are left, types them to nobody. `AwaitPrompt` and `AwaitPromptEnd` are the host's loop
over its passphrase callbacks, whose number (`Callbacks`) it computes without asking the
guest. `asked`, `typed` and `taken` count the prompts the user could see, the
passphrases typed and those read by the guest. A step with a `?` may fail; `Unwind`
drops the Deferred stack one action at a time, and the report waits for a subscriber or
a Quit, which is what `CtrlSocket` details. `SubscribeToVmEvents` is the thread that
`PtyReader` starts at the first tag. `KeepsReportPromise` maps `run` to `GuestReport`:
the guest is closing when nothing but the report is left to drop. A panic drops the
stack too but prints no exit code. `MCGuestMount` supplies fifteen requests.

### SubMounts, SubMountsProofs

The exports below a share, and two processes that meet only in `table`, the mount
table. `mtrie` is the trie of `mount_nfs_subdirs`, `mstate` what has become of each
mount; `utrie` and `ustate` are the same of the `unmount` command. Each mount and
umount begins and returns in separate steps, because rayon runs siblings in
parallel. A mount may fail, a file system may be in use (`MaxFaults`), the shell of an
umount may not start, which ends the command with an error (`ShellFails`), and others may
unmount parts of the share at any time. Paths are sequences of tokens, so that
`/mnt/foo-1` has `/mnt/foo` as a prefix of its bytes but not of its path;
`MCSubMounts` has such a neighbour. A node of a trie is known by its relative path:
paths are canonical (`Canonical`: no empty component, no slash at the end), so that a
path and its components determine each other, and one node is above another when its
path continues with a slash (`Under`). `ExportsAssumption` leaves out two kinds of
exports: those that do not lie below the share (`mount_nfs_subdirs` would give them all
the key of the trie's root; a ZFS dataset outside the path that a custom action exports
is one), and paths that are not canonical (an entry of `nfs_export_subdirs` written with
a doubled or a final slash). An umount takes the newest mount of a path out of the
table.

### Privileges

The credentials of the background process (`uid`, `gid`: real, effective and saved
ids), and the two threads that change them: the main line from
`drop_effective_privileges` to the deferred actions, and the subscriber with its
`EffectiveRootGuard`. Every `set*id` call is a step. `prev` is what a guard will set back,
and nothing once it was released; `overlapped` remembers whether a guard of the
subscriber was open at some time while the session ended. What the kernel allows is
external (`MaySetUid`).

### Rpcbind, Instances, InstancesProofs

`Rpcbind` is the host's rpcbind, a table of programs with their address and owner, and
the operations of `rpcbind/`. An address is the guest's ("vm") or another one: for NFS
the guest's is 0.0.0.0:2049, which is also that of a stock NFS server of the host, and
entries at the same address do not conflict. `Instances` has several runs of `mount`,
each reduced to its positions, on one host: the API sockets (`socks`), the log directory
(`logs`, each file with its modification time by `clock`), rpcbind's table (`rpc`), what
each run has listed (`saved`) and will restore (`deferred`), and the processes of each
run (`procs`) for a forced `stop`. List, unregister and register are separate steps;
sudo may be refused or not start at all; a restore that meets a conflict stops half-way.
A starting mount asks every socket (`Probe`) and removes those that did not answer in a
later step (`RemoveStale`); its own socket is bound, then listening, then given to the
invoker, which may fail (`BindApi`, `ListenApi`, `ApiFails`). `LateGuard` takes root
from a run before its clean-ups, as `Privileges` shows it can happen; `late` remembers
it. All runs are made with the same privileges on the same platform.

### DiskList

`list` on a Linux host, followed by `mount` of an identifier it has shown. `host` is
what the disks hold, `req` the command line. `ProcessDisk` is one turn of the loop
of `list_partitions`; `pv` and `qcow` gather what has to be attached to the microVM;
`Inspect` is the microVM: `Decrypt` pairs prompts, lines of standard input and
`cryptsetup` commands, `FromLsblk` (VolumeMap) walks lsblk's trees, whose disks are
tied to the host's by position only. `LvIdent`, `Unescape` and `Escape` work on
characters, because device-mapper doubles the dashes of names. `Mount` is
`claim_devices` and what the guest finds. dm-crypt, mdadm, LVM and lsblk are
external. Assumed: the mount is read-write, image names are resolved from
the directory of the image, and the user answers each prompt with the passphrase
of the partition it names. `MCDiskList` supplies the disks and the command lines.

Definitions keep the names of the functions they model; `PROJECT.json` maps each
to its lines. Operators introduced by a comment `Mutant:` are variants with a
deliberate mistake, used to see that a property can fail. `TypeOK` of a module says
what its variables hold; the proofs rest on it, and the runs leave it out in favour
of properties about behaviour.

## 3. What the runs check

| Run | Instance | What it shows |
|---|---|---|
| `ctrl_socket` | 3 clients; 24,600 states | the report is delivered or attempted before power-off whatever order Quit and subscriptions come in, a Quit without subscription is answered, Quit powers off, a failing `accept()` without a subscription powers off; `GuestReport` is implemented, so that `send_report` returns once somebody subscribed or sent Quit |
| `instance_locks` | 3 processes, 1 device, all commands but `list`; 2,706,798 states up to symmetry | one writer per device; a command that maintains the root file system is alone with it; the VM of a `mount` keeps the root file system that passed the check |
| `image_init` | both systems, 2 faults, 1 upgrade; 17,062 states | no half-built image passes the check, vmproxy is refreshed unless a script in the FreeBSD guest failed unnoticed, `rootfs.ver` is written only for a built image, the Linux image recovers from any two faults |
| `mount_session` | 2 option sets, 2 signals; 175,321 states | resources are released, none under a running VM; the VM is reaped; the report is saved; guest failures become exit codes unless the console breaks off before; an unmount, a signal or an error ends the session |
| `guest_mount` | 15 requests, 2 devices or datasets; 291,367 states | a disk is unmounted before the report goes out, on every path; the before_unmount hook finds the file system mounted; when the server is ready the host has read every tag; forced output is switched off again unless the reader ends before; prompt messages mean the same to host and guest, and no passphrase reaches the guest ahead of its prompt; `run` keeps `GuestReport`'s safety part; a waiting guest gets its passphrase unless the reader ends; the host learns how the mount went |
| `submounts` | 5 sets of exports and a neighbour, 2 faults; 54,093 states | no export is mounted over one that lies inside it; an `unmount` that began after the mounts, met nothing in use and returned no error, leaves nothing of the share; a neighbour's mount is never touched |
| `privileges` | both platforms, with and without sudo; 709 states | each phase has the ids it should have; Quit has root to connect and clean-ups run as root, unless a guard of the subscriber was open while the session ended |
| `instances` | 2 runs, 1 old log, 5 tables of the host, 1 forced stop; 5,638,102 states up to symmetry | rpcbind serves what it served before, also with an NFS server of the host at the guest's address, once all runs have ended whose lists were of the host's services; no run under sudo on Linux takes the other's services for the host's; no log of a running mount is cleaned up |
| `disk_list` | 2 disks, 2 partitions, 8 contents, RAID, 2 volume groups, 6 command lines; 110,724 states | every volume that can be seen is listed with the devices it lies on and can be mounted by that name; every passphrase opens the partition it was asked for |

Bounds. Three clients are a subscriber, a second subscriber that finds the report
receiver taken, and a Quit. Three processes are a holder of a shared lock, one that
upgrades and one that is killed; devices are independent of one another in the code, so
one is enough, and the proof covers any number; `list` is `mount` without a device where
locks are concerned, and the proof covers it too. Two faults let a fault hit the repair
of an earlier one. Two signals are one for each subscriber of the hub, or one for the
window between them and a second one. The two option sets are the plainest mount and the
one in which every optional clean-up is registered. Two encrypted devices tell one
passphrase for all from one each, and let one of two be missing from the environment;
the fifteen requests are one for each branch of the decryption, of the file-system kinds
and of the hooks. The sets of exports are none, one, a chain, siblings, and a gap in the
chain; a fault at a parent and one at a child is as bad as it gets. Two runs overlap at
every pair of positions, and the proofs cover any number; two logs are kept and there is
a third, so that the limit is met. Two disks and two partitions give every pair of kinds
for the order of devices, and arrays and groups that span disks.

`CHECK_DEADLOCK FALSE` is set wherever the system may stop (everywhere but in
`InstanceLocks` and `ImageInit`): a guest that has powered off and a command or a
session that has ended do nothing more, and a session that nobody unmounts waits
for ever.

Fairness. In `CtrlSocket` the threads of the guest run (weak fairness each);
clients need not connect, nor `accept()` fail. In `ImageInit` a command that was
started goes on and further commands are issued; faults are bounded. In
`MountSession` the host's threads, the guest and the foreground process run;
nobody has to unmount, to signal, to stop or to kill. Fairness of the guest
includes that its unmount loop, which retries for ever, ends. In `GuestMount`
the guest, `PtyReader` and the host's main thread run, `entrypoint.sh` starts the NFS
server, and a user who is asked answers; no read has to fail and nobody has to kill
the VM or to send Quit. `SubMounts`, `Privileges`, `Instances` and `DiskList` state no
fairness: only safety is checked there. No strong fairness is used. Two timing
assumptions are built in: the API listener thread has run by the time a VM has booted,
and a report the guest has already written is received within the three seconds the
host waits.

### Disagreements found

Each of these runs checks one statement and TLC finds it violated.

| Run | Statement | What the code does |
|---|---|---|
| `rootfs_lock_on_error` | nobody rebuilds the root file system of a running VM | on an error `guard`, declared after `deferred`, is dropped first and gives up the lock while the VM still runs |
| `stale_mount` | a session without an error leaves no NFS mount behind | a termination signal quits the VM without unmounting the share |
| `listed_volume` | any `lvm:` identifier that is shown can be mounted | LVM on an array of partitions of raw images is listed by image, and `mount` does not assemble the array |

Seen in the models and not made into runs of their own:

- a starting mount that asks the API socket of another one between its bind and its
  listen takes it for stale and removes it when it already serves: `status` and `stop` do
  not find that mount (`cmd_mount.rs:1250`, `Probe`, `RemoveStale`);
- `mount` and `list` with `--rw-rootfs` take the shared lock, unlike `shell`, so such a VM
  writes to the root file system beside others (`cmd_mount.rs:1324`;
  `RootfsWriteExclusion` keeps them from the maintaining commands only);
- a guard acquired by the subscriber after the drop, and released after `ElevateOnDrop`,
  leaves the clean-ups without root (`privilege.rs:112`; hence `overlapped` and `late`);
- a read error of the console ends `PtyReader` (`cmd_mount.rs:764`): a later exit-code
  tag is lost and the foreground returns 0, forced output stays on, and a ZFS prompt is
  not seen (`ReadPtyFails`, `ReadError`);
- `start_gvproxy` leaves the helper running when no address is left for it
  (`vm_network/mod.rs:129`, `StartNetHelper`);
- the script that refreshes a FreeBSD image does not report a failing copy, and the
  mtimes are recorded as current (`freebsd-bootstrap/main.go:555`, `UpgradeBinaries`);
- an interrupted removal may leave an image that passes the check without all of its
  files (`init-rootfs/main.go:436`, `vm_image.rs:709`, `RemoveEntry`);
- if `accept()` fails while a subscription is open, the guest waits for ever: the scope
  of the subscriber keeps the sender of Quit alive (hence the condition of
  `AcceptFailurePowersOff`);
- an HTTP error on the download of `entrypoint.sh` leaves an empty script and no
  error (`init-rootfs/main.go:385`, `DownloadEntrypointStatus`);
- a key file together with a passphrase variable makes vmproxy unwrap the stdin of a
  cryptsetup that inherited its own (`vmproxy/src/main.rs:764`, `Decrypt`);
- the child of `mount` exits with the raw wait status, and 256 becomes 0
  (`main.rs:68`, `VmExitCode`);
- encrypted partitions of images are decrypted neither by `list -d` nor by `mount`,
  which name the whole disk of the guest (`diskutil/mod.rs:1097`); two physical volumes
  in one image are attached twice, and their identifier cannot be claimed; volumes
  without a file-system UUID are taken for one (`diskutil/mod.rs:1284`). The
  properties of `DiskList` say where they exclude these;
- the FreeBSD image does not recover from a torn mtime file, and an interrupted
  reinstall goes unnoticed (`vm_image.rs:613`, `:412`); the status of `zpool export` is
  ignored and a busy unmount retried for ever (`vmproxy/src/main.rs:1017`, `:1027`); a
  silent client blocks the accept loop (`:350`).

## 4. What is proved

`CtrlSocketProofs`, for any set of clients: `TypeCorrect`, `ReportDelivered`
(`Spec => []ReportBeforePowerOff`), `QuitAnswered` and `ImplementsReportSafety`.
`ReportBeforePowerOff` alone is not inductive. `ReportInv` adds that a connection is
in one place only (`QueueInv`), so that an answer is never overwritten; that a
registered subscriber has set the flag before the next request is read
(`SubscriberInv`); that the report receiver is taken by at most one thread, which is
on its way to the write until the report was attempted (`ReceiverInv`); and that the
sender of "done" leaves its mutex only after an attempt or when nobody registered
(`DoneInv`). `QuitAnswered` needs besides that only a registered subscriber is ever
sent a report (`AttemptInv`). The refinement of `GuestReport`, its initial states and
its steps, needs `ClosingInv`: nothing is accepted after a Quit, and a thread has a
report to write only once the main thread has sent it. Assumption: `NoClient` is not
a client.

`InstanceLocksProofs`, for any sets of processes and devices: `LocksTypeCorrect`,
`DevicesExclusive`, `RootfsExclusive` (`RootfsWriteExclusion`) and `RootfsKept`
(`VmHasRootfs`), whoever may have a writable root file system. The inductive invariant
`LockInv` consists of the lock table's own exclusion, which a non-blocking flock
preserves; of `DeviceInv`, the locks a process holds by the time it has claimed its
devices; of `VmInv` and `RootfsInv`, the lock that goes with each position of a command;
and of the fact that what was checked under a shared lock stays true while the lock is
held.

`InstancesProofs`, for any set of runs and any services of the host:
`ServicesRecognised`, `ServicesRestored` and `RunningLogsKept`. `ServicesRecognised`
rests on `ServicesInv`: under sudo on Linux every entry that is not a service of the
host at the host's address belongs to the superuser, in rpcbind's table and in every
list ever made of it (`Recognisable`), and a run that displaced services had listed none
of the superuser's; and services are listed before they are displaced, once per run.
`ServicesRestored` (`HostServicesRestored`) rests on `RestoreInv`: as long as every run
that displaced services had listed the host's and none has lost root before its
clean-ups (`late`), rpcbind's table holds nothing but services of the host and entries
of guests that any later clean-up is allowed to remove; and it differs from the host's
only while some run has still to restore. `RestoredTable` is the heart of it: after one
restore, by whomever, the table is the host's again, because nothing is left that could
conflict. `RunningLogsKept` (`LogKept`) holds if there are at most `LOG_RETENTION_COUNT`
runs: the logs of these runs are newer than all older ones (`LogInv`), so what is newer
than one of them is too little to push it out (`RecentLogsKept`), even if nobody knows
that its run is active. Assumptions: there are finitely many old logs, and none has the
name of a run's. The host's services may be at any address, the guest's included.

`ImageInitProofs`, for any number of faults and upgrades: `ImageTypeCorrect`,
`HalfBuiltRebuilt` (`NoHalfBuiltRootfs`), `VmproxyUpToDate` (`VmproxyRefreshed`) and the
action property `VersionWrittenLast` (`RecordedWhenBuilt`). The invariant `ImageInv`
says what is in place at each step of `init_rootfs` and what a version file of the
current version therefore stands for; for a FreeBSD image, what the recorded mtimes
stand for unless a script has failed `unnoticed`.

`DeferredProofs` has the lemmas both users of `Deferred` need. If actions are added
in the order of some rank, the list stays `Ordered`: adding an action of the highest
rank, taking one out anywhere and dropping the last one keep it so (`AddOrdered`,
`PopOrdered`, `DropOrdered`), and the action that Drop runs is the one of the highest
rank. So a list is known from the set of its actions, and the invariants below are
about that set.

`MountSessionProofs`, for every set of options and any number of signals:
`VmAlwaysReaped`, `VmKeepsResources`, `AllResourcesReleased`, `ReportAlwaysSaved`,
`GuestFailureReachesForeground` and `SessionTypeCorrect`. None of the properties is
inductive. `SessionInv` adds: the Deferred list is ordered by the line of
`run_mount_child` that registers each action; which actions are registered at each
position, and that the code has taken out those it removes (`MainInv`); a resource
exists only with the action that releases it, or where the code has none yet (`HeldInv`,
`DirInv`; a helper that `start_gvproxy` gave up is such a case); a VM runs only while
the wait for it is registered, and so are the actions of lower rank that release what it
needs (`VmInv`); how far a report and the exit-code tag have got, as long as no read
error has cut the reader off (`ReportInv`, `TagInv`). An action of lower rank runs
later, so nothing is released before the VM was reaped.

`GuestMountProofs`, for any number of devices and every request:
`DiskUnmountedBeforeReport`, `HookAlwaysFindsMount`, `HostAlwaysKnowsShare`,
`ForcedOutputAlwaysEnds`, `GuestKeepsReportPromise`, `PromptsStayInStep`,
`PassphraseMeetsPrompt` and `GuestTypeCorrect`. The first two are again about the
Deferred list (`StackInv`, `FsInv`): report below unmount below before_unmount. The other
two are about the lines that are printed and not yet read. What the guest knows of the
share has been read or is still on its way (`InfoInv`); no line about it comes after
`READY` (`ReadyLast`), so that whoever has read `READY` has read them all (`ReadyInv`);
every line that switches the output on is followed by one that switches it off, before
`READY` (`ReadyQuiet`) and at the end, except while a hook or the mount itself runs, and
then the guest's position or its Deferred list says who will print it (`LogInv`). All of
this is said as long as the reader was not ended by an error (`cut`).
`LinePrinted` and `LineRead` are what printing and reading one line do to these.

`GuestKeepsReportPromise` (`KeepsReportPromise`) is the refinement of `GuestReport`, its
initial states and its steps, by `run` and its Deferred stack: `CtrlSocketProofs` shows
that the threads behind `send_report` keep the promise once the main thread is closing,
this theorem that every path through `run`, its errors and panics included, gets there
and does not return before. It needs `ReportInv`: `run` has a result from its return on,
and not before; the report is on the stack or was handed over; it was handed over to
nobody only after a Quit. With the order of the stack, the report is alone when it is
dropped (`ReportDropsLast`).

The prompts are counted on both sides and agree only through what is under way.
`PromptInv` says that the messages in the channel lead from the prompts the host has
dealt with to those `PtyReader` has read, and the lines on the console from there to
those the guest has started and ended; a `Path` is such a sequence, with the number of
finished prompts and whether one is open after each element. The guest has read a
passphrase for each prompt it finished, as long as `run` has not returned; the end of a
prompt that fails is printed by the Deferred stack (`Open`). `PathAppend` and `PathTail`
are what printing and reading do to a path, `RunKeepsPrompts`, `ReaderKeepsPrompts` and
`HostKeepsPrompts` the steps of the three parties. `PromptsStayInStep` then reads the
first element of a path off its start, and `PassphraseMeetsPrompt` compares its ends,
because a path never goes back. After a read error the messages in the channel are a path
still, and what the host types from then on reaches no guest.

`SubMountsProofs`, for any base and share, any sets of exports and of foreign mounts and
any number of faults: `NoExportHidden` (`NoHiddenMount`), `UnmountLeavesNothing`
(`UnmountComplete`), `UnmountKeepsNeighbours` (`NeighboursKept`) and
`SubMountsTypeCorrect`. Lemmas about paths come first: `Under`
token by token, its transitivity, and that relative paths lie as the paths themselves
do (`UnderConcat`, `StripBase`). `SubMountsInv` says that what is mounted in the share's
tree is the share or an export that was mounted, once (`OursInv`); that exports are
visited after those around them are mounted (`VisitInv`), so that a new mount cannot be
above an older one; that mount points are visited after those below them (`LeaveInv`);
and that whatever of the share is still mounted is in the command's trie and has not
been visited (`SweepInv`). The last needs the others where the kernel refuses an umount:
the mount below that it refuses for would be in the trie, visited and therefore gone.
`UnmountKeepsNeighbours` rests on `StepKeepsOthers`: a step takes out of the table only a
mount point of the share's tree, because every umount, the command's and anybody else's
of the share, is of such a path.

Assumptions on constants are those the modules state (`ASSUME`); `RunningLogsKept` states
its bound on the runs as a hypothesis.

Only model-checked:

- the liveness properties and the liveness of `GuestReport`: fairness is out of the
  prover's reach;
- `DiskList`, whose walk of lsblk's trees is a RECURSIVE operator;
- `Privileges`, whose constants have no more values than the run covers: there TLC's
  search is exhaustive.

## 5. Not modelled

- The content of images, the libkrun configuration, the RPC, NFS and HTTP
  protocols: their outcome is a nondeterministic success or failure.
- Settings and command line: deserialisation and merging of static configuration.
- Host network queries, the choice of a network, mDNS: pure functions of the
  host's answer, or best effort.
- IPC framing: blocking reads and writes of one length-prefixed frame.
- On macOS: `diskutil` plists, DiskArbitration, and the proxies of vmnet.
- Packaging, the kernel builder, the end-to-end tests.
- In the guest: the set-up of the network, the assembly of RAID and LVM volumes
  inside `GuestMount` (one step that may fail; `DiskList` says which volumes appear),
  and the FreeBSD variants of vmproxy's steps.

## 6. Plan

1. Done: `CtrlSocket`, `InstanceLocks`, `ImageInit`, `MountSession`, `GuestMount`,
   `SubMounts`, `Privileges`, `Rpcbind` and `Instances`, `DiskList`.
2. Done: proofs of every safety property of `CtrlSocket`, `InstanceLocks`, `ImageInit`,
   `MountSession`, `GuestMount`, `SubMounts` and `Instances`, and the safety part of the
   refinements of `GuestReport` by `CtrlSocket` and by `GuestMount`.
3. A composition of `GuestMount` with `CtrlSocket`. They are tied by `GuestReport`, which
   both implement; one specification of both would replace the abstract report and Quit
   of the one by the threads of the other.
4. `PubSub` with several subscribers and publishers; the macOS variants.
