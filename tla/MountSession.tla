---------------------------- MODULE MountSession ----------------------------
(***************************************************************************)
(* One `anylinuxfs mount` on a Linux host, from the moment the background  *)
(* child starts its network helper until that child has exited.            *)
(*                                                                         *)
(*   host     the main thread of run_mount_child: it acquires resources,   *)
(*            registers their clean-up on the Deferred stack, forks the    *)
(*            VM, waits for NFS, mounts the share, detaches, waits for the *)
(*            unmount, tells the guest to quit, reaps the VM and unwinds;  *)
(*   threads  the API listener, PtyReader, the event subscriber and the    *)
(*            signal thread of StdinForwarder;                             *)
(*   VM       the forked libkrun process with vmproxy in it, as far as the *)
(*            host can tell its states apart (CtrlSocket is its detail);   *)
(*   others   the foreground parent reading the comm pipe, the user who    *)
(*            unmounts, `anylinuxfs stop`, and termination signals.        *)
(*                                                                         *)
(* Every fallible call of the host (a `?` in the code) may fail.  An error *)
(* ends the main line and drops the Deferred stack, newest action first.   *)
(***************************************************************************)
EXTENDS Integers, Sequences, FiniteSets, Deferred

CONSTANTS
    Options,     \* the sets of mount options considered, see OptionNames
    MaxSignals   \* bound on the number of termination signals

OptionNames == {"auto_dir",   \* no custom mount point: the directory is created
                "key_file",   \* --key-file
                "rpcbind",    \* a host rpcbind whose services are displaced
                "session"}    \* setsid succeeded, so the child can detach

ASSUME OptionsAssumption == Options \subseteq SUBSET OptionNames
ASSUME MaxSignalsAssumption == MaxSignals \in Nat

VARIABLES
    pc,        \* where the host's main thread is
    deferred,  \* the Deferred stack; the last element was added last
    held,      \* host resources that exist and somebody has to remove
    errAt,     \* the pc at which the main line failed, "none" if it did not
    code,      \* exit code of the host process
    opts,      \* the options of this mount
    api,       \* the API listener thread
    reader,    \* what PtyReader has sent on nfs_ready_tx
    nfs,       \* the host's nfs_status
    vm,        \* the VM process
    raw,       \* its wait status, as waitpid(2) reports it
    printed,   \* the guest has printed its READY line
    tag,       \* the guest has printed an exit-code tag
    quit,      \* the Quit request: not sent, received or lost
    sub,       \* the event subscription of this host
    report,    \* the guest's final report
    share,     \* the NFS mount on the host
    seen,      \* mount_point_opt of the main thread
    hub,       \* the current subscriber of the signal hub
    fwdq,      \* a signal is in StdinForwarder's channel
    sesq,      \* a signal is in EventSession's channel
    sent,      \* number of signals sent so far
    ctrlc,     \* ^C has been written to the VM's console
    comm,      \* the first command written to the comm pipe
    fg         \* exit code of the foreground process, -1 while it waits

hostVars  == <<pc, deferred, held, errAt, code, nfs, seen>>
guestVars == <<vm, raw, printed, tag>>
sigVars   == <<hub, fwdq, sesq, sent>>
vars == <<hostVars, guestVars, sigVars, opts, api, reader, quit, sub, report,
          share, ctrlc, comm, fg>>

Points == {"net", "sock", "check", "key", "fork", "publish", "dns", "api",
           "rpcbind", "reader", "fwd", "nfs", "unsub", "sub", "mount",
           "wait_mount", "detach", "wait_unmount", "quit", "notready",
           "wait_vm", "unwind", "done"}
Resources == {"helper", "vfkit", "vsock", "key", "api", "rpc", "dir"}
Actions   == {"vfkit", "helper", "vsock", "key", "vm_wait", "api", "rpc",
              "report", "stop_fwd", "quit", "dir"}
VmStates  == {"off", "boot", "up", "serving", "stopping", "exited", "reaped"}
Running   == {"boot", "up", "serving", "stopping"}

\* Wait statuses: normal exit, exit(1), killed by signal 9.
RawStatuses == {0, 256, 9}

Init ==
    /\ pc = "net" /\ deferred = << >> /\ held = {} /\ errAt = "none"
    /\ code = 0 /\ nfs = "none" /\ seen = FALSE
    /\ opts \in Options
    /\ api = "off" /\ reader = "off"
    /\ vm = "off" /\ raw = 0 /\ printed = FALSE /\ tag = FALSE
    /\ quit = "none" /\ sub = "none" /\ report = "none"
    /\ share = FALSE
    /\ hub = "none" /\ fwdq = FALSE /\ sesq = FALSE /\ sent = 0
    /\ ctrlc = FALSE /\ comm = "none" /\ fg = -1

-----------------------------------------------------------------------------
(* Exit statuses and errors                                                *)

\* The status an exit(n) leaves for the parent: only the low byte survives.
ProcessExit(n) == n % 256

\* to_exit_code: WEXITSTATUS of a normal exit, else 128 + the signal.
ToExitCode(status) ==
    IF status % 128 = 0 THEN (status \div 256) % 256 ELSE (status % 128) + 128

\* The main line goes on at p.
Goto(p) == pc' = p /\ UNCHANGED <<errAt, code, nfs, seen>>

\* A `?` returns: run() exits with 1 for an error that is no StatusError.
Fail ==
    /\ errAt' = pc /\ pc' = "unwind" /\ code' = 1
    /\ UNCHANGED <<deferred, nfs, seen>>

\* What the host thread leaves to everybody else.
HostOnly == UNCHANGED <<guestVars, sigVars, opts, api, reader, quit, sub,
                        report, share, ctrlc, comm, fg>>

-----------------------------------------------------------------------------
(* The host: resources before the fork                                     *)

\* start_gvproxy: spawns the helper, then looks for a loopback address; that
\* there is none is an error that leaves the helper behind.
StartNetHelper ==
    /\ pc = "net"
    /\ \/ /\ held' = held \cup {"helper"}
          /\ Goto("sock")
          /\ UNCHANGED deferred
       \/ Fail /\ held' \in {held, held \cup {"helper"}}
    /\ HostOnly

\* wait_for_file on the helper's socket: on a timeout the helper, dead or
\* alive, is left behind because no clean-up is registered yet.
WaitForHelperSocket ==
    /\ pc = "sock"
    /\ \/ /\ held' = held \cup {"vfkit"}
          /\ deferred' = Add(deferred, "vfkit")
          /\ Goto("check")
       \/ /\ Fail
          /\ held' \in {held, held \ {"helper"}}
    /\ HostOnly

\* try_wait on the helper; then its termination and the vsock clean-up are
\* registered.
CheckHelper ==
    /\ pc = "check"
    /\ \/ /\ deferred' = Add(Add(deferred, "helper"), "vsock")
          /\ Goto("key")
          /\ UNCHANGED held
       \/ Fail /\ held' = held \ {"helper"}
    /\ HostOnly

\* prepare_key_file_for_vm: the copy exists before its removal is registered.
PrepareKeyFile ==
    /\ pc = "key"
    /\ \/ /\ "key_file" \notin opts
          /\ Goto("fork")
          /\ UNCHANGED <<deferred, held>>
       \/ /\ "key_file" \in opts
          /\ held' = held \cup {"key"}
          /\ deferred' = Add(deferred, "key")
          /\ Goto("fork")
       \/ /\ "key_file" \in opts
          /\ Fail
          /\ held' \in {held, held \cup {"key"}}
    /\ HostOnly

\* Mutants: the wait for the VM is not registered; it is registered first.
ForkVm_NoWait ==
    /\ pc = "fork"
    /\ \/ vm' = "boot" /\ held' = held \cup {"vsock"} /\ Goto("publish")
          /\ UNCHANGED deferred
       \/ Fail /\ UNCHANGED <<vm, held>>
    /\ UNCHANGED <<raw, printed, tag, sigVars, opts, api, reader, quit, sub,
                   report, share, ctrlc, comm, fg>>
ForkVm_WaitFirst ==
    /\ pc = "fork"
    /\ \/ vm' = "boot" /\ held' = held \cup {"vsock"} /\ Goto("publish")
          /\ deferred' = <<"vm_wait">> \o deferred
       \/ Fail /\ UNCHANGED <<vm, held>>
    /\ UNCHANGED <<raw, printed, tag, sigVars, opts, api, reader, quit, sub,
                   report, share, ctrlc, comm, fg>>

\* fork_with_pty_output; in the parent, waiting for the VM is registered.
\* libkrun creates the vsock socket.
ForkVm ==
    /\ pc = "fork"
    /\ \/ /\ vm' = "boot"
          /\ held' = held \cup {"vsock"}
          /\ deferred' = Add(deferred, "vm_wait")
          /\ Goto("publish")
       \/ Fail /\ UNCHANGED <<vm, held>>
    /\ UNCHANGED <<raw, printed, tag, sigVars, opts, api, reader, quit, sub,
                   report, share, ctrlc, comm, fg>>

-----------------------------------------------------------------------------
(* The host: services after the fork                                       *)

\* start_signal_publisher, then drop_effective_privileges, the host name and
\* the mDNS record: calls that only may fail.
SetupHost ==
    /\ \/ pc = "publish" /\ (Goto("dns") \/ Fail)
       \/ pc = "dns" /\ (Goto("api") \/ Fail)
    /\ UNCHANGED <<deferred, held>>
    /\ HostOnly

\* serve_info starts the listener thread; removing its socket is registered.
ServeApi ==
    /\ pc = "api"
    /\ api' = "starting"
    /\ deferred' = Add(deferred, "api")
    /\ Goto("rpcbind")
    /\ UNCHANGED <<held, guestVars, sigVars, opts, reader, quit, sub, report,
                   share, ctrlc, comm, fg>>

\* Mutant: the restore action is registered after the services are displaced.
SetupRpcbind_RegisterLate ==
    /\ pc = "rpcbind"
    /\ held' = IF "rpcbind" \in opts THEN held \cup {"rpc"} ELSE held
    /\ \/ /\ Goto("reader")
          /\ deferred' = IF "rpcbind" \in opts THEN Add(deferred, "rpc")
                                               ELSE deferred
       \/ Fail
    /\ HostOnly

\* elevate_effective_privileges, services::list, setup_rpcbind_services: the
\* restore action is registered before the system services are displaced.
SetupRpcbind ==
    /\ pc = "rpcbind"
    /\ \/ /\ "rpcbind" \notin opts
          /\ (Goto("reader") /\ UNCHANGED deferred) \/ Fail
          /\ UNCHANGED held
       \/ /\ "rpcbind" \in opts
          /\ deferred' = Add(deferred, "rpc")
          /\ held' = held \cup {"rpc"}
          /\ \/ Goto("reader")
             \/ /\ errAt' = pc /\ pc' = "unwind" /\ code' = 1
                /\ UNCHANGED <<nfs, seen>>
       \/ "rpcbind" \in opts /\ Fail /\ UNCHANGED held
    /\ HostOnly

\* The report action is registered and PtyReader is spawned.
SpawnPtyReader ==
    /\ pc = "reader"
    /\ reader' = "reading"
    /\ deferred' = Add(deferred, "report")
    /\ Goto("fwd")
    /\ UNCHANGED <<held, guestVars, sigVars, opts, api, quit, sub, report,
                   share, ctrlc, comm, fg>>

\* signal_hub.subscribe and StdinForwarder::new; an error drops the
\* subscription again.
StartForwarder ==
    /\ pc = "fwd"
    /\ \/ /\ hub' = "fwd"
          /\ deferred' = Add(deferred, "stop_fwd")
          /\ Goto("nfs")
       \/ Fail /\ UNCHANGED hub
    /\ UNCHANGED <<held, guestVars, fwdq, sesq, sent, opts, api, reader, quit,
                   sub, report, share, ctrlc, comm, fg>>

\* Mutant: no quit action is registered.
WaitForNfsServer_NoQuit ==
    /\ pc = "nfs"
    /\ api # "starting"
    /\ \/ reader = "ready" /\ nfs' = "ready" /\ pc' = "unsub"
       \/ reader \in {"ready", "failed", "cut"} /\ nfs' = "failed" /\ pc' = "notready"
    /\ UNCHANGED <<deferred, held, errAt, code, seen>>
    /\ HostOnly

\* wait_for_nfs_server: blocks until PtyReader has sent.  A READY guest whose
\* name or port cannot be reached counts as failed.  By the time a VM has
\* booted, the listener thread has run.  From a ready server on, the quit
\* action is registered.
WaitForNfsServer ==
    /\ pc = "nfs"
    /\ api # "starting"
    /\ \/ /\ reader = "ready"
          /\ nfs' = "ready"
          /\ deferred' = Add(deferred, "quit")
          /\ pc' = "unsub"
       \/ /\ reader \in {"ready", "failed", "cut"}
          /\ nfs' = "failed"
          /\ pc' = "notready"
          /\ UNCHANGED deferred
    /\ UNCHANGED <<held, errAt, code, seen>>
    /\ HostOnly

-----------------------------------------------------------------------------
(* The host: NFS is ready                                                  *)

\* signal_hub.unsubscribe of the forwarder, then, as a second step, the
\* subscription of EventSession.
SwitchSubscriber ==
    /\ \/ /\ pc = "unsub"
          /\ hub' = "none"
          /\ Goto("sub")
       \/ /\ pc = "sub"
          /\ hub' = "session"
          /\ Goto("mount")
    /\ UNCHANGED <<deferred, held, guestVars, fwdq, sesq, sent, opts, api,
                   reader, quit, sub, report, share, ctrlc, comm, fg>>

\* NfsShareSetup::mount: creates the default mount point and runs mount(8),
\* which is synchronous.  A failure is logged, anything that landed is
\* unmounted by force, and the main line goes on without a mount point: the
\* forwarder is stopped.
RequestMount ==
    /\ pc = "mount"
    /\ \/ /\ vm \in {"serving", "stopping"}
          /\ share' = TRUE
          /\ held' = IF "auto_dir" \in opts THEN held \cup {"dir"} ELSE held
          /\ Goto("wait_mount")
          /\ UNCHANGED deferred
       \/ /\ share' = FALSE
          /\ held' \in IF "auto_dir" \in opts
                       THEN {held, held \cup {"dir"}} ELSE {held}
          /\ deferred' = PopAction(deferred, "stop_fwd")
          /\ Goto("detach")
    /\ UNCHANGED <<guestVars, sigVars, opts, api, reader, quit, sub, report,
                   ctrlc, comm, fg>>

\* EventSession::wait_for_mount: a signal wins over a mount that is there; a
\* mount that is not there runs into the deadline.  Then the forwarder is
\* stopped and the removal of a created mount point is registered.
WaitForMount ==
    /\ pc = "wait_mount"
    /\ LET d == PopAction(deferred, "stop_fwd") IN
       \/ /\ ~sesq /\ share
          /\ seen' = TRUE
          /\ deferred' = IF "auto_dir" \in opts THEN Add(d, "dir") ELSE d
          /\ UNCHANGED sesq
       \/ /\ sesq \/ ~share
          /\ sesq' = FALSE
          /\ seen' = FALSE
          /\ deferred' = d
    /\ pc' = "detach"
    /\ UNCHANGED <<held, errAt, code, nfs, guestVars, hub, fwdq, sent, opts,
                   api, reader, quit, sub, report, share, ctrlc, comm, fg>>

\* drop_privileges and the command to the foreground process.
Detach ==
    /\ pc = "detach"
    /\ \/ /\ comm' = IF "session" \in opts THEN "detach" ELSE "join"
          /\ Goto("wait_unmount")
          /\ UNCHANGED deferred
       \/ Fail /\ UNCHANGED comm
    /\ UNCHANGED <<held, guestVars, sigVars, opts, api, reader, quit, sub,
                   report, share, ctrlc, fg>>

\* EventSession::wait_for_unmount, skipped without a mount point.
WaitForUnmount ==
    /\ pc = "wait_unmount"
    /\ seen => sesq \/ ~share
    /\ sesq' = FALSE
    /\ Goto("quit")
    /\ UNCHANGED <<deferred, held, guestVars, hub, fwdq, sent, opts, api,
                   reader, quit, sub, report, share, ctrlc, comm, fg>>

\* What send_quit_cmd may do to a guest with a control socket: the request
\* arrives, whether or not the answer does, or the connection fails.
QuitArrives == vm \in {"up", "serving", "stopping"} /\ quit' = "received"
QuitLost    == quit' = IF quit = "received" THEN quit ELSE "lost"

\* Mutant: the quit action is removed, and nothing is sent.
SendQuitCmd_OnlyRemoves ==
    /\ pc = "quit"
    /\ deferred' = PopAction(deferred, "quit")
    /\ Goto("wait_vm")
    /\ UNCHANGED <<held, guestVars, sigVars, opts, api, reader, quit, sub,
                   report, share, ctrlc, comm, fg>>

\* The quit action is removed and the Quit request sent; only an answered
\* request is a success.
SendQuitCmd ==
    /\ pc = "quit"
    /\ \/ /\ QuitArrives
          /\ deferred' = PopAction(deferred, "quit")
          /\ Goto("wait_vm")
       \/ /\ QuitArrives \/ QuitLost
          /\ deferred' = PopAction(deferred, "quit")
          /\ errAt' = pc /\ pc' = "unwind" /\ code' = 1
          /\ UNCHANGED <<nfs, seen>>
    /\ UNCHANGED <<held, guestVars, sigVars, opts, api, reader, sub, report,
                   share, ctrlc, comm, fg>>

\* NFS not ready: drop privileges and let the foreground process join.
JoinForeground ==
    /\ pc = "notready"
    /\ \/ comm' = "join" /\ Goto("wait_vm") /\ UNCHANGED deferred
       \/ Fail /\ UNCHANGED comm
    /\ UNCHANGED <<held, guestVars, sigVars, opts, api, reader, quit, sub,
                   report, share, ctrlc, fg>>

-----------------------------------------------------------------------------
(* The host: the end                                                       *)

\* Mutant: the exit-code tag is ignored.
VmExitCode_NoTag == IF raw = 0 THEN 0 ELSE ProcessExit(raw)

\* The exit code of the main line: the guest's exit-code tag if PtyReader saw
\* it before the end of output and the VM itself exited with 0, else the wait
\* status, handed to exit() as it is.
VmExitCode ==
    IF raw = 0 THEN IF reader = "failed" /\ tag THEN 1 ELSE 0
               ELSE ProcessExit(raw)

\* Mutant: the main line leaves the waiting to the deferred action.
WaitForVm_Deferred ==
    /\ pc = "wait_vm"
    /\ pc' = "unwind"
    /\ code' = VmExitCode
    /\ UNCHANGED <<deferred, held, errAt, nfs, seen>>
    /\ HostOnly

\* vm_wait is removed and the VM reaped by the main line.
WaitForVm ==
    /\ pc = "wait_vm"
    /\ vm = "exited"
    /\ vm' = "reaped"
    /\ deferred' = PopAction(deferred, "vm_wait")
    /\ code' = VmExitCode
    /\ pc' = "unwind"
    /\ UNCHANGED <<held, errAt, nfs, seen, raw, printed, tag, sigVars, opts,
                   api, reader, quit, sub, report, share, ctrlc, comm, fg>>

\* Drop of Deferred, newest first: the actions that remove a resource.
UnwindResource ==
    /\ pc = "unwind" /\ deferred # << >>
    /\ Last(deferred) \in Resources
    /\ held' = IF Last(deferred) = "dir" /\ share THEN held ELSE held \ {Last(deferred)}
    /\ deferred' = Front(deferred)
    /\ UNCHANGED <<pc, errAt, code, nfs, seen>>
    /\ HostOnly

\* ... wait_for_vm_status, which blocks until the VM exits.
UnwindVmWait ==
    /\ pc = "unwind" /\ deferred # << >>
    /\ Last(deferred) = "vm_wait"
    /\ vm = "exited"
    /\ vm' = "reaped"
    /\ deferred' = Front(deferred)
    /\ UNCHANGED <<pc, held, errAt, code, nfs, seen, raw, printed, tag,
                   sigVars, opts, api, reader, quit, sub, report, share,
                   ctrlc, comm, fg>>

\* ... recv_timeout(3 s) on the report channel: a report that has reached
\* this host is received; otherwise the time runs out.
UnwindReport ==
    /\ pc = "unwind" /\ deferred # << >>
    /\ Last(deferred) = "report"
    /\ report' = IF report = "sent" THEN "saved" ELSE "missed"
    /\ deferred' = Front(deferred)
    /\ UNCHANGED <<pc, held, errAt, code, nfs, seen, guestVars, sigVars, opts,
                   api, reader, quit, sub, share, ctrlc, comm, fg>>

\* ... send_quit_cmd with its result ignored, and stopping the forwarder.
UnwindQuit ==
    /\ pc = "unwind" /\ deferred # << >>
    /\ \/ Last(deferred) = "quit" /\ (QuitArrives \/ QuitLost)
       \/ Last(deferred) = "stop_fwd" /\ UNCHANGED quit
    /\ deferred' = Front(deferred)
    /\ UNCHANGED <<pc, held, errAt, code, nfs, seen, guestVars, sigVars, opts,
                   api, reader, sub, report, share, ctrlc, comm, fg>>

\* run_mount: after an error the child asks to be joined, then it exits.
Exit ==
    /\ pc = "unwind" /\ deferred = << >>
    /\ pc' = "done"
    /\ comm' = IF comm = "none" THEN "join" ELSE comm
    /\ UNCHANGED <<deferred, held, errAt, code, nfs, seen, guestVars, sigVars,
                   opts, api, reader, quit, sub, report, share, ctrlc, fg>>

Main ==
    \/ StartNetHelper \/ WaitForHelperSocket \/ CheckHelper \/ PrepareKeyFile
    \/ ForkVm \/ SetupHost \/ ServeApi \/ SetupRpcbind \/ SpawnPtyReader
    \/ StartForwarder \/ WaitForNfsServer \/ SwitchSubscriber \/ RequestMount
    \/ WaitForMount \/ Detach \/ WaitForUnmount \/ SendQuitCmd
    \/ JoinForeground \/ WaitForVm \/ UnwindResource \/ UnwindVmWait
    \/ UnwindReport \/ UnwindQuit \/ Exit

-----------------------------------------------------------------------------
(* The other threads of the host process                                   *)

\* UnixHandler::serve binds the API socket, or its thread ends with an error.
BindApi ==
    /\ api = "starting" /\ pc # "done"
    /\ \/ api' = "bound" /\ held' = held \cup {"api"}
       \/ api' = "failed" /\ UNCHANGED held
    /\ UNCHANGED <<pc, deferred, errAt, code, nfs, seen, guestVars, sigVars,
                   opts, reader, quit, sub, report, share, ctrlc, comm, fg>>

\* PtyReader: the READY line, or the end of output without one.
ReadPty ==
    /\ reader = "reading" /\ pc # "done"
    /\ \/ printed /\ reader' = "ready"
       \/ ~printed /\ vm \in {"exited", "reaped"} /\ reader' = "failed"
    /\ UNCHANGED <<hostVars, guestVars, sigVars, opts, api, quit, sub, report,
                   share, ctrlc, comm, fg>>

\* PtyReader: read_line returns an error, as for output that is not UTF-8.
\* The reader ends as if the guest had failed; an exit-code tag it has not
\* read by then is lost, and without the ready tag nobody subscribes.
ReadPtyFails ==
    /\ reader = "reading" /\ pc # "done"
    /\ reader' \in IF tag THEN {"cut", "failed"} ELSE {"cut"}
    /\ sub' = IF sub = "none" /\ vm = "boot" THEN "failed" ELSE sub
    /\ UNCHANGED <<hostVars, guestVars, sigVars, opts, api, quit, report, share,
                   ctrlc, comm, fg>>

\* subscribe_to_vm_events, once PtyReader has read the vmproxy-ready tag: the
\* guest accepts the subscription, unless a Quit has ended its accept loop, or
\* connecting or writing fails.
SubscribeToVmEvents ==
    /\ reader # "off" /\ sub = "none" /\ pc # "done"
    /\ \/ /\ vm \in {"up", "serving", "stopping"}
          /\ sub' \in {"failed"} \cup IF quit = "received" THEN {} ELSE {"open"}
       \/ vm \in {"exited", "reaped"} /\ sub' = "failed"
    /\ UNCHANGED <<hostVars, guestVars, sigVars, opts, api, reader, quit,
                   report, share, ctrlc, comm, fg>>

\* StdinForwarder's signal thread: the first signal becomes ^C on the VM's
\* console, then the thread ends and its subscription is dropped.
ForwardSignal ==
    /\ fwdq /\ ~ctrlc /\ pc # "done"
    /\ fwdq' = FALSE
    /\ ctrlc' = TRUE
    /\ hub' = IF hub = "fwd" THEN "none" ELSE hub
    /\ UNCHANGED <<hostVars, guestVars, sesq, sent, opts, api, reader, quit,
                   sub, report, share, comm, fg>>

-----------------------------------------------------------------------------
(* The VM process: setup_vm and start_vmproxy in the forked child, then     *)
(* vmproxy's run() as the host sees it.                                     *)

\* An error of setup_vm or start_vmproxy ends the child with exit code 1.
VmStartFails ==
    /\ vm = "boot"
    /\ vm' = "exited" /\ raw' = 256
    /\ UNCHANGED <<printed, tag>>

\* vmproxy listens on its control socket and prints the ready tag.
VmproxyReady ==
    /\ vm = "boot" /\ vm' = "up"
    /\ UNCHANGED <<raw, printed, tag>>

\* Decryption, mounting or exporting fails: run() returns an error and an
\* exit-code tag is printed; without one, entrypoint.sh cannot be started.
GuestFails ==
    /\ vm = "up" /\ vm' = "stopping"
    /\ tag' \in BOOLEAN
    /\ UNCHANGED <<raw, printed>>

\* The NFS server is up.
NfsReady ==
    /\ vm = "up" /\ vm' = "serving"
    /\ printed' = TRUE
    /\ UNCHANGED <<raw, tag>>

\* wait_for_quit_cmd returns.
GuestQuits ==
    /\ vm = "serving" /\ quit = "received"
    /\ vm' = "stopping"
    /\ UNCHANGED <<raw, printed, tag>>

\* The deferred actions of run() end with send_report, which waits for a
\* subscriber or a Quit; then the guest powers off.
PowerOff ==
    /\ vm = "stopping"
    /\ sub = "open" \/ quit = "received"
    /\ vm' = "exited" /\ raw' = 0
    /\ UNCHANGED <<printed, tag>>

\* ^C on the console interrupts vmproxy; it need not.  A reader that was cut
\* short has closed the console.
Interrupted ==
    /\ vm \in {"boot", "up", "serving"} /\ ctrlc /\ reader # "cut"
    /\ vm' = "exited" /\ raw' \in {0, 256}
    /\ UNCHANGED <<printed, tag>>

\* The VM process is killed.
VmKilled ==
    /\ vm \in Running
    /\ vm' = "exited" /\ raw' = 9
    /\ UNCHANGED <<printed, tag>>

GuestStep ==
    /\ \/ VmStartFails \/ VmproxyReady \/ GuestFails \/ NfsReady
       \/ GuestQuits
    /\ UNCHANGED report

\* A powered-off guest has delivered its report to an open subscription.
GuestEnd ==
    /\ PowerOff
    /\ report' = IF sub = "open" /\ report = "none" THEN "sent" ELSE report

Guest ==
    /\ GuestStep \/ GuestEnd
    /\ UNCHANGED <<hostVars, sigVars, opts, api, reader, quit, sub, share,
                   ctrlc, comm, fg>>

Kill ==
    /\ Interrupted \/ VmKilled
    /\ UNCHANGED <<hostVars, sigVars, opts, api, reader, quit, sub, report,
                   share, ctrlc, comm, fg>>

-----------------------------------------------------------------------------
(* The foreground process, the user, `stop`, signals                       *)

\* run_mount_parent: "detach" lets it return, "join" makes it wait for the
\* child and turn the wait status into an exit code.
Foreground ==
    /\ fg = -1
    /\ \/ comm = "detach" /\ fg' = 0
       \/ comm = "join" /\ pc = "done" /\ fg' = ToExitCode(256 * code)
    /\ UNCHANGED <<hostVars, guestVars, sigVars, opts, api, reader, quit, sub,
                   report, share, ctrlc, comm>>

\* The user, `anylinuxfs unmount` or `stop` on a mounted share.
Unmount ==
    /\ share /\ share' = FALSE
    /\ UNCHANGED <<hostVars, guestVars, sigVars, opts, api, reader, quit, sub,
                   report, ctrlc, comm, fg>>

\* run_stop while RuntimeInfo has no mount point: Quit goes to the VM directly.
StopNotYetMounted ==
    /\ "api" \in held /\ ~seen /\ quit # "received"
    /\ QuitArrives
    /\ UNCHANGED <<hostVars, guestVars, sigVars, opts, api, reader, sub, report,
                   share, ctrlc, comm, fg>>

\* SIGINT or SIGTERM once the publisher runs: PubSub::publish hands it to the
\* current subscriber; without one it is dropped.  Before that, a signal ends
\* the process as SIGKILL does at any time: nothing is claimed for its session.
TermSignal ==
    /\ pc \notin {"net", "sock", "check", "key", "fork", "publish", "done"}
    /\ errAt \notin {"net", "sock", "check", "key", "fork", "publish"}
    /\ sent < MaxSignals
    /\ sent' = sent + 1
    /\ fwdq' = (fwdq \/ hub = "fwd")
    /\ sesq' = (sesq \/ hub = "session")
    /\ UNCHANGED <<hostVars, guestVars, hub, opts, api, reader, quit, sub,
                   report, share, ctrlc, comm, fg>>

Next ==
    \/ Main
    \/ BindApi \/ ReadPty \/ ReadPtyFails \/ SubscribeToVmEvents \/ ForwardSignal
    \/ Guest \/ Kill
    \/ Foreground \/ Unmount \/ StopNotYetMounted \/ TermSignal

(* The host's threads and the foreground process are scheduled.  A guest    *)
(* that has something to do does it; in particular its unmount loop ends.   *)
(* Nobody has to unmount, stop, send a signal or kill the VM.               *)
Spec ==
    /\ Init /\ [][Next]_vars
    /\ WF_vars(Main)
    /\ WF_vars(BindApi) /\ WF_vars(ReadPty)
    /\ WF_vars(SubscribeToVmEvents) /\ WF_vars(ForwardSignal)
    /\ WF_vars(Guest)
    /\ WF_vars(Foreground)

-----------------------------------------------------------------------------
(* Properties                                                              *)

TypeOK ==
    /\ pc \in Points /\ errAt \in Points \cup {"none"}
    /\ deferred \in Seq(Actions)
    /\ held \subseteq Resources
    /\ code \in 0..255 /\ raw \in RawStatuses
    /\ opts \in SUBSET OptionNames
    /\ api \in {"off", "starting", "bound", "failed"}
    /\ reader \in {"off", "reading", "ready", "failed", "cut"}
    /\ nfs \in {"none", "ready", "failed"}
    /\ vm \in VmStates
    /\ quit \in {"none", "received", "lost"}
    /\ sub \in {"none", "open", "failed"}
    /\ report \in {"none", "sent", "saved", "missed"}
    /\ hub \in {"none", "fwd", "session"}
    /\ sent \in 0..MaxSignals
    /\ comm \in {"none", "detach", "join"} /\ fg \in -1..255
    /\ printed \in BOOLEAN /\ tag \in BOOLEAN /\ share \in BOOLEAN /\ seen \in BOOLEAN
    /\ fwdq \in BOOLEAN /\ sesq \in BOOLEAN /\ ctrlc \in BOOLEAN

(* Whatever path run_mount_child takes to its end, with the clean-ups it    *)
(* called early (call_now), removed (remove) or left on the Deferred stack, *)
(* it leaves no socket, no displaced rpcbind service, no helper, no key     *)
(* file and no mount point behind, except: a helper that was given no       *)
(* address or whose socket never appeared, a key file whose preparation     *)
(* failed, a mount point that was never seen mounted or not unmounted       *)
(* before a signal or an error ended the session, and an API socket bound   *)
(* by a thread that was overtaken by an early error.                        *)
ResourcesReleased ==
    pc = "done" =>
        /\ {"vfkit", "vsock", "rpc"} \cap held = {}
        /\ "helper" \in held => errAt \in {"net", "sock"}
        /\ "key" \in held => errAt = "key"
        /\ "dir" \in held => ~seen \/ sent > 0 \/ errAt \notin {"none", "quit"}
        /\ "api" \in held => errAt \in {"rpcbind", "fwd"}

(* As long as the VM runs, what it depends on stays: the network helper and *)
(* its socket, its vsock and its key file are removed only after the wait   *)
(* for the VM, which the order of the Deferred stack has to ensure.         *)
VmResourcesKept ==
    vm \in Running =>
        /\ {"helper", "vfkit", "vsock"} \subseteq held
        /\ "key_file" \in opts => "key" \in held

(* The host process never exits before its VM, and always reaps it: a       *)
(* mount's device locks are released only when nothing writes any more.     *)
VmReaped == pc = "done" => vm \in {"off", "reaped"}

(* A session that ends without an error saves the kernel log whenever the   *)
(* guest's report was delivered; only an error path may time out on it.     *)
ReportSaved ==
    pc = "done" /\ errAt = "none" /\ sub = "open" /\ raw = 0 /\ vm = "reaped"
        => report = "saved" \/ ctrlc

(* When the guest fails before NFS is ready (wrong passphrase, mount error) *)
(* the foreground command reports a failure, although the VM itself powers  *)
(* off with status 0: the exit-code tag reaches PtyReader, the main line,   *)
(* exit() and the foreground's wait.  Only a PtyReader that was ended by a  *)
(* read error before the tag loses it.                                      *)
GuestFailureReported ==
    fg = 0 /\ pc = "done" => ~(tag /\ comm = "join") \/ reader = "cut"

(* Once the mounted share is unmounted, or a termination signal has reached *)
(* EventSession, the session comes to its end, unless the one Quit request  *)
(* is lost.                                                                 *)
UnmountEndsSession ==
    (pc = "wait_unmount" /\ seen /\ (sesq \/ ~share))
        ~> (pc = "done" \/ quit = "lost")

(* From a ready NFS server on, any error of the host still shuts the VM     *)
(* down and ends the session, unless the Quit request is lost.              *)
ErrorEndsSession ==
    (pc = "unwind" /\ errAt # "none" /\ nfs = "ready")
        ~> (pc = "done" \/ quit = "lost")

-----------------------------------------------------------------------------
(* What comments and documents say, and the code does not do               *)

(* A session that ends without an error leaves no client-side NFS mount     *)
(* behind that points at the VM it has shut down.                           *)
NoStaleMount == pc = "done" /\ errAt = "none" => ~share

=============================================================================
