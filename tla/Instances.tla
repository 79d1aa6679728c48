----------------------------- MODULE Instances -----------------------------
(***************************************************************************)
(* Several instances of `mount` on one host, and a forced `stop`.  They    *)
(* meet in what the host has only once: the API sockets in /tmp, the log   *)
(* directory and rpcbind's table.  The inside of a session is modelled in  *)
(* MountSession; here a session is a line of positions.                    *)
(***************************************************************************)
EXTENDS Naturals, FiniteSets, Rpcbind

CONSTANTS
  Inst,          \* runs of `mount`
  OldLogs,       \* logs of earlier runs
  Retention,     \* LOG_RETENTION_COUNT
  HostTables     \* what rpcbind may hold before the first mount

ASSUME RetentionAssumption == Retention \in Nat \ {0}
ASSUME HostAssumption == HostTables \subseteq Tables
ASSUME LogsAssumption == IsFiniteSet(OldLogs) /\ OldLogs \cap Inst = {}

VARIABLES
  linux,      \* the platform is Linux
  sudo,       \* the mounts run under sudo
  host,       \* rpcbind's table before the first mount
  rpc,        \* rpcbind's table
  pc,         \* position of each run
  active,     \* the instances a run has found, while it starts
  stale,      \* the sockets a run is about to remove
  api,        \* the API thread of each run: "none", "bound", "listening", "failed"
  socks,      \* socket files in /tmp
  logs,       \* log file |-> its modification time
  clock,      \* the time of the next write
  saved,      \* services_to_restore of each run
  deferred,   \* runs that will restore them
  dropped,    \* runs that have dropped their privileges
  late,       \* runs that have lost root again before they clean up
  procs,      \* run |-> its processes other than the session leader
  stop        \* the forced stop: [pc, target]

session == <<pc, active, stale, api, saved, deferred, dropped, late>>
vars == <<linux, sudo, host, rpc, session, socks, logs, clock, procs, stop>>

Dead == {"gone", "killed"}
Starting == {"idle", "probed", "scanned", "logged"}
NoOne == [pc |-> "idle"]

\* get_runtime_info_from_socket succeeds; a socket that is bound and does not
\* listen yet refuses the connection
Answers(i) == i \in socks /\ api[i] = "listening"

Init ==
  /\ linux \in BOOLEAN /\ sudo \in BOOLEAN
  /\ ~sudo => linux    \* without sudo the platforms do not differ
  /\ host \in HostTables /\ rpc = host
  /\ pc = [i \in Inst |-> "idle"]
  /\ active = [i \in Inst |-> {}]
  /\ stale = [i \in Inst |-> {}]
  /\ api = [i \in Inst |-> "none"] /\ socks = {}
  /\ logs \in Bijection(OldLogs, 1..Cardinality(OldLogs))
  /\ clock = Cardinality(OldLogs) + 1
  /\ saved = [i \in Inst |-> NoEntries]
  /\ deferred = {} /\ dropped = {} /\ late = {}
  /\ procs = [i \in Inst |-> {}]
  /\ stop = NoOne

Move(i, p, q) == pc[i] = p /\ pc' = [pc EXCEPT ![i] = q]
platform == <<linux, sudo, host>>
----------------------------------------------------------------------------
(* run_mount *)

\* collect_active_instances: every socket in /tmp is asked
Probe(i) ==
  /\ Move(i, "idle", "probed")
  /\ active' = [active EXCEPT ![i] = {j \in Inst : Answers(j)}]
  /\ stale' = [stale EXCEPT ![i] = {j \in socks : ~Answers(j)}]
  /\ UNCHANGED <<platform, rpc, api, saved, deferred, dropped, late, socks, logs, clock, procs, stop>>

\* ... and those that did not answer are removed
RemoveStale(i) ==
  /\ Move(i, "probed", "scanned")
  /\ socks' = socks \ stale[i]
  /\ stale' = [stale EXCEPT ![i] = {}]
  /\ UNCHANGED <<platform, rpc, active, api, saved, deferred, dropped, late, logs, clock, procs, stop>>

(* Mutant: sorted by age the other way round. *)
KeptLogsOldest(act) ==
  LET Older(l) == {m \in DOMAIN logs : logs[m] < logs[l]}
  IN Restrict(logs, {l \in DOMAIN logs : Cardinality(Older(l)) < Retention - 1 \/ l \in act})

\* cleanup_old_logs: the newest are kept, and those of active instances
KeptLogs(act) ==
  LET keep == IF Cardinality(act) > Retention - 1 THEN Cardinality(act)
                                                  ELSE Retention - 1
      Newer(l) == {m \in DOMAIN logs : logs[m] > logs[l]}
  IN Restrict(logs, {l \in DOMAIN logs : Cardinality(Newer(l)) < keep \/ l \in act})

\* run i writes to its log, beside these
Write(i, files) ==
  /\ logs' = [l \in DOMAIN files \cup {i} |-> IF l = i THEN clock ELSE files[l]]
  /\ clock' = clock + 1

\* ... and init_log_file
StartLog(i) ==
  /\ Move(i, "scanned", "logged")
  /\ Write(i, KeptLogs(active[i]))
  /\ active' = [active EXCEPT ![i] = {}]
  /\ UNCHANGED <<platform, rpc, stale, api, saved, deferred, dropped, late, socks, procs, stop>>

\* a line is written, to a file that may have lost its name
Touch(i) ==
  \/ i \in DOMAIN logs /\ Write(i, logs)
  \/ i \notin DOMAIN logs /\ UNCHANGED <<logs, clock>>

\* network helper, VM and the API thread
StartVm(i) ==
  /\ Move(i, "logged", "serving")
  /\ procs' = [procs EXCEPT ![i] = {"vm", "helper"}]
  /\ Touch(i)
  /\ UNCHANGED <<platform, rpc, active, stale, api, saved, deferred, dropped, late, socks, stop>>

\* UnixListener::bind is bind, which creates the file, ...
BindApi(i) ==
  /\ pc[i] \notin Starting \cup Dead
  /\ api[i] = "none"
  /\ api' = [api EXCEPT ![i] = "bound"]
  /\ socks' = socks \cup {i}
  /\ UNCHANGED <<platform, rpc, pc, active, stale, saved, deferred, dropped, late, logs, clock, procs, stop>>

\* ... and listen; connections wait until the socket belongs to the invoker
ListenApi(i) ==
  /\ api[i] = "bound"
  /\ api' = [api EXCEPT ![i] = "listening"]
  /\ UNCHANGED <<platform, rpc, pc, active, stale, saved, deferred, dropped, late, socks, logs, clock, procs, stop>>

\* one of the calls, or chown_to_invoker, fails: the thread ends
ApiFails(i) ==
  /\ pc[i] \notin Starting \cup Dead
  /\ api[i] \in {"none", "bound"}
  /\ api' = [api EXCEPT ![i] = "failed"]
  /\ UNCHANGED <<platform, rpc, pc, active, stale, saved, deferred, dropped, late, socks, logs, clock, procs, stop>>
----------------------------------------------------------------------------
(* rpcbind: list, setup_rpcbind_services *)

ListServices(i) ==
  /\ Move(i, "serving", "listed")
  /\ saved' = [saved EXCEPT ![i] = List(rpc)]
  /\ UNCHANGED <<platform, rpc, active, stale, api, deferred, dropped, late, socks, logs, clock, procs, stop>>

NotHostRpcbind(i) ==
  /\ ~IsHostRpcbind(saved[i])
  /\ Move(i, "listed", "registered")
  /\ UNCHANGED <<platform, rpc, active, stale, api, saved, deferred, dropped, late, socks, logs, clock, procs, stop>>

\* unregister_fn: without root, and with services of others in the list, sudo
\* is asked to do it; the user may refuse, and the status is not looked at, but
\* a sudo that cannot be started is an error
UnregisterServices(i) ==
  /\ IsHostRpcbind(saved[i])
  /\ deferred' = deferred \cup {i}
  /\ LET others == \E p \in DOMAIN saved[i] : saved[i][p].owner # Invoker
     IN \/ (sudo \/ others) /\ rpc' = Unregister(rpc, Superuser) /\ Move(i, "listed", "displaced")
        \/ ~sudo /\ others /\ UNCHANGED rpc /\ Move(i, "listed", "displaced")
        \/ ~sudo /\ others /\ UNCHANGED rpc /\ Move(i, "listed", "unwind")
        \/ ~sudo /\ ~others /\ rpc' = Unregister(rpc, Invoker) /\ Move(i, "listed", "displaced")
  /\ UNCHANGED <<platform, active, stale, api, saved, dropped, late, socks, logs, clock, procs, stop>>

(* Mutant: root registers for the invoker on Linux too. *)
RegisterCallerInvoker == Invoker

\* on macOS the entries are made the invoker's; root registers on Linux
RegisterCaller == IF sudo /\ linux THEN Superuser ELSE Invoker

\* the child that registers on macOS may not start
RegisterServices(i) ==
  /\ \/ /\ IF RegisterFails(rpc) THEN Move(i, "displaced", "unwind")
                                 ELSE Move(i, "displaced", "registered")
        /\ rpc' = Register(rpc, RegisterCaller)
     \/ sudo /\ ~linux /\ Move(i, "displaced", "unwind") /\ UNCHANGED rpc
  /\ UNCHANGED <<platform, active, stale, api, saved, deferred, dropped, late, socks, logs, clock, procs, stop>>
----------------------------------------------------------------------------
(* The rest of the session. *)

MountShare(i) ==
  /\ Move(i, "registered", "mounted")
  /\ dropped' = dropped \cup {i}
  /\ Touch(i)
  /\ UNCHANGED <<platform, rpc, active, stale, api, saved, deferred, late, socks, procs, stop>>

\* an error, a VM that ends, or the share is unmounted
Unwind(i) ==
  /\ pc[i] \in {"serving", "listed", "registered", "mounted"}
  /\ pc' = [pc EXCEPT ![i] = "unwind"]
  /\ UNCHANGED <<platform, rpc, active, stale, api, saved, deferred, dropped, late, socks, logs, clock, procs, stop>>

\* deferred actions run as root on Linux (ElevateOnDrop), unless the guard of
\* the subscriber thread takes root away once more (module Privileges); on macOS
\* they do until the privileges have been dropped
CleanupCaller(i) ==
  IF sudo /\ i \notin late /\ (linux \/ i \notin dropped) THEN Superuser ELSE Invoker

LateGuard(i) ==
  /\ linux /\ sudo
  /\ pc[i] = "unwind" /\ i \in dropped
  /\ late' = late \cup {i}
  /\ UNCHANGED <<platform, rpc, pc, active, stale, api, saved, deferred, dropped, socks, logs, clock, procs, stop>>

(* Mutant: the guest's services are left registered. *)
RestoreServicesOnly(i) ==
  /\ Move(i, "unwind", "unwind_sock")
  /\ IF i \in deferred
     THEN rpc' \in RestoreResults(rpc, saved[i], CleanupCaller(i))
     ELSE UNCHANGED rpc
  /\ UNCHANGED <<platform, active, stale, api, saved, deferred, dropped, late, socks, logs, clock, procs, stop>>

RestoreServices(i) ==
  /\ Move(i, "unwind", "unwind_sock")
  /\ IF i \in deferred
     THEN rpc' \in RestoreResults(Unregister(rpc, CleanupCaller(i)), saved[i], CleanupCaller(i))
     ELSE UNCHANGED rpc
  /\ UNCHANGED <<platform, active, stale, api, saved, deferred, dropped, late, socks, logs, clock, procs, stop>>

RemoveSocket(i) ==
  /\ Move(i, "unwind_sock", "closing")
  /\ socks' = socks \ {i}
  /\ UNCHANGED <<platform, rpc, active, stale, api, saved, deferred, dropped, late, logs, clock, procs, stop>>

\* wait for the VM, terminate the helper
Exit(i) ==
  /\ Move(i, "closing", "gone")
  /\ procs' = [procs EXCEPT ![i] = {}]
  /\ api' = [api EXCEPT ![i] = "none"]
  /\ UNCHANGED <<platform, rpc, active, stale, saved, deferred, dropped, late, socks, logs, clock, stop>>
----------------------------------------------------------------------------
(* run_stop with --force.  Its own copy of the RuntimeInfo may be stale.    *)

StopScan ==
  /\ stop.pc = "idle"
  /\ \E named \in BOOLEAN, i \in {j \in Inst : Answers(j)} :
       /\ named \/ {j \in Inst : Answers(j)} = {i}
       /\ stop' = [pc |-> "quit", target |-> i]
  /\ UNCHANGED <<platform, rpc, session, socks, logs, clock, procs>>

\* send_quit_cmd and five seconds of patience: the VM ends or it does not
StopQuit ==
  /\ stop.pc = "quit"
  /\ \E gone \in SUBSET {"vm"} :
       procs' = [procs EXCEPT ![stop.target] = @ \ gone]
  /\ stop' = [stop EXCEPT !.pc = "helper"]
  /\ UNCHANGED <<platform, rpc, session, socks, logs, clock>>

StopHelper ==
  /\ stop.pc = "helper"
  /\ \E gone \in SUBSET {"helper"} :
       procs' = [procs EXCEPT ![stop.target] = @ \ gone]
  /\ stop' = [stop EXCEPT !.pc = "kill"]
  /\ UNCHANGED <<platform, rpc, session, socks, logs, clock>>

\* killpg; ESRCH means that everybody is gone. The API socket stays.
StopKill ==
  /\ stop.pc = "kill"
  /\ pc' = [pc EXCEPT ![stop.target] = IF @ = "gone" THEN @ ELSE "killed"]
  /\ procs' = [procs EXCEPT ![stop.target] = {}]
  /\ api' = [api EXCEPT ![stop.target] = "none"]
  /\ stop' = [stop EXCEPT !.pc = "returned"]
  /\ UNCHANGED <<platform, rpc, active, stale, saved, deferred, dropped, late, socks, logs, clock>>
----------------------------------------------------------------------------
Run(i) ==
  \/ Probe(i) \/ RemoveStale(i) \/ StartLog(i) \/ StartVm(i)
  \/ BindApi(i) \/ ListenApi(i) \/ ApiFails(i)
  \/ ListServices(i) \/ NotHostRpcbind(i) \/ UnregisterServices(i) \/ RegisterServices(i)
  \/ MountShare(i) \/ Unwind(i) \/ LateGuard(i)
  \/ RestoreServices(i) \/ RemoveSocket(i) \/ Exit(i)

Next == (\E i \in Inst : Run(i)) \/ StopScan \/ StopQuit \/ StopHelper \/ StopKill

Spec == Init /\ [][Next]_vars
----------------------------------------------------------------------------
(* Properties.                                                              *)

Quiet == \A i \in Inst : pc[i] \in Starting \cup {"gone"}

\* every run that is to restore services has listed the host's own, all of
\* them: not another instance's, nor the gap between unregister and register
ListedHost(i) == Addresses(saved[i]) = Addresses(List(host))

(* When no instance is left and none was killed, rpcbind serves exactly what *)
(* it served before, wherever the host's services are registered and however *)
(* the runs overlapped, failed or were refused by sudo, provided each of     *)
(* those that displaced services had listed the host's and has not lost its  *)
(* root before the clean-up.                                                 *)
HostServicesRestored ==
  (Quiet /\ \A i \in deferred : ListedHost(i) /\ i \notin late)
    => Addresses(rpc) = Addresses(host)

(* Under sudo on Linux no run takes another's registrations for the host's:  *)
(* they belong to the superuser (is_host_rpcbind).  What a run is going to   *)
(* restore are services of the host, at the host's addresses.                *)
GuestServicesRecognised ==
  (linux /\ sudo) =>
    \A i \in deferred : \A p \in DOMAIN saved[i] :
      p \in DOMAIN host /\ saved[i][p].addr = host[p].addr

(* The log of a running mount is not cleaned up under it, even before the    *)
(* mount can be discovered, by up to LOG_RETENTION_COUNT overlapping mounts. *)
LogKept ==
  \A i \in Inst : pc[i] \notin (Starting \ {"logged"}) \cup Dead => i \in DOMAIN logs

=============================================================================
