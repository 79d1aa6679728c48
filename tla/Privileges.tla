----------------------------- MODULE Privileges -----------------------------
(***************************************************************************)
(* The credentials of the background process of `mount` (privilege.rs).    *)
(* They belong to the process, and two threads change them: the main       *)
(* thread drops and regains its effective ids around the DNS record and    *)
(* for the time the share is served; the subscriber                        *)
(* (subscribe_to_vm_events) connects to the root-owned control socket      *)
(* under an EffectiveRootGuard.  Every set*id call is a step of its own.   *)
(* libc makes one call take effect in all threads.                         *)
(***************************************************************************)
EXTENDS Naturals, FiniteSets

CONSTANTS Platforms,   \* subset of {"linux", "macos"}
          SudoValues   \* subset of BOOLEAN: started with sudo or not

ASSUME PlatformAssumption == Platforms \subseteq {"linux", "macos"}
ASSUME SudoAssumption == SudoValues \subseteq BOOLEAN

Root == 0
User == 1              \* the invoker's uid and gid
Ids == {Root, User}
Nobody == 2
None == [u |-> Nobody, g |-> Nobody]   \* a guard that has nothing to restore

VARIABLES
  platform, sudo,
  uid,     \* [r, e, s |-> real, effective and saved uid]
  gid,
  pc,      \* position of the main thread
  ready,   \* what PtyReader knows of the NFS server: "none" before it is spawned,
           \* "reading", then "ready" or "failed", with which it has ended
  err,     \* the main thread is returning an error
  prev,    \* thread |-> the ids its guard has saved, or None
  sub,     \* position of the subscriber
  recordBy,   \* effective uid at the registration of the DNS record
  overlapped  \* history: the subscriber had a guard while the main thread ended

creds == <<uid, gid>>
vars == <<platform, sudo, uid, gid, pc, ready, err, prev, sub, recordBy, overlapped>>
----------------------------------------------------------------------------
(* The calls.  The kernel allows an unprivileged process to set its         *)
(* effective id to its real or saved one, and root to set any.              *)

MaySetUid(x) == uid.e = Root \/ x \in {uid.r, uid.s}
MaySetGid(x) == uid.e = Root \/ x \in {gid.r, gid.s}

seteuid(x) == uid' = IF MaySetUid(x) THEN [uid EXCEPT !.e = x] ELSE uid
setegid(x) == gid' = IF MaySetGid(x) THEN [gid EXCEPT !.e = x] ELSE gid

\* macOS drop_privileges: all three ids when called as root
setuid(x) == uid' = IF uid.e = Root THEN [r |-> x, e |-> x, s |-> x] ELSE uid
setgid(x) == gid' = IF uid.e = Root THEN [r |-> x, e |-> x, s |-> x] ELSE gid
----------------------------------------------------------------------------
Init ==
  /\ platform \in Platforms /\ sudo \in SudoValues
  /\ LET x == IF sudo THEN Root ELSE User
     IN uid = [r |-> x, e |-> x, s |-> x] /\ gid = [r |-> x, e |-> x, s |-> x]
  /\ pc = "drop_gid" /\ ready = "none" /\ err = FALSE
  /\ prev = [main |-> None, sub |-> None]
  /\ sub = "off" /\ recordBy = Nobody /\ overlapped = FALSE

Goto(p, q) == pc = p /\ pc' = q
rest == <<platform, sudo, ready>>

\* `?` on a failing call: return, and drop the locals
Fail(p) == pc = p /\ err' = TRUE /\ pc' = "elevate_uid"

\* one set*id call of the main thread whose failure is an error
Checked(p, q, May, set) ==
  /\ set
  /\ IF May THEN Goto(p, q) /\ UNCHANGED err ELSE Fail(p)
  /\ UNCHANGED <<rest, sub, prev, recordBy>>
----------------------------------------------------------------------------
(* Main thread: drop_effective_privileges, the DNS record,                  *)
(* elevate_effective_privileges, and the work that needs root.              *)

DropEffectiveGid ==
  IF sudo THEN Checked("drop_gid", "drop_uid", MaySetGid(User), setegid(User)) /\ UNCHANGED uid
          ELSE Goto("drop_gid", "record") /\ UNCHANGED <<rest, creds, err, prev, sub, recordBy>>

DropEffectiveUid ==
  Checked("drop_uid", "record", MaySetUid(User), seteuid(User)) /\ UNCHANGED gid

RegisterRecord ==
  /\ \/ Goto("record", "elev_uid") /\ UNCHANGED err
     \/ Fail("record")
  /\ recordBy' = uid.e
  /\ UNCHANGED <<rest, creds, prev, sub>>

ElevateEffectiveUid ==
  Checked("elev_uid", "elev_gid", MaySetUid(uid.r), seteuid(uid.r)) /\ UNCHANGED gid

ElevateEffectiveGid ==
  Checked("elev_gid", "setup", MaySetGid(gid.r), setegid(gid.r)) /\ UNCHANGED uid

SpawnReader ==
  /\ pc = "setup" /\ ready = "none"
  /\ ready' = "reading"
  /\ UNCHANGED <<platform, sudo, creds, pc, err, prev, sub, recordBy>>

\* rpcbind services, wait for the NFS server, mount: any of them may fail, and
\* a guest that does not get ready is not an error yet
Setup ==
  /\ \/ /\ ready = "reading" /\ ready' \in {"ready", "failed"}
        /\ (Goto("setup", "drop2_gid") /\ UNCHANGED err) \/ Fail("setup")
     \/ Fail("setup") /\ UNCHANGED ready
  /\ UNCHANGED <<platform, sudo, creds, prev, sub, recordBy>>

\* drop_privileges: effective ids on Linux, all ids on macOS
DropGid ==
  IF sudo THEN /\ Checked("drop2_gid", "drop2_uid", MaySetGid(User),
                          IF platform = "macos" THEN setgid(User) ELSE setegid(User))
               /\ UNCHANGED uid
          ELSE Goto("drop2_gid", "serving") /\ UNCHANGED <<rest, creds, err, prev, sub, recordBy>>

(* Mutant: the effective uid only, on macOS too. *)
DropUidEffective ==
  /\ Checked("drop2_uid", "serving", MaySetUid(User), seteuid(User))
  /\ UNCHANGED gid

DropUid ==
  /\ Checked("drop2_uid", "serving", MaySetUid(User),
             IF platform = "macos" THEN setuid(User) ELSE seteuid(User))
  /\ UNCHANGED gid

\* wait_for_unmount returns and send_quit_cmd is called; without a share the
\* main thread only waits for the VM
Unmounted ==
  /\ Goto("serving", IF ready = "ready" THEN "quit_acquire" ELSE "quit_sent")
  /\ UNCHANGED <<rest, creds, err, prev, sub, recordBy>>
----------------------------------------------------------------------------
(* EffectiveRootGuard, of thread t (Linux only).                            *)

\* acquire reads the ids; it sets them only if the process is really root's
\* and some thread has dropped the effective uid
GuardReads(t) ==
  prev' = [prev EXCEPT ![t] =
             IF platform = "linux" /\ uid.r = Root /\ uid.e # Root
             THEN [u |-> uid.e, g |-> gid.e] ELSE None]

\* the control socket of libkrun belongs to root on Linux
MayConnect == platform = "macos" \/ ~sudo \/ uid.e = Root

QuitAcquire ==
  /\ pc = "quit_acquire"
  /\ GuardReads("main")
  /\ pc' = IF prev'["main"] = None THEN "quit_connect" ELSE "quit_uid"
  /\ UNCHANGED <<rest, creds, err, sub, recordBy>>

QuitSetUid ==
  /\ Goto("quit_uid", "quit_gid") /\ seteuid(Root)
  /\ UNCHANGED <<rest, gid, err, prev, sub, recordBy>>

QuitSetGid ==
  /\ Goto("quit_gid", "quit_connect") /\ setegid(Root)
  /\ UNCHANGED <<rest, uid, err, prev, sub, recordBy>>

\* an error of connect is kept until the guard is dropped
QuitConnect ==
  /\ pc = "quit_connect"
  /\ err' = ~MayConnect
  /\ pc' = IF prev["main"] = None THEN "quit_sent" ELSE "quit_rgid"
  /\ UNCHANGED <<rest, creds, prev, sub, recordBy>>

QuitReleaseGid ==
  /\ Goto("quit_rgid", "quit_ruid") /\ setegid(prev["main"].g)
  /\ UNCHANGED <<rest, uid, err, prev, sub, recordBy>>

QuitReleaseUid ==
  /\ Goto("quit_ruid", "quit_sent") /\ seteuid(prev["main"].u)
  /\ prev' = [prev EXCEPT !["main"] = None]
  /\ UNCHANGED <<rest, gid, err, sub, recordBy>>

\* the VM ends, or the error is returned: locals are dropped either way
QuitSent ==
  /\ Goto("quit_sent", "elevate_uid")
  /\ UNCHANGED <<rest, creds, err, prev, sub, recordBy>>
----------------------------------------------------------------------------
(* ElevateOnDrop, dropped before the deferred actions (Linux only).         *)

(* Mutant: the marker is declared before `deferred`, and dropped after it. *)
ElevateOnDropLate ==
  /\ Goto("elevate_uid", "elevate_gid")
  /\ UNCHANGED <<rest, creds, err, prev, sub, recordBy>>

ElevateOnDropUid ==
  /\ Goto("elevate_uid", "elevate_gid")
  /\ IF platform = "linux" /\ uid.r = Root THEN seteuid(Root) ELSE UNCHANGED uid
  /\ UNCHANGED <<rest, gid, err, prev, sub, recordBy>>

ElevateOnDropGid ==
  /\ Goto("elevate_gid", "cleanup")
  /\ IF platform = "linux" /\ uid.r = Root THEN setegid(Root) ELSE UNCHANGED gid
  /\ UNCHANGED <<rest, uid, err, prev, sub, recordBy>>

\* the deferred actions, then the process is gone
Cleanup ==
  /\ Goto("cleanup", "exited")
  /\ UNCHANGED <<rest, creds, err, prev, sub, recordBy>>
----------------------------------------------------------------------------
(* Subscriber: started when the guest announces itself on the console.      *)

Step(p, q) == sub = p /\ sub' = q /\ pc # "exited"
unchangedBySub == <<rest, pc, err, recordBy>>

VmproxyReady ==
  /\ ready = "reading" /\ Step("off", "acquire")
  /\ UNCHANGED <<unchangedBySub, creds, prev>>

SubAcquire ==
  /\ GuardReads("sub")
  /\ Step("acquire", IF prev'["sub"] = None THEN "connect" ELSE "uid")
  /\ UNCHANGED <<unchangedBySub, creds>>

SubSetUid ==
  /\ Step("uid", "gid") /\ seteuid(Root)
  /\ UNCHANGED <<unchangedBySub, gid, prev>>

SubSetGid ==
  /\ Step("gid", "connect") /\ setegid(Root)
  /\ UNCHANGED <<unchangedBySub, uid, prev>>

\* a failure is printed and the thread ends; the guard is dropped first
SubConnect ==
  /\ Step("connect", IF prev["sub"] = None THEN "done" ELSE "rgid")
  /\ UNCHANGED <<unchangedBySub, creds, prev>>

SubReleaseGid ==
  /\ Step("rgid", "ruid") /\ setegid(prev["sub"].g)
  /\ UNCHANGED <<unchangedBySub, uid, prev>>

SubReleaseUid ==
  /\ Step("ruid", "done") /\ seteuid(prev["sub"].u)
  /\ prev' = [prev EXCEPT !["sub"] = None]
  /\ UNCHANGED <<unchangedBySub, gid>>
----------------------------------------------------------------------------
Main ==
  \/ DropEffectiveGid \/ DropEffectiveUid \/ RegisterRecord
  \/ ElevateEffectiveUid \/ ElevateEffectiveGid \/ SpawnReader \/ Setup
  \/ DropGid \/ DropUid \/ Unmounted
  \/ QuitAcquire \/ QuitSetUid \/ QuitSetGid \/ QuitConnect
  \/ QuitReleaseGid \/ QuitReleaseUid \/ QuitSent
  \/ ElevateOnDropUid \/ ElevateOnDropGid \/ Cleanup

Subscriber ==
  \/ VmproxyReady \/ SubAcquire \/ SubSetUid \/ SubSetGid
  \/ SubConnect \/ SubReleaseGid \/ SubReleaseUid

\* the subscriber has a guard to release, and the main thread is on its way out
Overlap ==
  /\ prev["sub"] # None
  /\ pc \in {"quit_acquire", "quit_uid", "quit_gid", "quit_connect", "quit_rgid", "quit_ruid",
             "quit_sent", "elevate_uid", "elevate_gid", "cleanup"}

Next ==
  /\ Main \/ Subscriber
  /\ overlapped' = (overlapped \/ Overlap')

Spec == Init /\ [][Next]_vars
----------------------------------------------------------------------------
(* Properties.                                                              *)

IdRecords == [r : Ids, e : Ids, s : Ids]

(* Types of the variables. *)
TypeOK ==
  /\ platform \in Platforms /\ sudo \in SudoValues
  /\ uid \in IdRecords /\ gid \in IdRecords
  /\ ready \in {"none", "reading", "ready", "failed"} /\ err \in BOOLEAN
  /\ prev \in [{"main", "sub"} -> [u : Ids, g : Ids] \cup {None}]
  /\ sub \in {"off", "acquire", "uid", "gid", "connect", "rgid", "ruid", "done"}
  /\ recordBy \in Ids \cup {Nobody} /\ overlapped \in BOOLEAN

\* the subscriber's guard, acquired after the main thread's drop, has raised
\* the ids and will set them back to the invoker's
GuardOpen == prev["sub"] # None /\ sub \in {"gid", "connect", "rgid", "ruid"}

(* Whoever holds what when: the DNS record is made by the invoker, rpcbind  *)
(* and mount run as root under sudo, and while the share is served no root  *)
(* is left but inside the subscriber's guard - on macOS none at all, not    *)
(* even a saved id (drop_privileges).  The Quit of the normal end finds the *)
(* root its connection needs, unless the subscriber's guard was open at     *)
(* some time of that end (send_quit_cmd).                                   *)
IdsOfPhase ==
  /\ recordBy # Root
  /\ (sudo /\ pc = "setup") => uid.e = Root /\ gid.e = Root
  /\ pc = "serving" =>
       /\ GuardOpen \/ (uid.e = User /\ gid.e = User)
       /\ platform = "macos" => Root \notin {uid.r, uid.s, gid.r, gid.s}
  /\ pc = "quit_connect" => overlapped \/ MayConnect

(* Under sudo on Linux, deferred actions run as root after any outcome of   *)
(* the session, unless the subscriber's guard was open at some time while   *)
(* the session ended: one released before takes nothing (ElevateOnDrop).    *)
CleanupAsRootUnlessGuarded ==
  (platform = "linux" /\ sudo /\ pc = "cleanup") =>
    overlapped \/ (uid.e = Root /\ gid.e = Root)

=============================================================================
