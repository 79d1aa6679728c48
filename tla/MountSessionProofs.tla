------------------------- MODULE MountSessionProofs -------------------------
(***************************************************************************)
(* What MountSession.cfg checks, for every set of options and any number   *)
(* of signals: the host never outlives its VM, the VM keeps what it needs, *)
(* nothing is left behind, the report is saved, a guest's failure reaches  *)
(* the foreground command.                                                 *)
(*                                                                         *)
(* The argument rests on the Deferred stack.  Its actions are added in the *)
(* order of Rank, whatever the options are; so an action that is still     *)
(* there is run before every action of a lower rank, and the set of the    *)
(* actions that are left (Left) says everything about the stack.           *)
(***************************************************************************)
EXTENDS MountSession, DeferredProofs

Rank == [a \in Actions |->
           CASE a = "vfkit" -> 1 [] a = "helper" -> 2 [] a = "vsock" -> 3
             [] a = "key" -> 4 [] a = "vm_wait" -> 5 [] a = "api" -> 6
             [] a = "rpc" -> 7 [] a = "report" -> 8 [] a = "stop_fwd" -> 9
             [] a = "quit" -> 10 [] OTHER -> 11]

\* a stack of clean-up actions in the order of run_mount_child
Stack(d) == d \in Seq(Actions) /\ Ordered(d, Rank)

Left == Range(deferred)

\* the main line has neither failed nor come to its end
OnMainLine == pc \notin {"unwind", "done"}

\* the points of the main line up to and including one of them
ToSock    == {"net", "sock"}
ToCheck   == ToSock \cup {"check"}
ToKey     == ToCheck \cup {"key"}
ToFork    == ToKey \cup {"fork"}
ToApi     == ToFork \cup {"publish", "dns", "api"}
ToRpcbind == ToApi \cup {"rpcbind"}
ToReader  == ToRpcbind \cup {"reader"}
ToNfs     == ToReader \cup {"fwd", "nfs"}

(* Which clean-ups are registered at each point of the main line.           *)
MainInv ==
    /\ pc = "done" => Left = {}
    /\ OnMainLine =>
        /\ errAt = "none"
        /\ "vfkit" \in Left <=> pc \notin ToSock
        /\ "helper" \in Left <=> pc \notin ToCheck
        /\ "vsock" \in Left <=> pc \notin ToCheck
        /\ "key" \in Left <=> "key_file" \in opts /\ pc \notin ToKey
        /\ "vm_wait" \in Left <=> pc \notin ToFork
        /\ "api" \in Left <=> pc \notin ToApi
        /\ "rpc" \in Left <=> "rpcbind" \in opts /\ pc \notin ToRpcbind
        /\ "report" \in Left <=> pc \notin ToReader
        /\ "stop_fwd" \in Left =>
             pc \in {"nfs", "notready", "unsub", "sub", "mount", "wait_mount", "wait_vm"}
        /\ "quit" \in Left =>
             pc \in {"unsub", "sub", "mount", "wait_mount", "detach", "wait_unmount", "quit"}
        /\ "dir" \in Left => pc \in {"detach", "wait_unmount", "quit", "wait_vm"}

(* Every resource that exists has its clean-up still to come, except where  *)
(* ResourcesReleased says it has not.                                       *)
HeldInv ==
    /\ "vfkit" \in held => "vfkit" \in Left
    /\ "vsock" \in held => "vsock" \in Left
    /\ "rpc" \in held => "rpc" \in Left
    /\ "helper" \in held => "helper" \in Left \/ pc \in {"sock", "check"} \/ errAt \in {"net", "sock"}
    /\ "key" \in held => "key" \in Left \/ errAt = "key"
    /\ "api" \in held => "api" \in Left \/ errAt \in {"rpcbind", "fwd"}
    /\ api = "starting" =>
         \/ pc \in {"rpcbind", "reader", "fwd", "nfs"}
         \/ pc \in {"unwind", "done"} /\ errAt \in {"rpcbind", "fwd"}

(* A created mount point: it is removed unless the share is still mounted,  *)
(* which after a seen mount takes a signal.                                 *)
DirInv ==
    /\ "dir" \in held =>
         "auto_dir" \in opts /\ ("dir" \in Left \/ ~seen \/ sent > 0 \/ errAt \notin {"none", "quit"})
    /\ seen => pc \in {"detach", "wait_unmount", "quit", "wait_vm", "unwind", "done"}
    /\ seen /\ pc \in {"quit", "wait_vm", "unwind", "done"} /\ errAt \in {"none", "quit"} =>
         ~share \/ sent > 0
    /\ sesq => sent > 0

(* The wait for the VM is registered as long as there is a VM to wait for,  *)
(* and what the VM depends on is there as long as the wait is registered.   *)
VmInv ==
    /\ vm \notin {"off", "reaped"} => "vm_wait" \in Left
    /\ pc \in ToFork => vm = "off"
    /\ OnMainLine /\ pc # "net" => "helper" \in held
    /\ OnMainLine /\ "vfkit" \in Left => "vfkit" \in held
    /\ OnMainLine /\ "key" \in Left => "key" \in held
    /\ "vm_wait" \in Left =>
         /\ {"helper", "vfkit", "vsock"} \subseteq held
         /\ "key_file" \in opts => "key" \in held

(* The report of a guest that powered off is there to be received, and is   *)
(* received once.                                                           *)
ReportInv ==
    /\ errAt = "none" /\ vm \in {"exited", "reaped"} /\ raw = 0 /\ sub = "open" =>
         ctrlc \/ report \in {"sent", "saved"}
    /\ OnMainLine => report \in {"none", "sent"}
    /\ report \in {"saved", "missed"} => "report" \notin Left
    /\ ~OnMainLine /\ errAt = "none" =>
         vm = "reaped" /\ (report = "sent" => "report" \in Left)

(* The way of the exit-code tag from the guest to the foreground command.   *)
TagInv ==
    /\ ~(printed /\ tag)
    /\ printed => vm \in {"serving", "stopping", "exited", "reaped"}
    /\ vm \notin {"exited", "reaped"} => raw = 0
    /\ tag => vm \in {"stopping", "exited", "reaped"} /\ raw # 256
    /\ reader = "ready" => printed
    /\ OnMainLine /\ pc \notin ToNfs => reader \in {"ready", "failed", "cut"}
    /\ errAt # "none" => code = 1
    /\ ~OnMainLine /\ tag => code # 0 \/ reader = "cut"
    /\ OnMainLine /\ pc \notin {"wait_unmount", "quit", "wait_vm"} => comm = "none"
    /\ fg # -1 => comm = "detach" \/ (comm = "join" /\ pc = "done" /\ fg = code)

SessionInv ==
    /\ TypeOK /\ Ordered(deferred, Rank)
    /\ MainInv /\ HeldInv /\ DirInv /\ VmInv /\ ReportInv /\ TagInv

-----------------------------------------------------------------------------
(* The stack                                                                *)

(* The ranks of the actions. *)
LEMMA RankValues ==
  /\ Rank \in [Actions -> Nat]
  /\ Rank["vfkit"] = 1 /\ Rank["helper"] = 2 /\ Rank["vsock"] = 3 /\ Rank["key"] = 4
  /\ Rank["vm_wait"] = 5 /\ Rank["api"] = 6 /\ Rank["rpc"] = 7 /\ Rank["report"] = 8
  /\ Rank["stop_fwd"] = 9 /\ Rank["quit"] = 10 /\ Rank["dir"] = 11
BY DEF Rank, Actions

(* Deferred::add at the end of the order. *)
LEMMA StackAdd ==
  ASSUME NEW d, Stack(d), NEW a \in Actions, \A x \in Range(d) : Rank[x] < Rank[a]
  PROVE  Stack(Add(d, a)) /\ Range(Add(d, a)) = Range(d) \cup {a}
<1>1. d \in Seq(Actions) /\ Ordered(d, Rank) BY DEF Stack
<1>2. Rank \in [Actions -> Nat] BY RankValues
<1>3. /\ Add(d, a) \in Seq(Actions) /\ Ordered(Add(d, a), Rank)
      /\ Range(Add(d, a)) = Range(d) \cup {a}
  BY <1>1, <1>2, AddOrdered
<1>4. QED BY <1>3 DEF Stack

(* Deferred::remove and call_now take out one action. *)
LEMMA StackPop ==
  ASSUME NEW d, Stack(d), NEW a
  PROVE  Stack(PopAction(d, a)) /\ Range(PopAction(d, a)) = Range(d) \ {a}
<1>1. d \in Seq(Actions) /\ Ordered(d, Rank) BY DEF Stack
<1>2. Rank \in [Actions -> Nat] BY RankValues
<1>3. /\ PopAction(d, a) \in Seq(Actions) /\ Ordered(PopAction(d, a), Rank)
      /\ Range(PopAction(d, a)) = Range(d) \ {a}
  BY <1>1, <1>2, PopOrdered
<1>4. QED BY <1>3 DEF Stack

(* Drop runs the action of the highest rank. *)
LEMMA StackDrop ==
  ASSUME NEW d, Stack(d), d # << >>
  PROVE  /\ Stack(Front(d)) /\ Range(Front(d)) = Range(d) \ {Last(d)}
         /\ Last(d) \in Range(d) /\ Last(d) \in Actions
         /\ \A x \in Range(d) : x = Last(d) \/ Rank[x] < Rank[Last(d)]
BY DropOrdered, RankValues, Zenon DEF Stack

(* The empty stack. *)
LEMMA StackEmpty == Stack(<< >>) /\ Range(<< >>) = {}
BY DEF Stack, Ordered, Range

(* The actions that are left are actions. *)
LEMMA LeftActions == ASSUME SessionInv PROVE Stack(deferred) /\ Left \subseteq Actions
<1>1. deferred \in Seq(Actions) /\ Stack(deferred) BY DEF SessionInv, TypeOK, Stack
<1>2. QED BY <1>1, SeqByPosition DEF Left

USE DEF OnMainLine, ToSock, ToCheck, ToKey, ToFork, ToApi, ToRpcbind, ToReader, ToNfs,
        hostVars, guestVars, sigVars, HostOnly, Goto, Fail

-----------------------------------------------------------------------------
(* The main line                                                            *)

(* A `?` of the main line returns an error: what HeldInv allows to be left  *)
(* behind is what a failing step has produced or consumed itself.           *)
LEMMA FailKept ==
  ASSUME SessionInv, Fail, HostOnly,
         pc \in {"net", "sock", "check", "key", "fork", "publish", "dns", "rpcbind", "fwd",
                 "detach", "notready"},
         \/ pc # "check" /\ held' = held
         \/ pc \in {"sock", "check"} /\ held' = held \ {"helper"}
         \/ pc = "key" /\ held' = held \cup {"key"}
         \/ pc = "net" /\ held' = held \cup {"helper"}
  PROVE  SessionInv'
<1>1. Stack(deferred') /\ Left' = Left BY LeftActions DEF Left
<1>2. TypeOK'
  <2>1. held' \subseteq Resources BY DEF SessionInv, TypeOK, Resources
  <2>2. QED BY <1>1, <2>1 DEF SessionInv, TypeOK, Points, Stack
<1>3. MainInv' BY <1>1 DEF SessionInv, MainInv
<1>4. HeldInv' BY <1>1 DEF SessionInv, HeldInv, MainInv
<1>5. DirInv' BY <1>1 DEF SessionInv, DirInv, MainInv
<1>6. VmInv' BY <1>1 DEF SessionInv, VmInv, MainInv
<1>7. ReportInv' BY <1>1 DEF SessionInv, ReportInv, MainInv
<1>8. TagInv' BY <1>1 DEF SessionInv, TagInv, MainInv
<1>9. QED BY <1>1, <1>2, <1>3, <1>4, <1>5, <1>6, <1>7, <1>8 DEF SessionInv, Stack

(* The helper runs from here on. *)
LEMMA StartNetHelperKept == ASSUME SessionInv, StartNetHelper PROVE SessionInv'
<1>1. CASE pc = "net" /\ held' = held \cup {"helper"} /\ Goto("sock") /\ UNCHANGED deferred /\ HostOnly
  <2>1. Stack(deferred') /\ Left' = Left
    BY <1>1, LeftActions DEF Left
  <2>2. TypeOK' BY <1>1, <2>1 DEF SessionInv, TypeOK, Points, Resources, Stack
  <2>3. MainInv' BY <1>1, <2>1 DEF SessionInv, MainInv
  <2>4. HeldInv' BY <1>1, <2>1 DEF SessionInv, HeldInv
  <2>5. DirInv' BY <1>1, <2>1 DEF SessionInv, DirInv
  <2>6. VmInv' BY <1>1, <2>1 DEF SessionInv, VmInv
  <2>7. ReportInv' BY <1>1, <2>1 DEF SessionInv, ReportInv
  <2>8. TagInv' BY <1>1, <2>1 DEF SessionInv, TagInv
  <2>9. QED BY <2>1, <2>2, <2>3, <2>4, <2>5, <2>6, <2>7, <2>8 DEF SessionInv, Stack
<1>2. CASE pc = "net" /\ Fail /\ held' \in {held, held \cup {"helper"}} /\ HostOnly
  BY <1>2, FailKept
<1>3. QED BY <1>1, <1>2 DEF StartNetHelper

(* The socket of the helper, and its removal. *)
LEMMA WaitForHelperSocketKept == ASSUME SessionInv, WaitForHelperSocket PROVE SessionInv'
<1>1. CASE /\ pc = "sock" /\ held' = held \cup {"vfkit"}
          /\ deferred' = Add(deferred, "vfkit") /\ Goto("check") /\ HostOnly
  <2>1. Left = {}
    BY <1>1, LeftActions DEF SessionInv, MainInv, Actions
  <2>2. Stack(deferred') /\ Left' = Left \cup {"vfkit"}
    BY <1>1, <2>1, LeftActions, StackAdd, RankValues DEF Left, Actions
  <2>3. TypeOK' BY <1>1, <2>1, <2>2 DEF SessionInv, TypeOK, Points, Resources, Stack
  <2>4. MainInv' BY <1>1, <2>1, <2>2 DEF SessionInv, MainInv
  <2>5. HeldInv' BY <1>1, <2>1, <2>2 DEF SessionInv, HeldInv
  <2>6. DirInv' BY <1>1, <2>1, <2>2 DEF SessionInv, DirInv
  <2>7. VmInv' BY <1>1, <2>1, <2>2 DEF SessionInv, VmInv
  <2>8. ReportInv' BY <1>1, <2>1, <2>2 DEF SessionInv, ReportInv
  <2>9. TagInv' BY <1>1, <2>1, <2>2 DEF SessionInv, TagInv
  <2>10. QED BY <2>2, <2>3, <2>4, <2>5, <2>6, <2>7, <2>8, <2>9 DEF SessionInv, Stack
<1>2. CASE pc = "sock" /\ Fail /\ held' \in {held, held \ {"helper"}} /\ HostOnly
  BY <1>2, FailKept
<1>3. QED BY <1>1, <1>2 DEF WaitForHelperSocket

(* The helper and the vsock are registered. *)
LEMMA CheckHelperKept == ASSUME SessionInv, CheckHelper PROVE SessionInv'
<1>1. CASE /\ pc = "check" /\ deferred' = Add(Add(deferred, "helper"), "vsock")
          /\ Goto("key") /\ UNCHANGED held /\ HostOnly
  <2>1. Left \subseteq {"vfkit"}
    BY <1>1, LeftActions DEF SessionInv, MainInv, Actions
  <2>2. Stack(Add(deferred, "helper")) /\ Range(Add(deferred, "helper")) = Left \cup {"helper"}
    BY <2>1, LeftActions, StackAdd, RankValues DEF Left, Actions
  <2>3. Stack(deferred') /\ Left' = Left \cup {"helper", "vsock"}
    BY <1>1, <2>1, <2>2, StackAdd, RankValues DEF Left, Actions
  <2>4. TypeOK' BY <1>1, <2>1, <2>2, <2>3 DEF SessionInv, TypeOK, Points, Resources, Stack
  <2>5. MainInv' BY <1>1, <2>1, <2>2, <2>3 DEF SessionInv, MainInv
  <2>6. HeldInv' BY <1>1, <2>1, <2>2, <2>3 DEF SessionInv, HeldInv
  <2>7. DirInv' BY <1>1, <2>1, <2>2, <2>3 DEF SessionInv, DirInv
  <2>8. VmInv' BY <1>1, <2>1, <2>2, <2>3 DEF SessionInv, VmInv
  <2>9. ReportInv' BY <1>1, <2>1, <2>2, <2>3 DEF SessionInv, ReportInv
  <2>10. TagInv' BY <1>1, <2>1, <2>2, <2>3 DEF SessionInv, TagInv
  <2>11. QED BY <2>3, <2>4, <2>5, <2>6, <2>7, <2>8, <2>9, <2>10 DEF SessionInv, Stack
<1>2. CASE pc = "check" /\ Fail /\ held' = held \ {"helper"} /\ HostOnly
  BY <1>2, FailKept
<1>3. QED BY <1>1, <1>2 DEF CheckHelper

(* The copy of the key file, and its removal. *)
LEMMA PrepareKeyFileKept == ASSUME SessionInv, PrepareKeyFile PROVE SessionInv'
<1>1. CASE pc = "key" /\ "key_file" \notin opts /\ Goto("fork") /\ UNCHANGED <<deferred, held>> /\ HostOnly
  <2>1. Stack(deferred') /\ Left' = Left
    BY <1>1, LeftActions DEF Left
  <2>2. TypeOK' BY <1>1, <2>1 DEF SessionInv, TypeOK, Points, Resources, Stack
  <2>3. MainInv' BY <1>1, <2>1 DEF SessionInv, MainInv
  <2>4. HeldInv' BY <1>1, <2>1 DEF SessionInv, HeldInv
  <2>5. DirInv' BY <1>1, <2>1 DEF SessionInv, DirInv
  <2>6. VmInv' BY <1>1, <2>1 DEF SessionInv, VmInv
  <2>7. ReportInv' BY <1>1, <2>1 DEF SessionInv, ReportInv
  <2>8. TagInv' BY <1>1, <2>1 DEF SessionInv, TagInv
  <2>9. QED BY <2>1, <2>2, <2>3, <2>4, <2>5, <2>6, <2>7, <2>8 DEF SessionInv, Stack
<1>2. CASE /\ pc = "key" /\ "key_file" \in opts /\ held' = held \cup {"key"}
          /\ deferred' = Add(deferred, "key") /\ Goto("fork") /\ HostOnly
  <2>1. Left \subseteq {"vfkit", "helper", "vsock"}
    BY <1>2, LeftActions DEF SessionInv, MainInv, Actions
  <2>2. Stack(deferred') /\ Left' = Left \cup {"key"}
    BY <1>2, <2>1, LeftActions, StackAdd, RankValues DEF Left, Actions
  <2>3. TypeOK' BY <1>2, <2>1, <2>2 DEF SessionInv, TypeOK, Points, Resources, Stack
  <2>4. MainInv' BY <1>2, <2>1, <2>2 DEF SessionInv, MainInv
  <2>5. HeldInv' BY <1>2, <2>1, <2>2 DEF SessionInv, HeldInv
  <2>6. DirInv' BY <1>2, <2>1, <2>2 DEF SessionInv, DirInv
  <2>7. VmInv' BY <1>2, <2>1, <2>2 DEF SessionInv, VmInv
  <2>8. ReportInv' BY <1>2, <2>1, <2>2 DEF SessionInv, ReportInv
  <2>9. TagInv' BY <1>2, <2>1, <2>2 DEF SessionInv, TagInv
  <2>10. QED BY <2>2, <2>3, <2>4, <2>5, <2>6, <2>7, <2>8, <2>9 DEF SessionInv, Stack
<1>3. CASE pc = "key" /\ Fail /\ held' \in {held, held \cup {"key"}} /\ HostOnly
  BY <1>3, FailKept
<1>4. QED BY <1>1, <1>2, <1>3 DEF PrepareKeyFile

(* The VM, and the wait for it. *)
LEMMA ForkVmKept == ASSUME SessionInv, ForkVm PROVE SessionInv'
<1>1. CASE /\ pc = "fork" /\ vm' = "boot" /\ held' = held \cup {"vsock"}
          /\ deferred' = Add(deferred, "vm_wait") /\ Goto("publish")
          /\ UNCHANGED <<raw, printed, tag, sigVars, opts, api, reader, quit, sub,
                         report, share, ctrlc, comm, fg>>
  <2>1. Left \subseteq {"vfkit", "helper", "vsock", "key"}
    BY <1>1, LeftActions DEF SessionInv, MainInv, Actions
  <2>2. Stack(deferred') /\ Left' = Left \cup {"vm_wait"}
    BY <1>1, <2>1, LeftActions, StackAdd, RankValues DEF Left, Actions
  <2>3. TypeOK' BY <1>1, <2>1, <2>2 DEF SessionInv, TypeOK, Points, Resources, Stack, VmStates
  <2>4. MainInv' BY <1>1, <2>1, <2>2 DEF SessionInv, MainInv
  <2>5. HeldInv' BY <1>1, <2>1, <2>2 DEF SessionInv, HeldInv, MainInv
  <2>6. DirInv' BY <1>1, <2>1, <2>2 DEF SessionInv, DirInv
  <2>7. VmInv' BY <1>1, <2>1, <2>2 DEF SessionInv, VmInv, MainInv
  <2>8. ReportInv' BY <1>1, <2>1, <2>2 DEF SessionInv, ReportInv, MainInv
  <2>9. TagInv' BY <1>1, <2>1, <2>2 DEF SessionInv, TagInv, VmInv
  <2>10. QED BY <2>2, <2>3, <2>4, <2>5, <2>6, <2>7, <2>8, <2>9 DEF SessionInv, Stack
<1>2. CASE pc = "fork" /\ Fail /\ UNCHANGED held /\ HostOnly
  BY <1>2, FailKept
<1>3. QED BY <1>1, <1>2 DEF ForkVm

(* The main line goes on, and only the subscriber of the signal hub changes. *)
LEMMA MoveKept ==
  ASSUME SessionInv, hub' \in {"none", "fwd", "session"},
         <<pc, pc'>> \in {<<"publish", "dns">>, <<"dns", "api">>, <<"unsub", "sub">>, <<"sub", "mount">>},
         UNCHANGED <<errAt, code, nfs, seen, deferred, held, guestVars, fwdq, sesq, sent, opts, api,
                     reader, quit, sub, report, share, ctrlc, comm, fg>>
  PROVE  SessionInv'
<1>1. Stack(deferred') /\ Left' = Left BY LeftActions DEF Left
<1>2. TypeOK' BY <1>1 DEF SessionInv, TypeOK, Points, Resources, Stack
<1>3. MainInv' BY <1>1 DEF SessionInv, MainInv
<1>4. HeldInv' BY <1>1 DEF SessionInv, HeldInv
<1>5. DirInv' BY <1>1 DEF SessionInv, DirInv
<1>6. VmInv' BY <1>1 DEF SessionInv, VmInv
<1>7. ReportInv' BY <1>1 DEF SessionInv, ReportInv
<1>8. TagInv' BY <1>1 DEF SessionInv, TagInv
<1>9. QED BY <1>1, <1>2, <1>3, <1>4, <1>5, <1>6, <1>7, <1>8 DEF SessionInv, Stack

(* Calls that only may fail. *)
LEMMA SetupHostKept == ASSUME SessionInv, SetupHost PROVE SessionInv'
<1>1. UNCHANGED <<deferred, held>> /\ HostOnly BY DEF SetupHost
<1>2. hub \in {"none", "fwd", "session"} BY DEF SessionInv, TypeOK
<1>3. CASE pc = "publish" /\ Goto("dns") BY <1>1, <1>2, <1>3, MoveKept
<1>4. CASE pc = "dns" /\ Goto("api") BY <1>1, <1>2, <1>4, MoveKept
<1>5. CASE pc \in {"publish", "dns"} /\ Fail BY <1>1, <1>5, FailKept
<1> HIDE DEF HostOnly, Goto, Fail
<1>6. QED BY <1>3, <1>4, <1>5 DEF SetupHost

(* The listener thread, and the removal of its socket. *)
LEMMA ServeApiKept == ASSUME SessionInv, ServeApi PROVE SessionInv'
<1>1. CASE /\ pc = "api" /\ api' = "starting" /\ deferred' = Add(deferred, "api") /\ Goto("rpcbind")
          /\ UNCHANGED <<held, guestVars, sigVars, opts, reader, quit, sub, report,
                         share, ctrlc, comm, fg>>
  <2>1. Left \subseteq {"vfkit", "helper", "vsock", "key", "vm_wait"}
    BY <1>1, LeftActions DEF SessionInv, MainInv, Actions
  <2>2. Stack(deferred') /\ Left' = Left \cup {"api"}
    BY <1>1, <2>1, LeftActions, StackAdd, RankValues DEF Left, Actions
  <2>3. TypeOK' BY <1>1, <2>1, <2>2 DEF SessionInv, TypeOK, Points, Resources, Stack
  <2>4. MainInv' BY <1>1, <2>1, <2>2 DEF SessionInv, MainInv
  <2>5. HeldInv' BY <1>1, <2>1, <2>2 DEF SessionInv, HeldInv
  <2>6. DirInv' BY <1>1, <2>1, <2>2 DEF SessionInv, DirInv
  <2>7. VmInv' BY <1>1, <2>1, <2>2 DEF SessionInv, VmInv
  <2>8. ReportInv' BY <1>1, <2>1, <2>2 DEF SessionInv, ReportInv
  <2>9. TagInv' BY <1>1, <2>1, <2>2 DEF SessionInv, TagInv
  <2>10. QED BY <2>2, <2>3, <2>4, <2>5, <2>6, <2>7, <2>8, <2>9 DEF SessionInv, Stack
<1>2. QED BY <1>1 DEF ServeApi

(* The displaced services, and their restoration. *)
LEMMA SetupRpcbindKept == ASSUME SessionInv, SetupRpcbind PROVE SessionInv'
<1>1. CASE /\ pc = "rpcbind" /\ "rpcbind" \notin opts /\ Goto("reader")
          /\ UNCHANGED <<deferred, held>> /\ HostOnly
  <2>1. Stack(deferred') /\ Left' = Left
    BY <1>1, LeftActions DEF Left
  <2>2. TypeOK' BY <1>1, <2>1 DEF SessionInv, TypeOK, Points, Resources, Stack
  <2>3. MainInv' BY <1>1, <2>1 DEF SessionInv, MainInv
  <2>4. HeldInv' BY <1>1, <2>1 DEF SessionInv, HeldInv
  <2>5. DirInv' BY <1>1, <2>1 DEF SessionInv, DirInv
  <2>6. VmInv' BY <1>1, <2>1 DEF SessionInv, VmInv
  <2>7. ReportInv' BY <1>1, <2>1 DEF SessionInv, ReportInv
  <2>8. TagInv' BY <1>1, <2>1 DEF SessionInv, TagInv
  <2>9. QED BY <2>1, <2>2, <2>3, <2>4, <2>5, <2>6, <2>7, <2>8 DEF SessionInv, Stack
<1>2. CASE /\ pc = "rpcbind" /\ "rpcbind" \in opts /\ held' = held \cup {"rpc"}
          /\ deferred' = Add(deferred, "rpc") /\ Goto("reader") /\ HostOnly
  <2>1. Left \subseteq {"vfkit", "helper", "vsock", "key", "vm_wait", "api"}
    BY <1>2, LeftActions DEF SessionInv, MainInv, Actions
  <2>2. Stack(deferred') /\ Left' = Left \cup {"rpc"}
    BY <1>2, <2>1, LeftActions, StackAdd, RankValues DEF Left, Actions
  <2>3. TypeOK' BY <1>2, <2>1, <2>2 DEF SessionInv, TypeOK, Points, Resources, Stack
  <2>4. MainInv' BY <1>2, <2>1, <2>2 DEF SessionInv, MainInv
  <2>5. HeldInv' BY <1>2, <2>1, <2>2 DEF SessionInv, HeldInv
  <2>6. DirInv' BY <1>2, <2>1, <2>2 DEF SessionInv, DirInv
  <2>7. VmInv' BY <1>2, <2>1, <2>2 DEF SessionInv, VmInv
  <2>8. ReportInv' BY <1>2, <2>1, <2>2 DEF SessionInv, ReportInv
  <2>9. TagInv' BY <1>2, <2>1, <2>2 DEF SessionInv, TagInv
  <2>10. QED BY <2>2, <2>3, <2>4, <2>5, <2>6, <2>7, <2>8, <2>9 DEF SessionInv, Stack
<1>3. CASE /\ pc = "rpcbind" /\ "rpcbind" \in opts /\ held' = held \cup {"rpc"}
          /\ deferred' = Add(deferred, "rpc") /\ HostOnly
          /\ errAt' = pc /\ pc' = "unwind" /\ code' = 1 /\ UNCHANGED <<nfs, seen>>
  <2>1. Left \subseteq {"vfkit", "helper", "vsock", "key", "vm_wait", "api"}
    BY <1>3, LeftActions DEF SessionInv, MainInv, Actions
  <2>2. Stack(deferred') /\ Left' = Left \cup {"rpc"}
    BY <1>3, <2>1, LeftActions, StackAdd, RankValues DEF Left, Actions
  <2>3. TypeOK' BY <1>3, <2>1, <2>2 DEF SessionInv, TypeOK, Points, Resources, Stack
  <2>4. MainInv' BY <1>3, <2>1, <2>2 DEF SessionInv, MainInv
  <2>5. HeldInv' BY <1>3, <2>1, <2>2 DEF SessionInv, HeldInv, MainInv
  <2>6. DirInv' BY <1>3, <2>1, <2>2 DEF SessionInv, DirInv, MainInv
  <2>7. VmInv' BY <1>3, <2>1, <2>2 DEF SessionInv, VmInv, MainInv
  <2>8. ReportInv' BY <1>3, <2>1, <2>2 DEF SessionInv, ReportInv, MainInv
  <2>9. TagInv' BY <1>3, <2>1, <2>2 DEF SessionInv, TagInv, MainInv
  <2>10. QED BY <2>2, <2>3, <2>4, <2>5, <2>6, <2>7, <2>8, <2>9 DEF SessionInv, Stack
<1>4. CASE pc = "rpcbind" /\ Fail /\ UNCHANGED held /\ HostOnly
  BY <1>4, FailKept
<1>5. QED BY <1>1, <1>2, <1>3, <1>4 DEF SetupRpcbind

(* PtyReader, and the report. *)
LEMMA SpawnPtyReaderKept == ASSUME SessionInv, SpawnPtyReader PROVE SessionInv'
<1>1. CASE /\ pc = "reader" /\ reader' = "reading" /\ deferred' = Add(deferred, "report") /\ Goto("fwd")
          /\ UNCHANGED <<held, guestVars, sigVars, opts, api, quit, sub, report,
                         share, ctrlc, comm, fg>>
  <2>1. Left \subseteq {"vfkit", "helper", "vsock", "key", "vm_wait", "api", "rpc"}
    BY <1>1, LeftActions DEF SessionInv, MainInv, Actions
  <2>2. Stack(deferred') /\ Left' = Left \cup {"report"}
    BY <1>1, <2>1, LeftActions, StackAdd, RankValues DEF Left, Actions
  <2>3. TypeOK' BY <1>1, <2>1, <2>2 DEF SessionInv, TypeOK, Points, Resources, Stack
  <2>4. MainInv' BY <1>1, <2>1, <2>2 DEF SessionInv, MainInv
  <2>5. HeldInv' BY <1>1, <2>1, <2>2 DEF SessionInv, HeldInv
  <2>6. DirInv' BY <1>1, <2>1, <2>2 DEF SessionInv, DirInv
  <2>7. VmInv' BY <1>1, <2>1, <2>2 DEF SessionInv, VmInv
  <2>8. ReportInv' BY <1>1, <2>1, <2>2 DEF SessionInv, ReportInv
  <2>9. TagInv' BY <1>1, <2>1, <2>2 DEF SessionInv, TagInv
  <2>10. QED BY <2>2, <2>3, <2>4, <2>5, <2>6, <2>7, <2>8, <2>9 DEF SessionInv, Stack
<1>2. QED BY <1>1 DEF SpawnPtyReader

(* The forwarder of standard input and signals. *)
LEMMA StartForwarderKept == ASSUME SessionInv, StartForwarder PROVE SessionInv'
<1>1. CASE /\ pc = "fwd" /\ hub' = "fwd" /\ deferred' = Add(deferred, "stop_fwd") /\ Goto("nfs")
          /\ UNCHANGED <<held, guestVars, fwdq, sesq, sent, opts, api, reader, quit,
                         sub, report, share, ctrlc, comm, fg>>
  <2>1. Left \subseteq {"vfkit", "helper", "vsock", "key", "vm_wait", "api", "rpc", "report"}
    BY <1>1, LeftActions DEF SessionInv, MainInv, Actions
  <2>2. Stack(deferred') /\ Left' = Left \cup {"stop_fwd"}
    BY <1>1, <2>1, LeftActions, StackAdd, RankValues DEF Left, Actions
  <2>3. TypeOK' BY <1>1, <2>1, <2>2 DEF SessionInv, TypeOK, Points, Resources, Stack
  <2>4. MainInv' BY <1>1, <2>1, <2>2 DEF SessionInv, MainInv
  <2>5. HeldInv' BY <1>1, <2>1, <2>2 DEF SessionInv, HeldInv
  <2>6. DirInv' BY <1>1, <2>1, <2>2 DEF SessionInv, DirInv
  <2>7. VmInv' BY <1>1, <2>1, <2>2 DEF SessionInv, VmInv
  <2>8. ReportInv' BY <1>1, <2>1, <2>2 DEF SessionInv, ReportInv
  <2>9. TagInv' BY <1>1, <2>1, <2>2 DEF SessionInv, TagInv
  <2>10. QED BY <2>2, <2>3, <2>4, <2>5, <2>6, <2>7, <2>8, <2>9 DEF SessionInv, Stack
<1>2. CASE pc = "fwd" /\ Fail /\ UNCHANGED held /\ HostOnly
  BY <1>2, FailKept
<1>3. QED BY <1>1, <1>2 DEF StartForwarder

(* A ready server registers the quit action. *)
LEMMA WaitForNfsServerKept == ASSUME SessionInv, WaitForNfsServer PROVE SessionInv'
<1>1. CASE /\ pc = "nfs" /\ api # "starting" /\ reader = "ready" /\ nfs' = "ready"
          /\ deferred' = Add(deferred, "quit") /\ pc' = "unsub"
          /\ UNCHANGED <<held, errAt, code, seen>> /\ HostOnly
  <2>1. Left \subseteq {"vfkit", "helper", "vsock", "key", "vm_wait", "api", "rpc", "report", "stop_fwd"}
    BY <1>1, LeftActions DEF SessionInv, MainInv, Actions
  <2>2. Stack(deferred') /\ Left' = Left \cup {"quit"}
    BY <1>1, <2>1, LeftActions, StackAdd, RankValues DEF Left, Actions
  <2>3. TypeOK' BY <1>1, <2>1, <2>2 DEF SessionInv, TypeOK, Points, Resources, Stack
  <2>4. MainInv' BY <1>1, <2>1, <2>2 DEF SessionInv, MainInv
  <2>5. HeldInv' BY <1>1, <2>1, <2>2 DEF SessionInv, HeldInv
  <2>6. DirInv' BY <1>1, <2>1, <2>2 DEF SessionInv, DirInv
  <2>7. VmInv' BY <1>1, <2>1, <2>2 DEF SessionInv, VmInv
  <2>8. ReportInv' BY <1>1, <2>1, <2>2 DEF SessionInv, ReportInv
  <2>9. TagInv' BY <1>1, <2>1, <2>2 DEF SessionInv, TagInv
  <2>10. QED BY <2>2, <2>3, <2>4, <2>5, <2>6, <2>7, <2>8, <2>9 DEF SessionInv, Stack
<1>2. CASE /\ pc = "nfs" /\ api # "starting" /\ reader \in {"ready", "failed", "cut"} /\ nfs' = "failed"
          /\ pc' = "notready"
          /\ UNCHANGED <<deferred, held, errAt, code, seen>> /\ HostOnly
  <2>1. Stack(deferred') /\ Left' = Left
    BY <1>2, LeftActions DEF Left
  <2>2. TypeOK' BY <1>2, <2>1 DEF SessionInv, TypeOK, Points, Resources, Stack
  <2>3. MainInv' BY <1>2, <2>1 DEF SessionInv, MainInv
  <2>4. HeldInv' BY <1>2, <2>1 DEF SessionInv, HeldInv
  <2>5. DirInv' BY <1>2, <2>1 DEF SessionInv, DirInv
  <2>6. VmInv' BY <1>2, <2>1 DEF SessionInv, VmInv
  <2>7. ReportInv' BY <1>2, <2>1 DEF SessionInv, ReportInv
  <2>8. TagInv' BY <1>2, <2>1 DEF SessionInv, TagInv
  <2>9. QED BY <2>1, <2>2, <2>3, <2>4, <2>5, <2>6, <2>7, <2>8 DEF SessionInv, Stack
<1>3. QED BY <1>1, <1>2 DEF WaitForNfsServer

(* From the forwarder to EventSession. *)
LEMMA SwitchSubscriberKept == ASSUME SessionInv, SwitchSubscriber PROVE SessionInv'
<1>1. UNCHANGED <<deferred, held, guestVars, fwdq, sesq, sent, opts, api, reader, quit, sub, report,
                  share, ctrlc, comm, fg>>
  BY DEF SwitchSubscriber
<1>2. CASE pc = "unsub" /\ hub' = "none" /\ Goto("sub") BY <1>1, <1>2, MoveKept
<1>3. CASE pc = "sub" /\ hub' = "session" /\ Goto("mount") BY <1>1, <1>3, MoveKept
<1> HIDE DEF Goto
<1>4. QED BY <1>2, <1>3 DEF SwitchSubscriber

(* The mount request; without a mount the forwarder is stopped. *)
LEMMA RequestMountKept == ASSUME SessionInv, RequestMount PROVE SessionInv'
<1>1. CASE /\ pc = "mount" /\ share' = TRUE /\ Goto("wait_mount") /\ UNCHANGED <<deferred, held>>
          /\ "auto_dir" \notin opts
          /\ UNCHANGED <<guestVars, sigVars, opts, api, reader, quit, sub, report,
                         ctrlc, comm, fg>>
  <2>1. Stack(deferred') /\ Left' = Left
    BY <1>1, LeftActions DEF Left
  <2>2. TypeOK' BY <1>1, <2>1 DEF SessionInv, TypeOK, Points, Resources, Stack
  <2>3. MainInv' BY <1>1, <2>1 DEF SessionInv, MainInv
  <2>4. HeldInv' BY <1>1, <2>1 DEF SessionInv, HeldInv
  <2>5. DirInv' BY <1>1, <2>1 DEF SessionInv, DirInv
  <2>6. VmInv' BY <1>1, <2>1 DEF SessionInv, VmInv
  <2>7. ReportInv' BY <1>1, <2>1 DEF SessionInv, ReportInv
  <2>8. TagInv' BY <1>1, <2>1 DEF SessionInv, TagInv
  <2>9. QED BY <2>1, <2>2, <2>3, <2>4, <2>5, <2>6, <2>7, <2>8 DEF SessionInv, Stack
<1>2. CASE /\ pc = "mount" /\ share' = TRUE /\ Goto("wait_mount") /\ UNCHANGED deferred
          /\ "auto_dir" \in opts /\ held' = held \cup {"dir"}
          /\ UNCHANGED <<guestVars, sigVars, opts, api, reader, quit, sub, report,
                         ctrlc, comm, fg>>
  <2>1. Stack(deferred') /\ Left' = Left
    BY <1>2, LeftActions DEF Left
  <2>2. TypeOK' BY <1>2, <2>1 DEF SessionInv, TypeOK, Points, Resources, Stack
  <2>3. MainInv' BY <1>2, <2>1 DEF SessionInv, MainInv
  <2>4. HeldInv' BY <1>2, <2>1 DEF SessionInv, HeldInv
  <2>5. DirInv' BY <1>2, <2>1 DEF SessionInv, DirInv
  <2>6. VmInv' BY <1>2, <2>1 DEF SessionInv, VmInv
  <2>7. ReportInv' BY <1>2, <2>1 DEF SessionInv, ReportInv
  <2>8. TagInv' BY <1>2, <2>1 DEF SessionInv, TagInv
  <2>9. QED BY <2>1, <2>2, <2>3, <2>4, <2>5, <2>6, <2>7, <2>8 DEF SessionInv, Stack
<1>3. CASE /\ pc = "mount" /\ share' \in BOOLEAN /\ ~share' /\ Goto("detach")
          /\ deferred' = PopAction(deferred, "stop_fwd") /\ UNCHANGED held
          /\ UNCHANGED <<guestVars, sigVars, opts, api, reader, quit, sub, report,
                         ctrlc, comm, fg>>
  <2>1. Stack(deferred') /\ Left' = Left \ {"stop_fwd"}
    BY <1>3, LeftActions, StackPop DEF Left
  <2>2. TypeOK' BY <1>3, <2>1 DEF SessionInv, TypeOK, Points, Resources, Stack
  <2>3. MainInv' BY <1>3, <2>1 DEF SessionInv, MainInv
  <2>4. HeldInv' BY <1>3, <2>1 DEF SessionInv, HeldInv
  <2>5. DirInv' BY <1>3, <2>1 DEF SessionInv, DirInv
  <2>6. VmInv' BY <1>3, <2>1 DEF SessionInv, VmInv
  <2>7. ReportInv' BY <1>3, <2>1 DEF SessionInv, ReportInv
  <2>8. TagInv' BY <1>3, <2>1 DEF SessionInv, TagInv
  <2>9. QED BY <2>1, <2>2, <2>3, <2>4, <2>5, <2>6, <2>7, <2>8 DEF SessionInv, Stack
<1>4. CASE /\ pc = "mount" /\ share' \in BOOLEAN /\ ~share' /\ Goto("detach")
          /\ deferred' = PopAction(deferred, "stop_fwd")
          /\ "auto_dir" \in opts /\ held' = held \cup {"dir"}
          /\ UNCHANGED <<guestVars, sigVars, opts, api, reader, quit, sub, report,
                         ctrlc, comm, fg>>
  <2>1. Stack(deferred') /\ Left' = Left \ {"stop_fwd"}
    BY <1>4, LeftActions, StackPop DEF Left
  <2>2. TypeOK' BY <1>4, <2>1 DEF SessionInv, TypeOK, Points, Resources, Stack
  <2>3. MainInv' BY <1>4, <2>1 DEF SessionInv, MainInv
  <2>4. HeldInv' BY <1>4, <2>1 DEF SessionInv, HeldInv
  <2>5. DirInv' BY <1>4, <2>1 DEF SessionInv, DirInv
  <2>6. VmInv' BY <1>4, <2>1 DEF SessionInv, VmInv
  <2>7. ReportInv' BY <1>4, <2>1 DEF SessionInv, ReportInv
  <2>8. TagInv' BY <1>4, <2>1 DEF SessionInv, TagInv
  <2>9. QED BY <2>1, <2>2, <2>3, <2>4, <2>5, <2>6, <2>7, <2>8 DEF SessionInv, Stack
<1>5. QED BY <1>1, <1>2, <1>3, <1>4 DEF RequestMount

(* The mount is seen, or a signal or the deadline comes first. *)
LEMMA WaitForMountKept == ASSUME SessionInv, WaitForMount PROVE SessionInv'
<1>1. CASE /\ pc = "wait_mount" /\ pc' = "detach" /\ seen' = TRUE /\ "auto_dir" \in opts
          /\ deferred' = Add(PopAction(deferred, "stop_fwd"), "dir")
          /\ UNCHANGED <<held, errAt, code, nfs, guestVars, sigVars, opts,
                         api, reader, quit, sub, report, share, ctrlc, comm, fg>>
  <2>1. Left \subseteq Actions \ {"dir"}
    BY <1>1, LeftActions DEF SessionInv, MainInv
  <2>2. /\ Stack(PopAction(deferred, "stop_fwd"))
        /\ Range(PopAction(deferred, "stop_fwd")) = Left \ {"stop_fwd"}
    BY LeftActions, StackPop DEF Left
  <2>3. Stack(deferred') /\ Left' = (Left \ {"stop_fwd"}) \cup {"dir"}
    BY <1>1, <2>1, <2>2, StackAdd, RankValues DEF Left, Actions
  <2>4. TypeOK' BY <1>1, <2>1, <2>2, <2>3 DEF SessionInv, TypeOK, Points, Resources, Stack
  <2>5. MainInv' BY <1>1, <2>1, <2>2, <2>3 DEF SessionInv, MainInv
  <2>6. HeldInv' BY <1>1, <2>1, <2>2, <2>3 DEF SessionInv, HeldInv
  <2>7. DirInv' BY <1>1, <2>1, <2>2, <2>3 DEF SessionInv, DirInv
  <2>8. VmInv' BY <1>1, <2>1, <2>2, <2>3 DEF SessionInv, VmInv
  <2>9. ReportInv' BY <1>1, <2>1, <2>2, <2>3 DEF SessionInv, ReportInv
  <2>10. TagInv' BY <1>1, <2>1, <2>2, <2>3 DEF SessionInv, TagInv
  <2>11. QED BY <2>3, <2>4, <2>5, <2>6, <2>7, <2>8, <2>9, <2>10 DEF SessionInv, Stack
<1>2. CASE /\ pc = "wait_mount" /\ pc' = "detach" /\ seen' = TRUE /\ "auto_dir" \notin opts
          /\ deferred' = PopAction(deferred, "stop_fwd")
          /\ UNCHANGED <<held, errAt, code, nfs, guestVars, sigVars, opts,
                         api, reader, quit, sub, report, share, ctrlc, comm, fg>>
  <2>1. Stack(deferred') /\ Left' = Left \ {"stop_fwd"}
    BY <1>2, LeftActions, StackPop DEF Left
  <2>2. TypeOK' BY <1>2, <2>1 DEF SessionInv, TypeOK, Points, Resources, Stack
  <2>3. MainInv' BY <1>2, <2>1 DEF SessionInv, MainInv
  <2>4. HeldInv' BY <1>2, <2>1 DEF SessionInv, HeldInv
  <2>5. DirInv' BY <1>2, <2>1 DEF SessionInv, DirInv
  <2>6. VmInv' BY <1>2, <2>1 DEF SessionInv, VmInv
  <2>7. ReportInv' BY <1>2, <2>1 DEF SessionInv, ReportInv
  <2>8. TagInv' BY <1>2, <2>1 DEF SessionInv, TagInv
  <2>9. QED BY <2>1, <2>2, <2>3, <2>4, <2>5, <2>6, <2>7, <2>8 DEF SessionInv, Stack
<1>3. CASE /\ pc = "wait_mount" /\ pc' = "detach" /\ seen' \in BOOLEAN /\ ~seen' /\ sesq' \in BOOLEAN /\ ~sesq'
          /\ deferred' = PopAction(deferred, "stop_fwd")
          /\ UNCHANGED <<held, errAt, code, nfs, guestVars, hub, fwdq, sent, opts,
                         api, reader, quit, sub, report, share, ctrlc, comm, fg>>
  <2>1. Stack(deferred') /\ Left' = Left \ {"stop_fwd"}
    BY <1>3, LeftActions, StackPop DEF Left
  <2>2. TypeOK' BY <1>3, <2>1 DEF SessionInv, TypeOK, Points, Resources, Stack
  <2>3. MainInv' BY <1>3, <2>1 DEF SessionInv, MainInv
  <2>4. HeldInv' BY <1>3, <2>1 DEF SessionInv, HeldInv
  <2>5. DirInv' BY <1>3, <2>1 DEF SessionInv, DirInv
  <2>6. VmInv' BY <1>3, <2>1 DEF SessionInv, VmInv
  <2>7. ReportInv' BY <1>3, <2>1 DEF SessionInv, ReportInv
  <2>8. TagInv' BY <1>3, <2>1 DEF SessionInv, TagInv
  <2>9. QED BY <2>1, <2>2, <2>3, <2>4, <2>5, <2>6, <2>7, <2>8 DEF SessionInv, Stack
<1>4. QED BY <1>1, <1>2, <1>3 DEF WaitForMount

(* The command to the foreground process. *)
LEMMA DetachKept == ASSUME SessionInv, Detach PROVE SessionInv'
<1>1. CASE /\ pc = "detach" /\ Goto("wait_unmount") /\ UNCHANGED deferred
          /\ comm' \in {"detach", "join"}
          /\ UNCHANGED <<held, guestVars, sigVars, opts, api, reader, quit, sub,
                         report, share, ctrlc, fg>>
  <2>1. Stack(deferred') /\ Left' = Left
    BY <1>1, LeftActions DEF Left
  <2>2. TypeOK' BY <1>1, <2>1 DEF SessionInv, TypeOK, Points, Resources, Stack
  <2>3. MainInv' BY <1>1, <2>1 DEF SessionInv, MainInv
  <2>4. HeldInv' BY <1>1, <2>1 DEF SessionInv, HeldInv
  <2>5. DirInv' BY <1>1, <2>1 DEF SessionInv, DirInv
  <2>6. VmInv' BY <1>1, <2>1 DEF SessionInv, VmInv
  <2>7. ReportInv' BY <1>1, <2>1 DEF SessionInv, ReportInv
  <2>8. TagInv' BY <1>1, <2>1 DEF SessionInv, TagInv
  <2>9. QED BY <2>1, <2>2, <2>3, <2>4, <2>5, <2>6, <2>7, <2>8 DEF SessionInv, Stack
<1>2. CASE pc = "detach" /\ Fail /\ UNCHANGED held /\ HostOnly
  BY <1>2, FailKept
<1>3. QED BY <1>1, <1>2 DEF Detach

(* A mounted share is unmounted, or a signal has come. *)
LEMMA WaitForUnmountKept == ASSUME SessionInv, WaitForUnmount PROVE SessionInv'
<1>1. CASE /\ pc = "wait_unmount" /\ sesq' \in BOOLEAN /\ ~sesq' /\ Goto("quit")
          /\ UNCHANGED <<deferred, held, guestVars, hub, fwdq, sent, opts, api,
                         reader, quit, sub, report, share, ctrlc, comm, fg>>
  <2>1. Stack(deferred') /\ Left' = Left
    BY <1>1, LeftActions DEF Left
  <2>2. TypeOK' BY <1>1, <2>1 DEF SessionInv, TypeOK, Points, Resources, Stack
  <2>3. MainInv' BY <1>1, <2>1 DEF SessionInv, MainInv
  <2>4. HeldInv' BY <1>1, <2>1 DEF SessionInv, HeldInv
  <2>5. DirInv' BY <1>1, <2>1 DEF SessionInv, DirInv, WaitForUnmount
  <2>6. VmInv' BY <1>1, <2>1 DEF SessionInv, VmInv
  <2>7. ReportInv' BY <1>1, <2>1 DEF SessionInv, ReportInv
  <2>8. TagInv' BY <1>1, <2>1 DEF SessionInv, TagInv
  <2>9. QED BY <2>1, <2>2, <2>3, <2>4, <2>5, <2>6, <2>7, <2>8 DEF SessionInv, Stack
<1>2. QED BY <1>1 DEF WaitForUnmount

(* The Quit request of the main line. *)
LEMMA SendQuitCmdKept == ASSUME SessionInv, SendQuitCmd PROVE SessionInv'
<1>1. CASE /\ pc = "quit" /\ deferred' = PopAction(deferred, "quit") /\ Goto("wait_vm")
          /\ quit' = "received"
          /\ UNCHANGED <<held, guestVars, sigVars, opts, api, reader, sub, report,
                         share, ctrlc, comm, fg>>
  <2>1. Stack(deferred') /\ Left' = Left \ {"quit"}
    BY <1>1, LeftActions, StackPop DEF Left
  <2>2. TypeOK' BY <1>1, <2>1 DEF SessionInv, TypeOK, Points, Resources, Stack
  <2>3. MainInv' BY <1>1, <2>1 DEF SessionInv, MainInv
  <2>4. HeldInv' BY <1>1, <2>1 DEF SessionInv, HeldInv
  <2>5. DirInv' BY <1>1, <2>1 DEF SessionInv, DirInv
  <2>6. VmInv' BY <1>1, <2>1 DEF SessionInv, VmInv
  <2>7. ReportInv' BY <1>1, <2>1 DEF SessionInv, ReportInv
  <2>8. TagInv' BY <1>1, <2>1 DEF SessionInv, TagInv
  <2>9. QED BY <2>1, <2>2, <2>3, <2>4, <2>5, <2>6, <2>7, <2>8 DEF SessionInv, Stack
<1>2. CASE /\ pc = "quit" /\ deferred' = PopAction(deferred, "quit")
          /\ quit' \in {"received", "lost"}
          /\ errAt' = pc /\ pc' = "unwind" /\ code' = 1
          /\ UNCHANGED <<nfs, seen, held, guestVars, sigVars, opts, api, reader, sub, report,
                         share, ctrlc, comm, fg>>
  <2>1. Stack(deferred') /\ Left' = Left \ {"quit"}
    BY <1>2, LeftActions, StackPop DEF Left
  <2>2. TypeOK' BY <1>2, <2>1 DEF SessionInv, TypeOK, Points, Resources, Stack
  <2>3. MainInv' BY <1>2, <2>1 DEF SessionInv, MainInv
  <2>4. HeldInv' BY <1>2, <2>1 DEF SessionInv, HeldInv, MainInv
  <2>5. DirInv' BY <1>2, <2>1 DEF SessionInv, DirInv, MainInv
  <2>6. VmInv' BY <1>2, <2>1 DEF SessionInv, VmInv, MainInv
  <2>7. ReportInv' BY <1>2, <2>1 DEF SessionInv, ReportInv, MainInv
  <2>8. TagInv' BY <1>2, <2>1 DEF SessionInv, TagInv, MainInv
  <2>9. QED BY <2>1, <2>2, <2>3, <2>4, <2>5, <2>6, <2>7, <2>8 DEF SessionInv, Stack
<1>3. QED BY <1>1, <1>2 DEF SendQuitCmd, QuitArrives, QuitLost

(* Without NFS the foreground process waits for the end. *)
LEMMA JoinForegroundKept == ASSUME SessionInv, JoinForeground PROVE SessionInv'
<1>1. CASE /\ pc = "notready" /\ comm' = "join" /\ Goto("wait_vm") /\ UNCHANGED deferred
          /\ UNCHANGED <<held, guestVars, sigVars, opts, api, reader, quit, sub,
                         report, share, ctrlc, fg>>
  <2>1. Stack(deferred') /\ Left' = Left
    BY <1>1, LeftActions DEF Left
  <2>2. TypeOK' BY <1>1, <2>1 DEF SessionInv, TypeOK, Points, Resources, Stack
  <2>3. MainInv' BY <1>1, <2>1 DEF SessionInv, MainInv
  <2>4. HeldInv' BY <1>1, <2>1 DEF SessionInv, HeldInv
  <2>5. DirInv' BY <1>1, <2>1 DEF SessionInv, DirInv
  <2>6. VmInv' BY <1>1, <2>1 DEF SessionInv, VmInv
  <2>7. ReportInv' BY <1>1, <2>1 DEF SessionInv, ReportInv
  <2>8. TagInv' BY <1>1, <2>1 DEF SessionInv, TagInv
  <2>9. QED BY <2>1, <2>2, <2>3, <2>4, <2>5, <2>6, <2>7, <2>8 DEF SessionInv, Stack
<1>2. CASE pc = "notready" /\ Fail /\ UNCHANGED held /\ HostOnly
  BY <1>2, FailKept
<1>3. QED BY <1>1, <1>2 DEF JoinForeground

(* The main line reaps the VM; a failed guest gives it a failing exit code. *)
LEMMA WaitForVmKept == ASSUME SessionInv, WaitForVm PROVE SessionInv'
<1>1. CASE /\ pc = "wait_vm" /\ vm = "exited" /\ vm' = "reaped" /\ pc' = "unwind" /\ code' = VmExitCode
          /\ deferred' = PopAction(deferred, "vm_wait")
          /\ UNCHANGED <<held, errAt, nfs, seen, raw, printed, tag, sigVars, opts,
                         api, reader, quit, sub, report, share, ctrlc, comm, fg>>
  <2>1. Stack(deferred') /\ Left' = Left \ {"vm_wait"}
    BY <1>1, LeftActions, StackPop DEF Left
  <2>2. tag => reader \in {"failed", "cut"} /\ raw # 256
    BY <1>1, LeftActions DEF SessionInv, TagInv, TypeOK
  <2>3. VmExitCode \in 0..255 /\ (tag => VmExitCode # 0 \/ reader = "cut")
    BY <1>1, <2>2, LeftActions DEF SessionInv, TypeOK, RawStatuses, VmExitCode, ProcessExit
  <2>4. TypeOK' BY <1>1, <2>1, <2>2, <2>3 DEF SessionInv, TypeOK, Points, Resources, Stack, VmStates
  <2>5. MainInv' BY <1>1, <2>1, <2>2, <2>3 DEF SessionInv, MainInv
  <2>6. HeldInv' BY <1>1, <2>1, <2>2, <2>3 DEF SessionInv, HeldInv, MainInv
  <2>7. DirInv' BY <1>1, <2>1, <2>2, <2>3 DEF SessionInv, DirInv, MainInv
  <2>8. VmInv' BY <1>1, <2>1, <2>2, <2>3 DEF SessionInv, VmInv, MainInv
  <2>9. ReportInv' BY <1>1, <2>1, <2>2, <2>3 DEF SessionInv, ReportInv, MainInv
  <2>10. TagInv' BY <1>1, <2>1, <2>2, <2>3 DEF SessionInv, TagInv, MainInv
  <2>11. QED BY <2>1, <2>4, <2>5, <2>6, <2>7, <2>8, <2>9, <2>10 DEF SessionInv, Stack
<1>2. QED BY <1>1 DEF WaitForVm

(* A resource is removed; those of the VM come after the wait for it. *)
LEMMA UnwindResourceKept == ASSUME SessionInv, UnwindResource PROVE SessionInv'
<1>1. CASE /\ pc = "unwind" /\ deferred # << >> /\ Last(deferred) = "dir" /\ share /\ UNCHANGED held
          /\ deferred' = Front(deferred) /\ UNCHANGED <<pc, errAt, code, nfs, seen>> /\ HostOnly
  <2>1. /\ Stack(deferred') /\ Left' = Left \ {Last(deferred)} /\ Last(deferred) \in Left
        /\ \A x \in Left : x = Last(deferred) \/ Rank[x] < Rank[Last(deferred)]
    BY <1>1, LeftActions, StackDrop DEF Left
  <2>2. TypeOK' BY <1>1, <2>1 DEF SessionInv, TypeOK, Points, Resources, Stack
  <2>3. MainInv' BY <1>1, <2>1 DEF SessionInv, MainInv
  <2>4. HeldInv' BY <1>1, <2>1 DEF SessionInv, HeldInv
  <2>5. DirInv' BY <1>1, <2>1 DEF SessionInv, DirInv
  <2>6. VmInv' BY <1>1, <2>1 DEF SessionInv, VmInv
  <2>7. ReportInv' BY <1>1, <2>1 DEF SessionInv, ReportInv
  <2>8. TagInv' BY <1>1, <2>1 DEF SessionInv, TagInv
  <2>9. QED BY <2>1, <2>2, <2>3, <2>4, <2>5, <2>6, <2>7, <2>8 DEF SessionInv, Stack
<1>2. CASE /\ pc = "unwind" /\ deferred # << >> /\ Last(deferred) \in Resources
          /\ held' = held \ {Last(deferred)}
          /\ deferred' = Front(deferred) /\ UNCHANGED <<pc, errAt, code, nfs, seen>> /\ HostOnly
  <2>1. /\ Stack(deferred') /\ Left' = Left \ {Last(deferred)} /\ Last(deferred) \in Left
        /\ \A x \in Left : x = Last(deferred) \/ Rank[x] < Rank[Last(deferred)]
    BY <1>2, LeftActions, StackDrop DEF Left
  <2>2. Last(deferred) \in {"helper", "vfkit", "vsock", "key"} => "vm_wait" \notin Left
    BY <1>2, <2>1, RankValues
  <2>3. TypeOK' BY <1>2, <2>1, <2>2 DEF SessionInv, TypeOK, Stack
  <2>4. MainInv' BY <1>2, <2>1, <2>2 DEF SessionInv, MainInv, Resources
  <2>5. HeldInv' BY <1>2, <2>1, <2>2 DEF SessionInv, HeldInv, Resources
  <2>6. DirInv' BY <1>2, <2>1, <2>2 DEF SessionInv, DirInv, Resources
  <2>7. VmInv' BY <1>2, <2>1, <2>2 DEF SessionInv, VmInv, Resources
  <2>8. ReportInv' BY <1>2, <2>1, <2>2 DEF SessionInv, ReportInv, Resources
  <2>9. TagInv' BY <1>2, <2>1, <2>2 DEF SessionInv, TagInv, Resources
  <2>10. QED BY <2>1, <2>3, <2>4, <2>5, <2>6, <2>7, <2>8, <2>9 DEF SessionInv, Stack
<1>3. QED BY <1>1, <1>2 DEF UnwindResource

(* The deferred wait for the VM. *)
LEMMA UnwindVmWaitKept == ASSUME SessionInv, UnwindVmWait PROVE SessionInv'
<1>1. CASE /\ pc = "unwind" /\ deferred # << >> /\ Last(deferred) = "vm_wait" /\ vm = "exited"
          /\ vm' = "reaped" /\ deferred' = Front(deferred)
          /\ UNCHANGED <<pc, held, errAt, code, nfs, seen, raw, printed, tag,
                         sigVars, opts, api, reader, quit, sub, report, share,
                         ctrlc, comm, fg>>
  <2>1. /\ Stack(deferred') /\ Left' = Left \ {Last(deferred)} /\ Last(deferred) \in Left
        /\ \A x \in Left : x = Last(deferred) \/ Rank[x] < Rank[Last(deferred)]
    BY <1>1, LeftActions, StackDrop DEF Left
  <2>2. TypeOK' BY <1>1, <2>1 DEF SessionInv, TypeOK, Points, Resources, Stack, VmStates
  <2>3. MainInv' BY <1>1, <2>1 DEF SessionInv, MainInv
  <2>4. HeldInv' BY <1>1, <2>1 DEF SessionInv, HeldInv
  <2>5. DirInv' BY <1>1, <2>1 DEF SessionInv, DirInv
  <2>6. VmInv' BY <1>1, <2>1 DEF SessionInv, VmInv
  <2>7. ReportInv' BY <1>1, <2>1 DEF SessionInv, ReportInv
  <2>8. TagInv' BY <1>1, <2>1 DEF SessionInv, TagInv
  <2>9. QED BY <2>1, <2>2, <2>3, <2>4, <2>5, <2>6, <2>7, <2>8 DEF SessionInv, Stack
<1>2. QED BY <1>1 DEF UnwindVmWait

(* The report is received, or missed. *)
LEMMA UnwindReportKept == ASSUME SessionInv, UnwindReport PROVE SessionInv'
<1>1. CASE /\ pc = "unwind" /\ deferred # << >> /\ Last(deferred) = "report"
          /\ report = "sent" /\ report' = "saved" /\ deferred' = Front(deferred)
          /\ UNCHANGED <<pc, held, errAt, code, nfs, seen, guestVars, sigVars, opts,
                         api, reader, quit, sub, share, ctrlc, comm, fg>>
  <2>1. /\ Stack(deferred') /\ Left' = Left \ {Last(deferred)} /\ Last(deferred) \in Left
        /\ \A x \in Left : x = Last(deferred) \/ Rank[x] < Rank[Last(deferred)]
    BY <1>1, LeftActions, StackDrop DEF Left
  <2>2. TypeOK' BY <1>1, <2>1 DEF SessionInv, TypeOK, Points, Resources, Stack
  <2>3. MainInv' BY <1>1, <2>1 DEF SessionInv, MainInv
  <2>4. HeldInv' BY <1>1, <2>1 DEF SessionInv, HeldInv
  <2>5. DirInv' BY <1>1, <2>1 DEF SessionInv, DirInv
  <2>6. VmInv' BY <1>1, <2>1 DEF SessionInv, VmInv
  <2>7. ReportInv' BY <1>1, <2>1 DEF SessionInv, ReportInv
  <2>8. TagInv' BY <1>1, <2>1 DEF SessionInv, TagInv
  <2>9. QED BY <2>1, <2>2, <2>3, <2>4, <2>5, <2>6, <2>7, <2>8 DEF SessionInv, Stack
<1>2. CASE /\ pc = "unwind" /\ deferred # << >> /\ Last(deferred) = "report"
          /\ report # "sent" /\ report' = "missed" /\ deferred' = Front(deferred)
          /\ UNCHANGED <<pc, held, errAt, code, nfs, seen, guestVars, sigVars, opts,
                         api, reader, quit, sub, share, ctrlc, comm, fg>>
  <2>1. /\ Stack(deferred') /\ Left' = Left \ {Last(deferred)} /\ Last(deferred) \in Left
        /\ \A x \in Left : x = Last(deferred) \/ Rank[x] < Rank[Last(deferred)]
    BY <1>2, LeftActions, StackDrop DEF Left
  <2>2. TypeOK' BY <1>2, <2>1 DEF SessionInv, TypeOK, Points, Resources, Stack
  <2>3. MainInv' BY <1>2, <2>1 DEF SessionInv, MainInv
  <2>4. HeldInv' BY <1>2, <2>1 DEF SessionInv, HeldInv
  <2>5. DirInv' BY <1>2, <2>1 DEF SessionInv, DirInv
  <2>6. VmInv' BY <1>2, <2>1 DEF SessionInv, VmInv
  <2>7. ReportInv' BY <1>2, <2>1 DEF SessionInv, ReportInv
  <2>8. TagInv' BY <1>2, <2>1 DEF SessionInv, TagInv
  <2>9. QED BY <2>1, <2>2, <2>3, <2>4, <2>5, <2>6, <2>7, <2>8 DEF SessionInv, Stack
<1>3. QED BY <1>1, <1>2 DEF UnwindReport

(* The deferred Quit request, or the end of the forwarder. *)
LEMMA UnwindQuitKept == ASSUME SessionInv, UnwindQuit PROVE SessionInv'
<1>1. CASE /\ pc = "unwind" /\ deferred # << >> /\ Last(deferred) \in {"quit", "stop_fwd"}
          /\ quit' \in {"none", "received", "lost"} /\ deferred' = Front(deferred)
          /\ UNCHANGED <<pc, held, errAt, code, nfs, seen, guestVars, sigVars, opts,
                         api, reader, sub, report, share, ctrlc, comm, fg>>
  <2>1. /\ Stack(deferred') /\ Left' = Left \ {Last(deferred)} /\ Last(deferred) \in Left
        /\ \A x \in Left : x = Last(deferred) \/ Rank[x] < Rank[Last(deferred)]
    BY <1>1, LeftActions, StackDrop DEF Left
  <2>2. TypeOK' BY <1>1, <2>1 DEF SessionInv, TypeOK, Points, Resources, Stack
  <2>3. MainInv' BY <1>1, <2>1 DEF SessionInv, MainInv
  <2>4. HeldInv' BY <1>1, <2>1 DEF SessionInv, HeldInv
  <2>5. DirInv' BY <1>1, <2>1 DEF SessionInv, DirInv
  <2>6. VmInv' BY <1>1, <2>1 DEF SessionInv, VmInv
  <2>7. ReportInv' BY <1>1, <2>1 DEF SessionInv, ReportInv
  <2>8. TagInv' BY <1>1, <2>1 DEF SessionInv, TagInv
  <2>9. QED BY <2>1, <2>2, <2>3, <2>4, <2>5, <2>6, <2>7, <2>8 DEF SessionInv, Stack
<1>2. QED BY <1>1 DEF UnwindQuit, QuitArrives, QuitLost, SessionInv, TypeOK

(* Nothing is left on the stack. *)
LEMMA ExitKept == ASSUME SessionInv, Exit PROVE SessionInv'
<1>1. CASE /\ pc = "unwind" /\ deferred = << >> /\ pc' = "done" /\ comm # "none" /\ UNCHANGED comm
          /\ UNCHANGED <<deferred, held, errAt, code, nfs, seen, guestVars, sigVars,
                         opts, api, reader, quit, sub, report, share, ctrlc, fg>>
  <2>1. Stack(deferred') /\ Left' = {} /\ Left = {}
    BY <1>1, LeftActions, StackEmpty DEF Left
  <2>2. TypeOK' BY <1>1, <2>1 DEF SessionInv, TypeOK, Points, Resources, Stack
  <2>3. MainInv' BY <1>1, <2>1 DEF SessionInv, MainInv
  <2>4. HeldInv' BY <1>1, <2>1 DEF SessionInv, HeldInv
  <2>5. DirInv' BY <1>1, <2>1 DEF SessionInv, DirInv
  <2>6. VmInv' BY <1>1, <2>1 DEF SessionInv, VmInv
  <2>7. ReportInv' BY <1>1, <2>1 DEF SessionInv, ReportInv
  <2>8. TagInv' BY <1>1, <2>1 DEF SessionInv, TagInv
  <2>9. QED BY <2>1, <2>2, <2>3, <2>4, <2>5, <2>6, <2>7, <2>8 DEF SessionInv, Stack
<1>2. CASE /\ pc = "unwind" /\ deferred = << >> /\ pc' = "done" /\ comm = "none" /\ comm' = "join"
          /\ UNCHANGED <<deferred, held, errAt, code, nfs, seen, guestVars, sigVars,
                         opts, api, reader, quit, sub, report, share, ctrlc, fg>>
  <2>1. Stack(deferred') /\ Left' = {} /\ Left = {}
    BY <1>2, LeftActions, StackEmpty DEF Left
  <2>2. TypeOK' BY <1>2, <2>1 DEF SessionInv, TypeOK, Points, Resources, Stack
  <2>3. MainInv' BY <1>2, <2>1 DEF SessionInv, MainInv
  <2>4. HeldInv' BY <1>2, <2>1 DEF SessionInv, HeldInv
  <2>5. DirInv' BY <1>2, <2>1 DEF SessionInv, DirInv
  <2>6. VmInv' BY <1>2, <2>1 DEF SessionInv, VmInv
  <2>7. ReportInv' BY <1>2, <2>1 DEF SessionInv, ReportInv
  <2>8. TagInv' BY <1>2, <2>1 DEF SessionInv, TagInv
  <2>9. QED BY <2>1, <2>2, <2>3, <2>4, <2>5, <2>6, <2>7, <2>8 DEF SessionInv, Stack
<1>3. QED BY <1>1, <1>2 DEF Exit

-----------------------------------------------------------------------------
(* The other threads, the VM, the foreground process, the user              *)

(* The API socket is bound, or the thread ends. *)
LEMMA BindApiKept == ASSUME SessionInv, BindApi PROVE SessionInv'
<1>1. CASE /\ api = "starting" /\ pc # "done" /\ api' = "bound" /\ held' = held \cup {"api"}
          /\ UNCHANGED <<pc, deferred, errAt, code, nfs, seen, guestVars, sigVars,
                         opts, reader, quit, sub, report, share, ctrlc, comm, fg>>
  <2>1. Stack(deferred') /\ Left' = Left
    BY <1>1, LeftActions DEF Left
  <2>2. TypeOK' BY <1>1, <2>1 DEF SessionInv, TypeOK, Points, Resources, Stack
  <2>3. MainInv' BY <1>1, <2>1 DEF SessionInv, MainInv
  <2>4. HeldInv' BY <1>1, <2>1 DEF SessionInv, HeldInv, MainInv
  <2>5. DirInv' BY <1>1, <2>1 DEF SessionInv, DirInv, MainInv
  <2>6. VmInv' BY <1>1, <2>1 DEF SessionInv, VmInv, MainInv
  <2>7. ReportInv' BY <1>1, <2>1 DEF SessionInv, ReportInv, MainInv
  <2>8. TagInv' BY <1>1, <2>1 DEF SessionInv, TagInv, MainInv
  <2>9. QED BY <2>1, <2>2, <2>3, <2>4, <2>5, <2>6, <2>7, <2>8 DEF SessionInv, Stack
<1>2. CASE /\ api = "starting" /\ pc # "done" /\ api' = "failed" /\ UNCHANGED held
          /\ UNCHANGED <<pc, deferred, errAt, code, nfs, seen, guestVars, sigVars,
                         opts, reader, quit, sub, report, share, ctrlc, comm, fg>>
  <2>1. Stack(deferred') /\ Left' = Left
    BY <1>2, LeftActions DEF Left
  <2>2. TypeOK' BY <1>2, <2>1 DEF SessionInv, TypeOK, Points, Resources, Stack
  <2>3. MainInv' BY <1>2, <2>1 DEF SessionInv, MainInv
  <2>4. HeldInv' BY <1>2, <2>1 DEF SessionInv, HeldInv
  <2>5. DirInv' BY <1>2, <2>1 DEF SessionInv, DirInv
  <2>6. VmInv' BY <1>2, <2>1 DEF SessionInv, VmInv
  <2>7. ReportInv' BY <1>2, <2>1 DEF SessionInv, ReportInv
  <2>8. TagInv' BY <1>2, <2>1 DEF SessionInv, TagInv
  <2>9. QED BY <2>1, <2>2, <2>3, <2>4, <2>5, <2>6, <2>7, <2>8 DEF SessionInv, Stack
<1>3. QED BY <1>1, <1>2 DEF BindApi

(* READY, or the end of the output. *)
LEMMA ReadPtyKept == ASSUME SessionInv, ReadPty PROVE SessionInv'
<1>1. CASE /\ reader = "reading" /\ printed /\ reader' = "ready"
          /\ UNCHANGED <<hostVars, guestVars, sigVars, opts, api, quit, sub, report,
                         share, ctrlc, comm, fg>>
  <2>1. Stack(deferred') /\ Left' = Left
    BY <1>1, LeftActions DEF Left
  <2>2. TypeOK' BY <1>1, <2>1 DEF SessionInv, TypeOK, Points, Resources, Stack
  <2>3. MainInv' BY <1>1, <2>1 DEF SessionInv, MainInv
  <2>4. HeldInv' BY <1>1, <2>1 DEF SessionInv, HeldInv
  <2>5. DirInv' BY <1>1, <2>1 DEF SessionInv, DirInv
  <2>6. VmInv' BY <1>1, <2>1 DEF SessionInv, VmInv
  <2>7. ReportInv' BY <1>1, <2>1 DEF SessionInv, ReportInv
  <2>8. TagInv' BY <1>1, <2>1 DEF SessionInv, TagInv
  <2>9. QED BY <2>1, <2>2, <2>3, <2>4, <2>5, <2>6, <2>7, <2>8 DEF SessionInv, Stack
<1>2. CASE /\ reader = "reading" /\ reader' = "failed"
          /\ UNCHANGED <<hostVars, guestVars, sigVars, opts, api, quit, sub, report,
                         share, ctrlc, comm, fg>>
  <2>1. Stack(deferred') /\ Left' = Left
    BY <1>2, LeftActions DEF Left
  <2>2. TypeOK' BY <1>2, <2>1 DEF SessionInv, TypeOK, Points, Resources, Stack
  <2>3. MainInv' BY <1>2, <2>1 DEF SessionInv, MainInv
  <2>4. HeldInv' BY <1>2, <2>1 DEF SessionInv, HeldInv
  <2>5. DirInv' BY <1>2, <2>1 DEF SessionInv, DirInv
  <2>6. VmInv' BY <1>2, <2>1 DEF SessionInv, VmInv
  <2>7. ReportInv' BY <1>2, <2>1 DEF SessionInv, ReportInv
  <2>8. TagInv' BY <1>2, <2>1 DEF SessionInv, TagInv
  <2>9. QED BY <2>1, <2>2, <2>3, <2>4, <2>5, <2>6, <2>7, <2>8 DEF SessionInv, Stack
<1>3. QED BY <1>1, <1>2 DEF ReadPty

(* The reader is cut short; the guest may be at any point. *)
LEMMA ReadPtyFailsKept == ASSUME SessionInv, ReadPtyFails PROVE SessionInv'
<1>1. /\ reader = "reading" /\ reader' \in {"cut", "failed"}
      /\ sub' = sub \/ (sub = "none" /\ sub' = "failed")
      /\ UNCHANGED <<hostVars, guestVars, sigVars, opts, api, quit, report, share, ctrlc, comm, fg>>
  BY DEF ReadPtyFails
<1>2. Stack(deferred') /\ Left' = Left BY <1>1, LeftActions DEF Left
<1>3. TypeOK'
  <2>1. sub' \in {"none", "open", "failed"} BY <1>1 DEF SessionInv, TypeOK
  <2>2. QED BY <1>1, <1>2, <2>1 DEF SessionInv, TypeOK, Stack
<1>4. MainInv' BY <1>1, <1>2 DEF SessionInv, MainInv
<1>5. HeldInv' BY <1>1, <1>2 DEF SessionInv, HeldInv
<1>6. DirInv' BY <1>1, <1>2 DEF SessionInv, DirInv
<1>7. VmInv' BY <1>1, <1>2 DEF SessionInv, VmInv
<1>8. ReportInv' BY <1>1, <1>2 DEF SessionInv, ReportInv
<1>9. TagInv' BY <1>1, <1>2 DEF SessionInv, TagInv
<1>10. QED BY <1>2, <1>3, <1>4, <1>5, <1>6, <1>7, <1>8, <1>9 DEF SessionInv, Stack

(* Only a VM that runs accepts a subscription. *)
LEMMA SubscribeToVmEventsKept == ASSUME SessionInv, SubscribeToVmEvents PROVE SessionInv'
<1>1. CASE /\ sub = "none" /\ vm \in {"up", "serving", "stopping"} /\ sub' \in {"failed", "open"}
          /\ UNCHANGED <<hostVars, guestVars, sigVars, opts, api, reader, quit,
                         report, share, ctrlc, comm, fg>>
  <2>1. Stack(deferred') /\ Left' = Left
    BY <1>1, LeftActions DEF Left
  <2>2. TypeOK' BY <1>1, <2>1 DEF SessionInv, TypeOK, Points, Resources, Stack
  <2>3. MainInv' BY <1>1, <2>1 DEF SessionInv, MainInv
  <2>4. HeldInv' BY <1>1, <2>1 DEF SessionInv, HeldInv
  <2>5. DirInv' BY <1>1, <2>1 DEF SessionInv, DirInv
  <2>6. VmInv' BY <1>1, <2>1 DEF SessionInv, VmInv
  <2>7. ReportInv' BY <1>1, <2>1 DEF SessionInv, ReportInv
  <2>8. TagInv' BY <1>1, <2>1 DEF SessionInv, TagInv
  <2>9. QED BY <2>1, <2>2, <2>3, <2>4, <2>5, <2>6, <2>7, <2>8 DEF SessionInv, Stack
<1>2. CASE /\ sub = "none" /\ sub' = "failed"
          /\ UNCHANGED <<hostVars, guestVars, sigVars, opts, api, reader, quit,
                         report, share, ctrlc, comm, fg>>
  <2>1. Stack(deferred') /\ Left' = Left
    BY <1>2, LeftActions DEF Left
  <2>2. TypeOK' BY <1>2, <2>1 DEF SessionInv, TypeOK, Points, Resources, Stack
  <2>3. MainInv' BY <1>2, <2>1 DEF SessionInv, MainInv
  <2>4. HeldInv' BY <1>2, <2>1 DEF SessionInv, HeldInv
  <2>5. DirInv' BY <1>2, <2>1 DEF SessionInv, DirInv
  <2>6. VmInv' BY <1>2, <2>1 DEF SessionInv, VmInv
  <2>7. ReportInv' BY <1>2, <2>1 DEF SessionInv, ReportInv
  <2>8. TagInv' BY <1>2, <2>1 DEF SessionInv, TagInv
  <2>9. QED BY <2>1, <2>2, <2>3, <2>4, <2>5, <2>6, <2>7, <2>8 DEF SessionInv, Stack
<1>3. QED BY <1>1, <1>2 DEF SubscribeToVmEvents

(* The first signal becomes ^C. *)
LEMMA ForwardSignalKept == ASSUME SessionInv, ForwardSignal PROVE SessionInv'
<1>1. CASE /\ fwdq' \in BOOLEAN /\ ctrlc' = TRUE /\ hub' \in {"none", "fwd", "session"}
          /\ UNCHANGED <<hostVars, guestVars, sesq, sent, opts, api, reader, quit,
                         sub, report, share, comm, fg>>
  <2>1. Stack(deferred') /\ Left' = Left
    BY <1>1, LeftActions DEF Left
  <2>2. TypeOK' BY <1>1, <2>1 DEF SessionInv, TypeOK, Points, Resources, Stack
  <2>3. MainInv' BY <1>1, <2>1 DEF SessionInv, MainInv
  <2>4. HeldInv' BY <1>1, <2>1 DEF SessionInv, HeldInv
  <2>5. DirInv' BY <1>1, <2>1 DEF SessionInv, DirInv
  <2>6. VmInv' BY <1>1, <2>1 DEF SessionInv, VmInv
  <2>7. ReportInv' BY <1>1, <2>1 DEF SessionInv, ReportInv
  <2>8. TagInv' BY <1>1, <2>1 DEF SessionInv, TagInv
  <2>9. QED BY <2>1, <2>2, <2>3, <2>4, <2>5, <2>6, <2>7, <2>8 DEF SessionInv, Stack
<1>2. QED BY <1>1 DEF ForwardSignal, SessionInv, TypeOK

(* vmproxy starts, fails, serves, quits and powers off. *)
LEMMA GuestKept == ASSUME SessionInv, Guest PROVE SessionInv'
<1>1. CASE /\ vm = "boot" /\ vm' = "exited" /\ raw' = 256 /\ UNCHANGED <<printed, tag, report>>
          /\ UNCHANGED <<hostVars, sigVars, opts, api, reader, quit, sub, share,
                         ctrlc, comm, fg>>
  <2>1. Stack(deferred') /\ Left' = Left
    BY <1>1, LeftActions DEF Left
  <2>2. TypeOK' BY <1>1, <2>1 DEF SessionInv, TypeOK, Points, Resources, Stack, VmStates, RawStatuses
  <2>3. MainInv' BY <1>1, <2>1 DEF SessionInv, MainInv
  <2>4. HeldInv' BY <1>1, <2>1 DEF SessionInv, HeldInv
  <2>5. DirInv' BY <1>1, <2>1 DEF SessionInv, DirInv
  <2>6. VmInv' BY <1>1, <2>1 DEF SessionInv, VmInv
  <2>7. ReportInv' BY <1>1, <2>1 DEF SessionInv, ReportInv
  <2>8. TagInv' BY <1>1, <2>1 DEF SessionInv, TagInv
  <2>9. QED BY <2>1, <2>2, <2>3, <2>4, <2>5, <2>6, <2>7, <2>8 DEF SessionInv, Stack
<1>2. CASE /\ vm = "boot" /\ vm' = "up" /\ UNCHANGED <<raw, printed, tag, report>>
          /\ UNCHANGED <<hostVars, sigVars, opts, api, reader, quit, sub, share,
                         ctrlc, comm, fg>>
  <2>1. Stack(deferred') /\ Left' = Left
    BY <1>2, LeftActions DEF Left
  <2>2. TypeOK' BY <1>2, <2>1 DEF SessionInv, TypeOK, Points, Resources, Stack, VmStates, RawStatuses
  <2>3. MainInv' BY <1>2, <2>1 DEF SessionInv, MainInv
  <2>4. HeldInv' BY <1>2, <2>1 DEF SessionInv, HeldInv
  <2>5. DirInv' BY <1>2, <2>1 DEF SessionInv, DirInv
  <2>6. VmInv' BY <1>2, <2>1 DEF SessionInv, VmInv
  <2>7. ReportInv' BY <1>2, <2>1 DEF SessionInv, ReportInv
  <2>8. TagInv' BY <1>2, <2>1 DEF SessionInv, TagInv
  <2>9. QED BY <2>1, <2>2, <2>3, <2>4, <2>5, <2>6, <2>7, <2>8 DEF SessionInv, Stack
<1>3. CASE /\ vm = "up" /\ vm' = "stopping" /\ tag' \in BOOLEAN /\ UNCHANGED <<raw, printed, report>>
          /\ UNCHANGED <<hostVars, sigVars, opts, api, reader, quit, sub, share,
                         ctrlc, comm, fg>>
  <2>1. Stack(deferred') /\ Left' = Left
    BY <1>3, LeftActions DEF Left
  <2>2. TypeOK' BY <1>3, <2>1 DEF SessionInv, TypeOK, Points, Resources, Stack, VmStates, RawStatuses
  <2>3. MainInv' BY <1>3, <2>1 DEF SessionInv, MainInv
  <2>4. HeldInv' BY <1>3, <2>1 DEF SessionInv, HeldInv
  <2>5. DirInv' BY <1>3, <2>1 DEF SessionInv, DirInv
  <2>6. VmInv' BY <1>3, <2>1 DEF SessionInv, VmInv
  <2>7. ReportInv' BY <1>3, <2>1 DEF SessionInv, ReportInv
  <2>8. TagInv' BY <1>3, <2>1 DEF SessionInv, TagInv, VmInv, ReportInv, MainInv
  <2>9. QED BY <2>1, <2>2, <2>3, <2>4, <2>5, <2>6, <2>7, <2>8 DEF SessionInv, Stack
<1>4. CASE /\ vm = "up" /\ vm' = "serving" /\ printed' = TRUE /\ UNCHANGED <<raw, tag, report>>
          /\ UNCHANGED <<hostVars, sigVars, opts, api, reader, quit, sub, share,
                         ctrlc, comm, fg>>
  <2>1. Stack(deferred') /\ Left' = Left
    BY <1>4, LeftActions DEF Left
  <2>2. TypeOK' BY <1>4, <2>1 DEF SessionInv, TypeOK, Points, Resources, Stack, VmStates, RawStatuses
  <2>3. MainInv' BY <1>4, <2>1 DEF SessionInv, MainInv
  <2>4. HeldInv' BY <1>4, <2>1 DEF SessionInv, HeldInv
  <2>5. DirInv' BY <1>4, <2>1 DEF SessionInv, DirInv
  <2>6. VmInv' BY <1>4, <2>1 DEF SessionInv, VmInv
  <2>7. ReportInv' BY <1>4, <2>1 DEF SessionInv, ReportInv
  <2>8. TagInv' BY <1>4, <2>1 DEF SessionInv, TagInv
  <2>9. QED BY <2>1, <2>2, <2>3, <2>4, <2>5, <2>6, <2>7, <2>8 DEF SessionInv, Stack
<1>5. CASE /\ vm = "serving" /\ vm' = "stopping" /\ UNCHANGED <<raw, printed, tag, report>>
          /\ UNCHANGED <<hostVars, sigVars, opts, api, reader, quit, sub, share,
                         ctrlc, comm, fg>>
  <2>1. Stack(deferred') /\ Left' = Left
    BY <1>5, LeftActions DEF Left
  <2>2. TypeOK' BY <1>5, <2>1 DEF SessionInv, TypeOK, Points, Resources, Stack, VmStates, RawStatuses
  <2>3. MainInv' BY <1>5, <2>1 DEF SessionInv, MainInv
  <2>4. HeldInv' BY <1>5, <2>1 DEF SessionInv, HeldInv
  <2>5. DirInv' BY <1>5, <2>1 DEF SessionInv, DirInv
  <2>6. VmInv' BY <1>5, <2>1 DEF SessionInv, VmInv
  <2>7. ReportInv' BY <1>5, <2>1 DEF SessionInv, ReportInv
  <2>8. TagInv' BY <1>5, <2>1 DEF SessionInv, TagInv
  <2>9. QED BY <2>1, <2>2, <2>3, <2>4, <2>5, <2>6, <2>7, <2>8 DEF SessionInv, Stack
<1>6. CASE /\ vm = "stopping" /\ vm' = "exited" /\ raw' = 0 /\ UNCHANGED <<printed, tag>>
          /\ sub = "open" /\ report = "none" /\ report' = "sent"
          /\ UNCHANGED <<hostVars, sigVars, opts, api, reader, quit, sub, share,
                         ctrlc, comm, fg>>
  <2>1. Stack(deferred') /\ Left' = Left
    BY <1>6, LeftActions DEF Left
  <2>2. TypeOK' BY <1>6, <2>1 DEF SessionInv, TypeOK, Points, Resources, Stack, VmStates, RawStatuses
  <2>3. MainInv' BY <1>6, <2>1 DEF SessionInv, MainInv
  <2>4. HeldInv' BY <1>6, <2>1 DEF SessionInv, HeldInv
  <2>5. DirInv' BY <1>6, <2>1 DEF SessionInv, DirInv
  <2>6. VmInv' BY <1>6, <2>1 DEF SessionInv, VmInv
  <2>7. ReportInv' BY <1>6, <2>1 DEF SessionInv, ReportInv, MainInv
  <2>8. TagInv' BY <1>6, <2>1 DEF SessionInv, TagInv, MainInv
  <2>9. QED BY <2>1, <2>2, <2>3, <2>4, <2>5, <2>6, <2>7, <2>8 DEF SessionInv, Stack
<1>7. CASE /\ vm = "stopping" /\ vm' = "exited" /\ raw' = 0 /\ UNCHANGED <<printed, tag, report>>
          /\ sub # "open"
          /\ UNCHANGED <<hostVars, sigVars, opts, api, reader, quit, sub, share,
                         ctrlc, comm, fg>>
  <2>1. Stack(deferred') /\ Left' = Left
    BY <1>7, LeftActions DEF Left
  <2>2. TypeOK' BY <1>7, <2>1 DEF SessionInv, TypeOK, Points, Resources, Stack, VmStates, RawStatuses
  <2>3. MainInv' BY <1>7, <2>1 DEF SessionInv, MainInv
  <2>4. HeldInv' BY <1>7, <2>1 DEF SessionInv, HeldInv
  <2>5. DirInv' BY <1>7, <2>1 DEF SessionInv, DirInv
  <2>6. VmInv' BY <1>7, <2>1 DEF SessionInv, VmInv
  <2>7. ReportInv' BY <1>7, <2>1 DEF SessionInv, ReportInv, MainInv
  <2>8. TagInv' BY <1>7, <2>1 DEF SessionInv, TagInv, MainInv
  <2>9. QED BY <2>1, <2>2, <2>3, <2>4, <2>5, <2>6, <2>7, <2>8 DEF SessionInv, Stack
<1>8. CASE /\ vm = "stopping" /\ vm' = "exited" /\ raw' = 0 /\ UNCHANGED <<printed, tag, report>>
          /\ report # "none"
          /\ UNCHANGED <<hostVars, sigVars, opts, api, reader, quit, sub, share,
                         ctrlc, comm, fg>>
  <2>1. Stack(deferred') /\ Left' = Left
    BY <1>8, LeftActions DEF Left
  <2>2. TypeOK' BY <1>8, <2>1 DEF SessionInv, TypeOK, Points, Resources, Stack, VmStates, RawStatuses
  <2>3. MainInv' BY <1>8, <2>1 DEF SessionInv, MainInv
  <2>4. HeldInv' BY <1>8, <2>1 DEF SessionInv, HeldInv
  <2>5. DirInv' BY <1>8, <2>1 DEF SessionInv, DirInv
  <2>6. VmInv' BY <1>8, <2>1 DEF SessionInv, VmInv
  <2>7. ReportInv' BY <1>8, <2>1 DEF SessionInv, ReportInv, MainInv
  <2>8. TagInv' BY <1>8, <2>1 DEF SessionInv, TagInv, MainInv
  <2>9. QED BY <2>1, <2>2, <2>3, <2>4, <2>5, <2>6, <2>7, <2>8 DEF SessionInv, Stack
<1>9. QED BY <1>1, <1>2, <1>3, <1>4, <1>5, <1>6, <1>7, <1>8 DEF Guest, GuestStep, GuestEnd, VmStartFails, VmproxyReady, GuestFails, NfsReady, GuestQuits, PowerOff

(* The VM is interrupted or killed. *)
LEMMA KillKept == ASSUME SessionInv, Kill PROVE SessionInv'
<1>1. CASE /\ vm \in {"boot", "up", "serving"} /\ ctrlc /\ vm' = "exited" /\ raw' \in {0, 256}
          /\ UNCHANGED <<hostVars, printed, tag, sigVars, opts, api, reader, quit, sub, report,
                         share, ctrlc, comm, fg>>
  <2>1. Stack(deferred') /\ Left' = Left
    BY <1>1, LeftActions DEF Left
  <2>2. TypeOK' BY <1>1, <2>1 DEF SessionInv, TypeOK, Points, Resources, Stack, VmStates, RawStatuses
  <2>3. MainInv' BY <1>1, <2>1 DEF SessionInv, MainInv
  <2>4. HeldInv' BY <1>1, <2>1 DEF SessionInv, HeldInv
  <2>5. DirInv' BY <1>1, <2>1 DEF SessionInv, DirInv
  <2>6. VmInv' BY <1>1, <2>1 DEF SessionInv, VmInv
  <2>7. ReportInv' BY <1>1, <2>1 DEF SessionInv, ReportInv
  <2>8. TagInv' BY <1>1, <2>1 DEF SessionInv, TagInv
  <2>9. QED BY <2>1, <2>2, <2>3, <2>4, <2>5, <2>6, <2>7, <2>8 DEF SessionInv, Stack
<1>2. CASE /\ vm \in Running /\ vm' = "exited" /\ raw' = 9
          /\ UNCHANGED <<hostVars, printed, tag, sigVars, opts, api, reader, quit, sub, report,
                         share, ctrlc, comm, fg>>
  <2>1. Stack(deferred') /\ Left' = Left
    BY <1>2, LeftActions DEF Left
  <2>2. TypeOK' BY <1>2, <2>1 DEF SessionInv, TypeOK, Points, Resources, Stack, Running, VmStates, RawStatuses
  <2>3. MainInv' BY <1>2, <2>1 DEF SessionInv, MainInv, Running
  <2>4. HeldInv' BY <1>2, <2>1 DEF SessionInv, HeldInv, Running
  <2>5. DirInv' BY <1>2, <2>1 DEF SessionInv, DirInv, Running
  <2>6. VmInv' BY <1>2, <2>1 DEF SessionInv, VmInv, Running
  <2>7. ReportInv' BY <1>2, <2>1 DEF SessionInv, ReportInv, Running
  <2>8. TagInv' BY <1>2, <2>1 DEF SessionInv, TagInv, Running
  <2>9. QED BY <2>1, <2>2, <2>3, <2>4, <2>5, <2>6, <2>7, <2>8 DEF SessionInv, Stack
<1>3. QED BY <1>1, <1>2 DEF Kill, Interrupted, VmKilled

(* The exit code of a joined child is the one it exited with. *)
LEMMA ExitCodeKept == ASSUME NEW c \in 0..255 PROVE ToExitCode(256 * c) = c
BY DEF ToExitCode

(* The foreground command ends. *)
LEMMA ForegroundKept == ASSUME SessionInv, Foreground PROVE SessionInv'
<1>1. ToExitCode(256 * code) = code BY ExitCodeKept DEF SessionInv, TypeOK
<1>2. CASE /\ fg = -1 /\ comm = "detach" /\ fg' = 0
          /\ UNCHANGED <<hostVars, guestVars, sigVars, opts, api, reader, quit, sub,
                         report, share, ctrlc, comm>>
  <2>1. Stack(deferred') /\ Left' = Left
    BY <1>2, LeftActions DEF Left
  <2>2. TypeOK' BY <1>2, <2>1 DEF SessionInv, TypeOK, Points, Resources, Stack
  <2>3. MainInv' BY <1>2, <2>1 DEF SessionInv, MainInv
  <2>4. HeldInv' BY <1>2, <2>1 DEF SessionInv, HeldInv
  <2>5. DirInv' BY <1>2, <2>1 DEF SessionInv, DirInv
  <2>6. VmInv' BY <1>2, <2>1 DEF SessionInv, VmInv
  <2>7. ReportInv' BY <1>2, <2>1 DEF SessionInv, ReportInv
  <2>8. TagInv' BY <1>2, <2>1 DEF SessionInv, TagInv
  <2>9. QED BY <2>1, <2>2, <2>3, <2>4, <2>5, <2>6, <2>7, <2>8 DEF SessionInv, Stack
<1>3. CASE /\ fg = -1 /\ comm = "join" /\ pc = "done" /\ fg' = code
          /\ UNCHANGED <<hostVars, guestVars, sigVars, opts, api, reader, quit, sub,
                         report, share, ctrlc, comm>>
  <2>1. Stack(deferred') /\ Left' = Left
    BY <1>3, LeftActions DEF Left
  <2>2. TypeOK' BY <1>3, <2>1 DEF SessionInv, TypeOK, Points, Resources, Stack
  <2>3. MainInv' BY <1>3, <2>1 DEF SessionInv, MainInv
  <2>4. HeldInv' BY <1>3, <2>1 DEF SessionInv, HeldInv
  <2>5. DirInv' BY <1>3, <2>1 DEF SessionInv, DirInv
  <2>6. VmInv' BY <1>3, <2>1 DEF SessionInv, VmInv
  <2>7. ReportInv' BY <1>3, <2>1 DEF SessionInv, ReportInv
  <2>8. TagInv' BY <1>3, <2>1 DEF SessionInv, TagInv
  <2>9. QED BY <2>1, <2>2, <2>3, <2>4, <2>5, <2>6, <2>7, <2>8 DEF SessionInv, Stack
<1>4. QED BY <1>1, <1>2, <1>3 DEF Foreground

(* The share is unmounted. *)
LEMMA UnmountKept == ASSUME SessionInv, Unmount PROVE SessionInv'
<1>1. CASE /\ share /\ share' \in BOOLEAN /\ ~share'
          /\ UNCHANGED <<hostVars, guestVars, sigVars, opts, api, reader, quit, sub,
                         report, ctrlc, comm, fg>>
  <2>1. Stack(deferred') /\ Left' = Left
    BY <1>1, LeftActions DEF Left
  <2>2. TypeOK' BY <1>1, <2>1 DEF SessionInv, TypeOK, Points, Resources, Stack
  <2>3. MainInv' BY <1>1, <2>1 DEF SessionInv, MainInv
  <2>4. HeldInv' BY <1>1, <2>1 DEF SessionInv, HeldInv
  <2>5. DirInv' BY <1>1, <2>1 DEF SessionInv, DirInv
  <2>6. VmInv' BY <1>1, <2>1 DEF SessionInv, VmInv
  <2>7. ReportInv' BY <1>1, <2>1 DEF SessionInv, ReportInv
  <2>8. TagInv' BY <1>1, <2>1 DEF SessionInv, TagInv
  <2>9. QED BY <2>1, <2>2, <2>3, <2>4, <2>5, <2>6, <2>7, <2>8 DEF SessionInv, Stack
<1>2. QED BY <1>1 DEF Unmount

(* A Quit request of `stop`. *)
LEMMA StopNotYetMountedKept == ASSUME SessionInv, StopNotYetMounted PROVE SessionInv'
<1>1. CASE /\ quit' = "received"
          /\ UNCHANGED <<hostVars, guestVars, sigVars, opts, api, reader, sub, report,
                         share, ctrlc, comm, fg>>
  <2>1. Stack(deferred') /\ Left' = Left
    BY <1>1, LeftActions DEF Left
  <2>2. TypeOK' BY <1>1, <2>1 DEF SessionInv, TypeOK, Points, Resources, Stack
  <2>3. MainInv' BY <1>1, <2>1 DEF SessionInv, MainInv
  <2>4. HeldInv' BY <1>1, <2>1 DEF SessionInv, HeldInv
  <2>5. DirInv' BY <1>1, <2>1 DEF SessionInv, DirInv
  <2>6. VmInv' BY <1>1, <2>1 DEF SessionInv, VmInv
  <2>7. ReportInv' BY <1>1, <2>1 DEF SessionInv, ReportInv
  <2>8. TagInv' BY <1>1, <2>1 DEF SessionInv, TagInv
  <2>9. QED BY <2>1, <2>2, <2>3, <2>4, <2>5, <2>6, <2>7, <2>8 DEF SessionInv, Stack
<1>2. QED BY <1>1 DEF StopNotYetMounted, QuitArrives

(* One more signal. *)
LEMMA TermSignalKept == ASSUME SessionInv, TermSignal PROVE SessionInv'
<1>1. CASE /\ sent < MaxSignals /\ sent' = sent + 1 /\ fwdq' \in BOOLEAN /\ sesq' \in BOOLEAN
          /\ UNCHANGED <<hostVars, guestVars, hub, opts, api, reader, quit, sub,
                         report, share, ctrlc, comm, fg>>
  <2>1. Stack(deferred') /\ Left' = Left
    BY <1>1, LeftActions DEF Left
  <2>2. TypeOK' BY <1>1, <2>1, MaxSignalsAssumption DEF SessionInv, TypeOK, Points, Resources, Stack
  <2>3. MainInv' BY <1>1, <2>1 DEF SessionInv, MainInv
  <2>4. HeldInv' BY <1>1, <2>1 DEF SessionInv, HeldInv
  <2>5. DirInv' BY <1>1, <2>1 DEF SessionInv, DirInv, TypeOK
  <2>6. VmInv' BY <1>1, <2>1 DEF SessionInv, VmInv
  <2>7. ReportInv' BY <1>1, <2>1 DEF SessionInv, ReportInv
  <2>8. TagInv' BY <1>1, <2>1 DEF SessionInv, TagInv
  <2>9. QED BY <2>1, <2>2, <2>3, <2>4, <2>5, <2>6, <2>7, <2>8 DEF SessionInv, Stack
<1>2. QED BY <1>1 DEF TermSignal, SessionInv, TypeOK

-----------------------------------------------------------------------------
(* The theorems                                                             *)

(* The state a session starts in. *)
LEMMA InitialInv == Init => SessionInv
<1> SUFFICES ASSUME Init PROVE SessionInv OBVIOUS
<1>1. Stack(deferred) /\ Left = {} BY StackEmpty DEF Init, Left
<1>2. TypeOK
  <2>1. /\ printed \in BOOLEAN /\ tag \in BOOLEAN /\ share \in BOOLEAN /\ seen \in BOOLEAN
        /\ fwdq \in BOOLEAN /\ sesq \in BOOLEAN /\ ctrlc \in BOOLEAN
    BY Zenon DEF Init
  <2>2. opts \in SUBSET OptionNames /\ sent \in 0..MaxSignals /\ code \in 0..255 /\ fg \in -1..255
    BY OptionsAssumption, MaxSignalsAssumption DEF Init
  <2>3. /\ pc \in Points /\ errAt \in Points \cup {"none"} /\ held \subseteq Resources
        /\ raw \in RawStatuses /\ vm \in VmStates
    BY DEF Init, Points, RawStatuses, VmStates
  <2>4. /\ api \in {"off", "starting", "bound", "failed"}
        /\ reader \in {"off", "reading", "ready", "failed", "cut"}
        /\ nfs \in {"none", "ready", "failed"} /\ quit \in {"none", "received", "lost"}
        /\ sub \in {"none", "open", "failed"} /\ report \in {"none", "sent", "saved", "missed"}
        /\ hub \in {"none", "fwd", "session"} /\ comm \in {"none", "detach", "join"}
    BY DEF Init
  <2>5. QED BY <1>1, <2>1, <2>2, <2>3, <2>4, Zenon DEF TypeOK, Stack
<1>3. MainInv /\ HeldInv /\ DirInv BY <1>1 DEF Init, MainInv, HeldInv, DirInv
<1>4. VmInv /\ ReportInv /\ TagInv BY <1>1 DEF Init, VmInv, ReportInv, TagInv
<1>5. QED BY <1>1, <1>2, <1>3, <1>4 DEF SessionInv, Stack

(* No step of anybody breaks the invariant. *)
LEMMA InvKept == SessionInv /\ [Next]_vars => SessionInv'
<1> SUFFICES ASSUME SessionInv, [Next]_vars PROVE SessionInv' OBVIOUS
<1>1. CASE Main
  BY <1>1, StartNetHelperKept, WaitForHelperSocketKept, CheckHelperKept, PrepareKeyFileKept,
     ForkVmKept, SetupHostKept, ServeApiKept, SetupRpcbindKept, SpawnPtyReaderKept,
     StartForwarderKept, WaitForNfsServerKept, SwitchSubscriberKept, RequestMountKept,
     WaitForMountKept, DetachKept, WaitForUnmountKept, SendQuitCmdKept,
     JoinForegroundKept, WaitForVmKept, UnwindResourceKept, UnwindVmWaitKept,
     UnwindReportKept, UnwindQuitKept, ExitKept
  DEF Main
<1>2. CASE UNCHANGED vars
  <2>1. Stack(deferred') /\ Left' = Left BY <1>2, LeftActions DEF vars, Left
  <2>2. TypeOK' /\ MainInv' /\ HeldInv' BY <1>2, <2>1 DEF SessionInv, vars, TypeOK, MainInv, HeldInv
  <2>3. DirInv' /\ VmInv' BY <1>2, <2>1 DEF SessionInv, vars, DirInv, VmInv
  <2>4. ReportInv' /\ TagInv' BY <1>2, <2>1 DEF SessionInv, vars, ReportInv, TagInv
  <2>5. QED BY <2>1, <2>2, <2>3, <2>4 DEF SessionInv, Stack
<1>3. QED
  BY <1>1, <1>2, BindApiKept, ReadPtyKept, ReadPtyFailsKept, SubscribeToVmEventsKept, ForwardSignalKept, GuestKept,
     KillKept, ForegroundKept, UnmountKept, StopNotYetMountedKept, TermSignalKept
  DEF Next

(* The inductive invariant of a session. *)
THEOREM SessionInvariant == Spec => []SessionInv
BY InitialInv, InvKept, PTL DEF Spec

(* The state of a session keeps its type. *)
THEOREM SessionTypeCorrect == Spec => []TypeOK
<1>1. SessionInv => TypeOK
  BY LeftActions DEF SessionInv
<1>2. QED BY <1>1, SessionInvariant, PTL

(* The host process never exits before its VM, and reaps it. *)
THEOREM VmAlwaysReaped == Spec => []VmReaped
<1>1. SessionInv => VmReaped
  BY LeftActions DEF SessionInv, VmReaped, MainInv, VmInv, TypeOK, VmStates
<1>2. QED BY <1>1, SessionInvariant, PTL

(* While the VM runs, nothing it depends on is removed: its clean-ups have a
   lower rank than the wait for the VM. *)
THEOREM VmKeepsResources == Spec => []VmResourcesKept
<1>1. SessionInv => VmResourcesKept
  BY LeftActions DEF SessionInv, VmResourcesKept, VmInv, Running
<1>2. QED BY <1>1, SessionInvariant, PTL

(* Every resource is released on every path of run_mount_child, with the
   exceptions ResourcesReleased names. *)
THEOREM AllResourcesReleased == Spec => []ResourcesReleased
<1>1. SessionInv => ResourcesReleased
  BY LeftActions DEF SessionInv, ResourcesReleased, MainInv, HeldInv, DirInv
<1>2. QED BY <1>1, SessionInvariant, PTL

(* A session without an error saves a delivered report. *)
THEOREM ReportAlwaysSaved == Spec => []ReportSaved
<1>1. SessionInv => ReportSaved
  BY LeftActions DEF SessionInv, ReportSaved, MainInv, ReportInv
<1>2. QED BY <1>1, SessionInvariant, PTL

(* The failure of a guest is the failure of a joined foreground command,
   unless PtyReader was ended by a read error before the exit-code tag. *)
THEOREM GuestFailureReachesForeground == Spec => []GuestFailureReported
<1>1. SessionInv => GuestFailureReported
  BY LeftActions DEF SessionInv, GuestFailureReported, MainInv, TagInv
<1>2. QED BY <1>1, SessionInvariant, PTL

=============================================================================
