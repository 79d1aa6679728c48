----------------------------- MODULE GuestMount -----------------------------
(***************************************************************************)
(* vmproxy's run() in the guest, from its ready tag to the end of main,    *)
(* and the host threads at the other end of the console.                   *)
(*                                                                         *)
(*   guest   decrypts, imports, mounts and exports the file system, runs   *)
(*           the custom actions, waits for Quit and drops its Deferred     *)
(*           stack; it talks by printing tags on the console;              *)
(*   reader  the host's PtyReader, which reads the console line by line;   *)
(*   host    the main thread of run_mount_child while it shows the         *)
(*           passphrase prompts and waits for the NFS server;              *)
(*   user    types a passphrase when asked for one.                        *)
(*                                                                         *)
(* The guest system is Linux.  Every call with a `?` may fail.             *)
(***************************************************************************)
EXTENDS Integers, Sequences, Deferred

CONSTANTS
  MaxDevices,  \* bound on the encrypted devices, or datasets of a pool
  Setups       \* the requests considered, see SetupType

ASSUME MaxDevicesAssumption == MaxDevices \in Nat \ {0}

Devices == 1..MaxDevices

(* What the host asks for: the kind of file system; the number of encrypted *)
(* devices or, for zfs, datasets; one passphrase for all; the passphrases   *)
(* in the environment; --key-file; -o ro; a custom action with all hooks.   *)
SetupType ==
  [kind : {"disk", "zfs", "none"}, enc : 0..MaxDevices, reuse : BOOLEAN,
   env : SUBSET Devices, key : BOOLEAN, ro : BOOLEAN, hooks : BOOLEAN]

ASSUME SetupsAssumption == Setups \subseteq SetupType

VARIABLES
  setup,     \* the request
  gpc,       \* where run() is
  dev,       \* the encrypted device or dataset it is at
  pwd,       \* it has one passphrase for all devices
  deferred,  \* its Deferred stack
  fs,        \* the file system: "none", "imported", "partial" or "mounted"
  info,      \* its label, export mode and exports, as the guest knows them
  result,    \* how run() ended: "none", "ok", "err" or "panic"
  nfsUp,     \* entrypoint.sh has printed its READY line
  report,    \* the final report was handed over
  killed,    \* the VM process was killed
  console,   \* lines printed and not read yet
  rd,        \* what PtyReader has gathered from the tags
  eof,       \* PtyReader has ended
  cut,       \* ... at an error, not at the end of the VM's output
  status,    \* what it has sent on nfs_ready_tx: "none", "ready", "failed"
  sub,       \* the event subscription was accepted
  log,       \* console output of the guest is shown to the user
  prompts,   \* the prompt channel
  hpc,       \* where the host's main thread is
  shown,     \* number of passphrase callbacks called
  asked,     \* number of times the user could see that he is asked
  typed,     \* number of passphrases typed
  taken,     \* number of those the guest has read
  quit       \* a Quit has arrived

pwdVars   == <<asked, typed>>
guestVars == <<gpc, dev, pwd, deferred, fs, info, result, nfsUp, report,
               killed, taken>>
readVars  == <<rd, eof, cut, status, sub, log>>
vars == <<setup, guestVars, readVars, console, prompts, hpc, shown, pwdVars,
          quit>>

Tags == {"vmproxy", "start", "end", "on", "off", "label", "ro", "exp1", "exp2",
         "READY", "exit", "text"}
Points == {"start", "common", "common_read", "dev", "dev_read", "volumes",
           "import", "before", "before_run", "mount", "mounting", "zfs",
           "zfs_read", "after", "after_run", "register", "options", "exports",
           "entry", "serving", "unwind", "off"}

Actions == {"report", "prompt_end", "force_off", "unmount", "before_unmount"}
Exports == {"exp1", "exp2"}

NoInfo == [label |-> FALSE, ro |-> FALSE, exports |-> {}]

Init ==
  /\ setup \in Setups
  /\ gpc = "start" /\ dev = 1 /\ pwd = FALSE
  /\ deferred = <<"report">>
  /\ fs = "none" /\ info = NoInfo /\ result = "none"
  /\ nfsUp = FALSE /\ report = FALSE /\ killed = FALSE
  /\ console = <<"vmproxy">>
  /\ rd = [label |-> FALSE, ro |-> FALSE, exports |-> {}, exit |-> FALSE]
  /\ eof = FALSE /\ cut = FALSE /\ status = "none" /\ sub = FALSE /\ log = FALSE
  /\ prompts = << >> /\ hpc = "start" /\ shown = 0
  /\ asked = 0 /\ typed = 0 /\ taken = 0
  /\ quit = FALSE

Say(tags) == console' = console \o tags

(* A `?` returns an error: the Deferred stack is dropped. *)
Fail == gpc' = "unwind" /\ result' = "err"

-----------------------------------------------------------------------------
(* Decryption                                                              *)

(* The custom action is decoded and the key file located. *)
SetUp ==
  /\ gpc = "start"
  /\ \/ gpc' = "common" /\ UNCHANGED result
     \/ Fail
  /\ UNCHANGED <<dev, pwd, deferred, fs, info, nfsUp, report, taken, console>>

(* decrypt, before its loop: one passphrase for all devices, from the       *)
(* environment or from the user.                                            *)
AskCommon ==
  /\ gpc = "common"
  /\ \/ /\ setup.kind # "disk" \/ setup.enc = 0
        /\ gpc' = "volumes"
        /\ UNCHANGED <<result, pwd, deferred, console>>
     \/ /\ setup.kind = "disk" /\ setup.enc > 0
        /\ ~setup.reuse \/ setup.key
        /\ gpc' = "dev"
        /\ UNCHANGED <<result, pwd, deferred, console>>
     \/ /\ setup.kind = "disk" /\ setup.enc > 0
        /\ setup.reuse /\ ~setup.key
        /\ \/ /\ 1 \in setup.env
              /\ pwd' = TRUE /\ gpc' = "dev"
              /\ UNCHANGED <<result, deferred, console>>
           \/ /\ 1 \notin setup.env /\ setup.env # {}
              /\ Fail
              /\ UNCHANGED <<pwd, deferred, console>>
           \/ /\ setup.env = {}
              /\ Say(<<"start">>)
              /\ deferred' = Add(deferred, "prompt_end")
              /\ gpc' = "common_read"
              /\ UNCHANGED <<result, pwd>>
  /\ UNCHANGED <<dev, fs, info, nfsUp, report, taken>>

(* read_password returns a passphrase. *)
ReadCommon ==
  /\ gpc = "common_read"
  /\ taken < typed
  /\ taken' = taken + 1
  /\ Say(<<"end">>)
  /\ deferred' = PopAction(deferred, "prompt_end")
  /\ pwd' = TRUE /\ gpc' = "dev"
  /\ UNCHANGED <<dev, fs, info, result, nfsUp, report>>

(* A passphrase is at hand for device d; cryptsetup's stdin is a pipe.      *)
HasPassphrase(d) == pwd \/ d \in setup.env
Piped == ~setup.key /\ (setup.reuse \/ setup.env # {})

(* One round of decrypt's loop: cryptsetup gets the passphrase at hand, the *)
(* key file, or asks the user; taking the stdin of a cryptsetup that        *)
(* inherited its own panics.                                                *)
Decrypt ==
  /\ gpc = "dev"
  /\ \/ /\ dev > setup.enc
        /\ gpc' = "volumes"
        /\ UNCHANGED <<dev, result, deferred, console>>
     \/ /\ dev <= setup.enc
        /\ \/ HasPassphrase(dev) /\ Piped
           \/ ~HasPassphrase(dev) /\ setup.key
        /\ dev' = dev + 1
        /\ UNCHANGED <<gpc, result, deferred, console>>
     \/ /\ dev <= setup.enc
        /\ HasPassphrase(dev) /\ ~Piped
        /\ gpc' = "unwind" /\ result' = "panic"
        /\ UNCHANGED <<dev, deferred, console>>
     \/ /\ dev <= setup.enc
        /\ ~HasPassphrase(dev) /\ ~setup.key /\ setup.env = {}
        /\ Say(<<"start">>)
        /\ deferred' = Add(deferred, "prompt_end")
        /\ gpc' = "dev_read"
        /\ UNCHANGED <<dev, result>>
     \/ /\ dev <= setup.enc
        /\ Fail
        /\ UNCHANGED <<dev, deferred, console>>
  /\ UNCHANGED <<pwd, fs, info, nfsUp, report, taken>>

(* Mutant: the end of the prompt is not announced when decryption works. *)
ReadDevice_NoEnd ==
  /\ gpc = "dev_read"
  /\ taken < typed
  /\ taken' = taken + 1
  /\ deferred' = PopAction(deferred, "prompt_end")
  /\ \/ gpc' = "dev" /\ dev' = dev + 1 /\ UNCHANGED <<result, console>>
     \/ Fail /\ Say(<<"end">>) /\ UNCHANGED dev
  /\ UNCHANGED <<pwd, fs, info, nfsUp, report>>

(* cryptsetup has read the passphrase; it is right or wrong. *)
ReadDevice ==
  /\ gpc = "dev_read"
  /\ taken < typed
  /\ taken' = taken + 1
  /\ Say(<<"end">>)
  /\ deferred' = PopAction(deferred, "prompt_end")
  /\ \/ gpc' = "dev" /\ dev' = dev + 1 /\ UNCHANGED result
     \/ Fail /\ UNCHANGED dev
  /\ UNCHANGED <<pwd, fs, info, nfsUp, report>>

-----------------------------------------------------------------------------
(* Mounting                                                                *)

(* activate_volume_managers, detect_fs_type, resolve_mount_label, and the   *)
(* directory under /mnt.                                                    *)
ActivateVolumes ==
  /\ gpc = "volumes"
  /\ \/ \E label \in BOOLEAN :
          /\ info' = [info EXCEPT !.label = label]
          /\ Say(IF label THEN <<"label">> ELSE << >>)
          /\ gpc' = "import"
          /\ UNCHANGED result
     \/ Fail /\ UNCHANGED <<info, console>>
  /\ UNCHANGED <<dev, pwd, deferred, fs, nfsUp, report, taken>>

(* import_zfs_pools: the pools may be imported and their listing fail.      *)
(* Encrypted datasets get a warning about their performance.                *)
ImportPools ==
  /\ gpc = "import"
  /\ \/ /\ setup.kind = "zfs"
        /\ \/ /\ fs' = "imported" /\ gpc' = "before"
              /\ Say(IF setup.enc > 0 THEN <<"on", "off">> ELSE << >>)
              /\ UNCHANGED result
           \/ fs' \in {"none", "imported"} /\ Fail /\ UNCHANGED console
     \/ setup.kind # "zfs" /\ gpc' = "before" /\ UNCHANGED <<fs, result, console>>
  /\ UNCHANGED <<dev, pwd, deferred, info, nfsUp, report, taken>>

(* A hook of the custom action with its output shown: the switch back       *)
(* precedes the check of its result.                                        *)
RunHook(at, running, next) ==
  /\ \/ /\ gpc = at
        /\ \/ setup.hooks /\ gpc' = running /\ Say(<<"on">>)
           \/ ~setup.hooks /\ gpc' = next /\ UNCHANGED console
        /\ UNCHANGED result
     \/ /\ gpc = running
        /\ Say(<<"off">>)
        /\ \/ gpc' = next /\ UNCHANGED result
           \/ Fail
  /\ UNCHANGED <<dev, pwd, deferred, fs, info, nfsUp, report, taken>>

BeforeMount == RunHook("before", "before_run", "mount")

(* mount, up to the command itself. *)
StartMount ==
  /\ gpc = "mount"
  /\ \/ /\ setup.kind = "none"
        /\ gpc' = "after"
        /\ UNCHANGED <<dev, deferred, console>>
     \/ /\ setup.kind # "none"
        /\ Say(<<"on">>)
        /\ deferred' = Add(deferred, "force_off")
        /\ dev' = 1
        /\ gpc' = IF setup.kind = "zfs" THEN "zfs" ELSE "mounting"
  /\ UNCHANGED <<pwd, fs, info, result, nfsUp, report, taken>>

(* mount_datasets, one dataset: its key is loaded from the key file or the  *)
(* environment, or zfs asks for it, which the user sees on the console.     *)
MountDataset ==
  /\ gpc = "zfs" /\ dev <= MaxDevices
  /\ \/ /\ dev > setup.enc \/ setup.key \/ dev \in setup.env
        /\ fs' = "partial" /\ dev' = dev + 1
        /\ UNCHANGED <<gpc, result, console>>
     \/ /\ dev <= setup.enc /\ ~setup.key /\ dev \notin setup.env
        /\ Say(<<"text">>)
        /\ gpc' = "zfs_read"
        /\ UNCHANGED <<fs, dev, result>>
     \/ Fail /\ UNCHANGED <<fs, dev, console>>
  /\ UNCHANGED <<pwd, deferred, info, nfsUp, report, taken>>

ReadDataset ==
  /\ gpc = "zfs_read"
  /\ taken < typed
  /\ taken' = taken + 1
  /\ \/ fs' = "partial" /\ dev' = dev + 1 /\ gpc' = "zfs" /\ UNCHANGED result
     \/ Fail /\ UNCHANGED <<fs, dev>>
  /\ UNCHANGED <<pwd, deferred, info, nfsUp, report, console>>

(* Mutant: the unmount goes below everything registered so far. *)
FinishMount_Below ==
  /\ gpc = "mounting" \/ (gpc = "zfs" /\ dev > MaxDevices)
  /\ \/ /\ fs' = "mounted"
        /\ Say(<<"off">>)
        /\ deferred' = <<"unmount">> \o PopAction(deferred, "force_off")
        /\ gpc' = "after"
        /\ UNCHANGED result
     \/ gpc = "mounting" /\ Fail /\ UNCHANGED <<fs, deferred, console>>
  /\ UNCHANGED <<dev, pwd, info, nfsUp, report, taken>>

(* mount(8), or the last dataset, is done: the unmount is registered. *)
FinishMount ==
  /\ gpc = "mounting" \/ (gpc = "zfs" /\ dev > MaxDevices)
  /\ \/ /\ fs' = "mounted"
        /\ Say(<<"off">>)
        /\ deferred' = Add(PopAction(deferred, "force_off"), "unmount")
        /\ gpc' = "after"
        /\ UNCHANGED result
     \/ gpc = "mounting" /\ Fail /\ UNCHANGED <<fs, deferred, console>>
  /\ UNCHANGED <<dev, pwd, info, nfsUp, report, taken>>

(* Mutant: a failing hook returns before the output is switched off. *)
AfterMount_LeavesOn ==
  /\ \/ /\ gpc = "after"
        /\ gpc' = IF setup.hooks THEN "after_run" ELSE "register"
        /\ Say(IF setup.hooks THEN <<"on">> ELSE << >>)
        /\ UNCHANGED result
     \/ /\ gpc = "after_run"
        /\ \/ gpc' = "register" /\ Say(<<"off">>) /\ UNCHANGED result
           \/ Fail /\ UNCHANGED console
  /\ UNCHANGED <<dev, pwd, deferred, fs, info, nfsUp, report, taken>>

AfterMount == RunHook("after", "after_run", "register")

(* The passphrase is not read: read_password returns an error and leaves    *)
(* the end tag to the Deferred stack; cryptsetup or zfs gives up.           *)
ReadFails ==
  /\ \/ gpc \in {"common_read", "zfs_read"} /\ UNCHANGED <<deferred, console>>
     \/ /\ gpc = "dev_read"
        /\ Say(<<"end">>)
        /\ deferred' = PopAction(deferred, "prompt_end")
  /\ Fail
  /\ UNCHANGED <<setup, dev, pwd, fs, info, nfsUp, report, killed, taken,
                 readVars, prompts, hpc, shown, pwdVars, quit>>

-----------------------------------------------------------------------------
(* Exporting and serving                                                   *)

(* Mutant: the hook is registered below the unmount. *)
RegisterBeforeUnmount_Below ==
  /\ gpc = "register"
  /\ deferred' = <<"report", "before_unmount">> \o SubSeq(deferred, 2, Len(deferred))
  /\ gpc' = "options"
  /\ UNCHANGED <<dev, pwd, fs, info, result, nfsUp, report, taken, console>>

RegisterBeforeUnmount ==
  /\ gpc = "register"
  /\ deferred' = Add(deferred, "before_unmount")
  /\ gpc' = "options"
  /\ UNCHANGED <<dev, pwd, fs, info, result, nfsUp, report, taken, console>>

(* What mount(8) lists for the disk: the kernel may have made it read-only; *)
(* without a disk nothing is listed.  ZFS goes by what was asked for.       *)
EffectiveReadOnly ==
  CASE setup.kind = "disk" -> {TRUE, setup.ro}
    [] setup.kind = "zfs"  -> {setup.ro}
    [] OTHER               -> {FALSE}

(* Mutant: only the change from read-only is announced. *)
ReadOptions_OnlyRw ==
  /\ gpc = "options"
  /\ \E ro \in EffectiveReadOnly :
       /\ info' = [info EXCEPT !.ro = ro]
       /\ Say(IF setup.ro /\ ~ro THEN <<"ro">> ELSE << >>)
       /\ gpc' = "exports"
  /\ UNCHANGED <<dev, pwd, deferred, fs, result, nfsUp, report, taken>>

ReadOptions ==
  /\ gpc = "options"
  /\ \/ \E ro \in EffectiveReadOnly :
          /\ info' = [info EXCEPT !.ro = ro]
          /\ Say(IF ro # setup.ro THEN <<"ro">> ELSE << >>)
          /\ gpc' = "exports"
          /\ UNCHANGED result
     \/ Fail /\ UNCHANGED <<info, console>>
  /\ UNCHANGED <<dev, pwd, deferred, fs, nfsUp, report, taken>>

(* build_nfs_exports: the options of every path, its tags, then the file. *)
BuildExports ==
  /\ gpc = "exports"
  /\ LET paths == IF setup.hooks THEN <<"exp1", "exp2">> ELSE <<"exp1">> IN
     \/ /\ info' = [info EXCEPT !.exports = {paths[i] : i \in DOMAIN paths}]
        /\ Say(paths)
        /\ \/ gpc' = "entry" /\ UNCHANGED result
           \/ Fail
     \/ Fail /\ UNCHANGED <<info, console>>
  /\ UNCHANGED <<dev, pwd, deferred, fs, nfsUp, report, taken>>

(* entrypoint.sh is started; that it cannot be is no error. *)
StartEntrypoint ==
  /\ gpc = "entry"
  /\ \/ gpc' = "serving" /\ UNCHANGED result
     \/ gpc' = "unwind" /\ result' = "ok"
  /\ UNCHANGED <<dev, pwd, deferred, fs, info, nfsUp, report, taken, console>>

(* entrypoint.sh has the NFS server running. *)
NfsReady ==
  /\ gpc = "serving" /\ ~nfsUp
  /\ nfsUp' = TRUE
  /\ Say(<<"READY">>)
  /\ UNCHANGED <<gpc, dev, pwd, deferred, fs, info, result, report, taken>>

(* wait_for_quit_cmd returns and entrypoint.sh is terminated. *)
WaitForQuitCmd ==
  /\ gpc = "serving" /\ quit
  /\ gpc' = "unwind" /\ result' = "ok"
  /\ UNCHANGED <<dev, pwd, deferred, fs, info, nfsUp, report, taken, console>>

-----------------------------------------------------------------------------
(* The end of run() and of main                                            *)

(* The Deferred stack is dropped, newest first.  A file system is unmounted *)
(* by retrying until it is; what `zpool export` returned is ignored.  The   *)
(* report waits for a subscriber or a Quit.                                 *)
Unwind ==
  /\ gpc = "unwind" /\ deferred # << >>
  /\ deferred' = Front(deferred)
  /\ \/ Last(deferred) = "prompt_end" /\ Say(<<"end">>) /\ UNCHANGED <<fs, report>>
     \/ Last(deferred) = "force_off" /\ Say(<<"off">>) /\ UNCHANGED <<fs, report>>
     \/ Last(deferred) = "before_unmount" /\ UNCHANGED <<fs, report, console>>
     \/ /\ Last(deferred) = "unmount"
        /\ fs' \in IF setup.kind = "zfs" THEN {"none", "mounted"} ELSE {"none"}
        /\ UNCHANGED <<report, console>>
     \/ /\ Last(deferred) = "report"
        /\ sub \/ quit
        /\ report' = TRUE
        /\ UNCHANGED <<fs, console>>
  /\ UNCHANGED <<gpc, dev, pwd, info, result, nfsUp, taken>>

(* Mutant: a panic ends the program without dropping the Deferred stack. *)
MainReturns_PanicAborts ==
  /\ gpc = "unwind" /\ (deferred = << >> \/ result = "panic")
  /\ gpc' = "off"
  /\ Say(IF result = "err" THEN <<"exit">> ELSE << >>)
  /\ UNCHANGED <<dev, pwd, deferred, fs, info, result, nfsUp, report, taken>>

(* main prints the exit code of an error, not of a panic. *)
MainReturns ==
  /\ gpc = "unwind" /\ deferred = << >>
  /\ gpc' = "off"
  /\ Say(IF result = "err" THEN <<"exit">> ELSE << >>)
  /\ UNCHANGED <<dev, pwd, deferred, fs, info, result, nfsUp, report, taken>>

Guest ==
  /\ \/ SetUp \/ AskCommon \/ ReadCommon \/ Decrypt \/ ReadDevice
     \/ ActivateVolumes \/ ImportPools \/ BeforeMount \/ StartMount
     \/ MountDataset \/ ReadDataset \/ FinishMount \/ AfterMount
     \/ RegisterBeforeUnmount \/ ReadOptions \/ BuildExports
     \/ StartEntrypoint \/ NfsReady \/ WaitForQuitCmd
     \/ Unwind \/ MainReturns
  /\ UNCHANGED <<setup, killed, readVars, prompts, hpc, shown, pwdVars, quit>>

VmKilled ==
  /\ gpc # "off"
  /\ gpc' = "off" /\ killed' = TRUE
  /\ UNCHANGED <<setup, dev, pwd, deferred, fs, info, result, nfsUp, report,
                 taken, readVars, console, prompts, hpc, shown, pwdVars, quit>>

-----------------------------------------------------------------------------
(* The host                                                                *)

(* PtyReader: one line. *)
ReadLine ==
  /\ console # << >> /\ ~eof
  /\ console' = Tail(console)
  /\ LET tag == Head(console) IN
     /\ rd' = CASE tag = "label" -> [rd EXCEPT !.label = TRUE]
                [] tag = "ro" -> [rd EXCEPT !.ro = TRUE]
                [] tag \in Exports -> [rd EXCEPT !.exports = @ \cup {tag}]
                [] tag = "exit" -> [rd EXCEPT !.exit = TRUE]
                [] OTHER -> rd
     /\ status' = IF tag = "READY" THEN "ready" ELSE status
     /\ log' = CASE tag = "on" -> TRUE [] tag = "off" -> FALSE [] OTHER -> log
     /\ prompts' = CASE tag = "start" -> Append(prompts, TRUE)
                     [] tag = "end"   -> Append(prompts, FALSE)
                     [] OTHER         -> prompts
     /\ asked' = IF tag = "text" /\ log THEN asked + 1 ELSE asked
  /\ UNCHANGED <<setup, guestVars, eof, cut, sub, hpc, shown, typed, quit>>

(* subscribe_to_vm_events, the thread PtyReader spawns when it reads the    *)
(* first tag: the guest accepts until it has read a Quit; or the call fails *)
(* and is not repeated.                                                     *)
SubscribeToVmEvents ==
  /\ "vmproxy" \notin Range(console) /\ ~sub
  /\ gpc # "off" /\ ~quit
  /\ sub' = TRUE
  /\ UNCHANGED <<setup, guestVars, rd, eof, cut, status, log, console, prompts,
                 hpc, shown, pwdVars, quit>>

(* PtyReader ends: it has no more to read, or read_line returns an error,   *)
(* as it does for output that is not UTF-8; what the VM prints from then on *)
(* is lost.  The terminal is closed and the senders are dropped.            *)
EndOfReader ==
  /\ ~eof /\ eof' = TRUE
  /\ status' = IF status = "none" THEN "failed" ELSE status
  /\ UNCHANGED <<setup, guestVars, rd, sub, log, console, prompts, hpc, shown,
                 pwdVars, quit>>

ReadEof == console = << >> /\ gpc = "off" /\ UNCHANGED cut /\ EndOfReader

ReadError == cut' = TRUE /\ EndOfReader

(* Mutants: as if each device, or all of them, had one prompt. *)
Callbacks_Each ==
  IF setup.kind = "disk" /\ setup.env = {} /\ ~setup.key THEN setup.enc ELSE 0
Callbacks_One ==
  IF setup.kind = "disk" /\ setup.env = {} /\ ~setup.key /\ setup.enc > 0
  THEN 1 ELSE 0

(* prepare_passphrase_callbacks: how many prompts the host expects. *)
Callbacks ==
  IF setup.kind = "disk" /\ setup.env = {} /\ ~setup.key /\ setup.enc > 0
  THEN IF setup.reuse THEN 1 ELSE setup.enc
  ELSE 0

(* Mutant: the callback is called before the guest's prompt is awaited. *)
AwaitPrompt_AskFirst ==
  /\ hpc = "start"
  /\ \/ /\ shown = Callbacks
        /\ hpc' = "nfs"
        /\ UNCHANGED <<prompts, shown, asked>>
     \/ /\ shown < Callbacks
        /\ asked = shown /\ asked' = asked + 1
        /\ UNCHANGED <<hpc, prompts, shown>>
     \/ /\ asked > shown
        /\ prompts # << >> \/ eof
        /\ prompts' = IF prompts = << >> THEN prompts ELSE Tail(prompts)
        /\ shown' = shown + 1
        /\ hpc' = "end"
        /\ UNCHANGED asked
  /\ UNCHANGED <<setup, guestVars, readVars, console, typed, quit>>

(* The loop over the callbacks: recv returns a message, whatever it says,   *)
(* or fails once PtyReader is gone; then the user is asked.                 *)
AwaitPrompt ==
  /\ hpc = "start"
  /\ \/ /\ shown = Callbacks
        /\ hpc' = "nfs"
        /\ UNCHANGED <<prompts, shown, asked>>
     \/ /\ shown < Callbacks
        /\ prompts # << >> \/ eof
        /\ prompts' = IF prompts = << >> THEN prompts ELSE Tail(prompts)
        /\ shown' = shown + 1
        /\ asked' = asked + 1
        /\ hpc' = "end"
  /\ UNCHANGED <<setup, guestVars, readVars, console, typed, quit>>

AwaitPromptEnd ==
  /\ hpc = "end"
  /\ prompts # << >> \/ eof
  /\ prompts' = IF prompts = << >> THEN prompts ELSE Tail(prompts)
  /\ hpc' = "start"
  /\ UNCHANGED <<setup, guestVars, readVars, console, shown, pwdVars, quit>>

(* wait_for_nfs_server; a port that cannot be reached is a failure. *)
AwaitNfs ==
  /\ hpc = "nfs" /\ status # "none"
  /\ hpc' \in {status, "failed"}
  /\ UNCHANGED <<setup, guestVars, readVars, console, prompts, shown, pwdVars,
                 quit>>

(* A Quit of this host or of `anylinuxfs stop`. *)
SendQuit ==
  /\ ~quit /\ gpc # "off"
  /\ quit' = TRUE
  /\ UNCHANGED <<setup, guestVars, readVars, console, prompts, hpc, shown,
                 pwdVars>>

(* The user answers what he was asked.  StdinForwarder writes to the        *)
(* terminal of PtyReader: once that is closed nothing reaches the guest.    *)
Type ==
  /\ typed < asked /\ ~eof
  /\ typed' = typed + 1
  /\ UNCHANGED <<setup, guestVars, readVars, console, prompts, hpc, shown,
                 asked, quit>>

Host == AwaitPrompt \/ AwaitPromptEnd \/ AwaitNfs

Next ==
  \/ Guest \/ ReadFails \/ VmKilled
  \/ ReadLine \/ SubscribeToVmEvents \/ ReadEof \/ ReadError \/ Host
  \/ SendQuit \/ Type

(* The guest, the host's threads and the user go on; in particular the      *)
(* guest's retried unmount ends and entrypoint.sh starts the NFS server.    *)
(* No read has to fail, nobody has to kill the VM or to send Quit.          *)
Spec ==
  /\ Init /\ [][Next]_vars
  /\ WF_vars(Guest) /\ WF_vars(ReadLine) /\ WF_vars(ReadEof)
  /\ WF_vars(Host) /\ WF_vars(Type)

-----------------------------------------------------------------------------
TypeOK ==
  /\ setup \in Setups
  /\ gpc \in Points /\ dev \in 1..MaxDevices + 1
  /\ deferred \in Seq(Actions)
  /\ fs \in {"none", "imported", "partial", "mounted"}
  /\ info \in [label : BOOLEAN, ro : BOOLEAN, exports : SUBSET Exports]
  /\ rd \in [label : BOOLEAN, ro : BOOLEAN, exports : SUBSET Exports, exit : BOOLEAN]
  /\ result \in {"none", "ok", "err", "panic"}
  /\ status \in {"none", "ready", "failed"}
  /\ hpc \in {"start", "end", "nfs", "ready", "failed"}
  /\ console \in Seq(Tags) /\ prompts \in Seq(BOOLEAN)
  /\ pwd \in BOOLEAN /\ nfsUp \in BOOLEAN /\ report \in BOOLEAN /\ killed \in BOOLEAN
  /\ eof \in BOOLEAN /\ cut \in BOOLEAN /\ sub \in BOOLEAN /\ log \in BOOLEAN /\ quit \in BOOLEAN
  /\ shown \in Nat /\ asked \in Nat /\ typed \in Nat /\ taken \in Nat

\* run() waits for a passphrase
AtPrompt == gpc \in {"common_read", "dev_read", "zfs_read"}

(* On every path through run(), including its errors and the Quit, a disk   *)
(* is unmounted before the report is handed over, after which the guest     *)
(* powers off: the position of the unmount on the Deferred stack.           *)
UnmountedBeforeReport == report /\ setup.kind = "disk" => fs = "none"

(* The before_unmount hook of a custom action always finds the file system  *)
(* mounted, on every path that drops the Deferred stack.                    *)
HookFindsMount ==
  gpc = "unwind" /\ deferred # << >> /\ Last(deferred) = "before_unmount"
    => fs = "mounted" \/ setup.kind = "none"

(* When PtyReader announces a ready server, it has read everything the      *)
(* guest has to say about the share: the label, every export, and, if the   *)
(* exports are read-only, that they are.                                    *)
HostKnowsShare ==
  status = "ready" =>
    /\ rd.label = info.label
    /\ rd.exports = info.exports
    /\ info.ro => setup.ro \/ rd.ro

(* Output of the guest that was forced on the user's console ends with what *)
(* it was forced for: it is off again when the server is ready, and after   *)
(* a failed mount, whichever step failed; a killed VM, or a reader that     *)
(* ends at an error before the server is ready, leaves it as it is.         *)
ForcedOutputEnds ==
  \/ status = "none" \/ ~log
  \/ status = "failed" /\ (killed \/ cut)

(* The host takes the prompt messages for what they are: while it waits for *)
(* a prompt to start, it is not handed the end of an earlier one, and the   *)
(* other way round, although both come over one channel as plain messages   *)
(* and the guest leaves its prompts in several ways (run_mount_child).      *)
PromptsInStep ==
  prompts # << >> /\ hpc \in {"start", "end"} => prompts[1] = (hpc = "start")

(* No passphrase reaches the guest ahead of its prompt: while run() is at   *)
(* work, it has been given at most those it has read and the one it is      *)
(* waiting for, so that what is typed for one device is not read for        *)
(* another, also not when PtyReader has ended and the host, whose recv      *)
(* fails, asks for everything that is left.                                 *)
PassphraseForItsPrompt ==
  gpc # "off" /\ result = "none" => typed <= taken + (IF AtPrompt THEN 1 ELSE 0)

(* The guest is closing when nothing but the report is left to drop.  A     *)
(* killed VM stays in its phase; it promises nothing any more.              *)
ReportPhase ==
  IF gpc = "off" /\ ~killed THEN "off"
  ELSE IF result # "none" /\ deferred \in {<<"report">>, << >>} THEN "closing"
  ELSE "up"

Promise == INSTANCE GuestReport WITH
  phase <- ReportPhase, registered <- sub, quitRead <- quit, attempted <- report /\ sub

(* run() and its Deferred stack keep the safety part of what GuestReport    *)
(* asks of the guest: on every path that ends run(), its errors and panics  *)
(* included, main returns only after a registered host was given the        *)
(* report, and nobody is registered once a Quit has been read.              *)
KeepsReportPromise == Promise!Init /\ [][Promise!Next]_(Promise!avars)

(* A guest that waits for a passphrase gets it: the prompt tags make the    *)
(* host ask the user exactly when the guest waits, as long as the reader    *)
(* of the tags is not ended by an error.                                    *)
PromptAnswered == AtPrompt ~> (~AtPrompt \/ cut)

(* The host gets past its prompts and learns how the mount went, however    *)
(* many of the announced prompts the guest came to; only a failed guest     *)
(* that nobody subscribed to keeps it waiting, until somebody sends Quit.   *)
HostLearnsStatus == <>(hpc \in {"ready", "failed"}) \/ <>[](~sub /\ ~quit)

=============================================================================
