----------------------------- MODULE SubMounts -----------------------------
(***************************************************************************)
(* Nested NFS exports of one share: mount_subdirectories of the mount      *)
(* session (fsutil.rs, parallel_mount_recursive) and the `unmount` command *)
(* (run_unmount, unmount_nfs_subdirs, parallel_unmount_recursive), which   *)
(* run in different processes and meet only in the kernel's mount table.   *)
(*                                                                         *)
(* A path is a sequence of tokens, "/" being one of them, so that a byte   *)
(* prefix (/mnt/foo of /mnt/foo-1) and a path prefix can be told apart.    *)
(* Paths are canonical: the slashes separate components, none of which is  *)
(* empty, and so a path determines its components and is determined by     *)
(* them.                                                                   *)
(***************************************************************************)
EXTENDS Integers, Sequences, FiniteSets, SequencesExt

CONSTANTS
  Tokens,       \* what paths are made of
  Share,        \* path of the share in the guest
  Base,         \* where the host has mounted it
  ExportSets,   \* the sets of exports a guest may announce
  Foreign,      \* mounts of others, in their order, present from the start
  MaxFaults     \* mounts that fail and busy file systems, in one behaviour

Path == Seq(Tokens)

Canonical(p) ==
  /\ p # <<>> => p[Len(p)] # "/"
  /\ \A i \in 1..(Len(p) - 1) : ~(p[i] = "/" /\ p[i + 1] = "/")

\* q lies below p
Under(p, q) == IsStrictPrefix(p, q) /\ q[Len(p) + 1] = "/"

\* path-aware prefix match of run_unmount
OurMountPoint(p) == p = Base \/ Under(Base, p)

\* in a mount table, no mount comes after one that lies below it
NoneHidden(t) == \A i, j \in DOMAIN t : i < j => ~ Under(t[j], t[i])

ASSUME BaseAssumption ==
  /\ Share \in Path /\ Canonical(Share)
  /\ Base \in Path /\ Canonical(Base)
ASSUME ExportsAssumption ==
  \A S \in ExportSets : \A e \in S : e \in Path /\ Canonical(e) /\ Under(Share, e)
ASSUME ForeignAssumption ==
  /\ Foreign \in Seq(Path) /\ NoneHidden(Foreign)
  /\ \A i \in DOMAIN Foreign : Canonical(Foreign[i]) /\ ~ OurMountPoint(Foreign[i])
ASSUME FaultsAssumption == MaxFaults \in Nat

VARIABLES
  table,        \* the kernel's mount table: paths, in the order of mounting
  sess,         \* the session: "mounting" -> "waiting" -> "ended"
  mtrie,        \* dirtrie of mount_nfs_subdirs: key |-> path to mount
  mstate,       \* key |-> "todo", "run", "ok" or "failed"
  cmd,          \* `unmount`: "idle" -> "checked" -> "run" -> "done"
  utrie,        \* dirtrie of unmount_nfs_subdirs
  ustate,       \* key |-> "todo", "run" or "done"
  early,        \* the command read the table while exports were being mounted
  busy,         \* an umount of the command met a file system in use
  faults

vars == <<table, sess, mtrie, mstate, cmd, utrie, ustate, early, busy, faults>>
----------------------------------------------------------------------------
(* Paths and tries. *)

\* empty for the base itself; otherwise with the slash that ends the base
StripPrefix(p, base) == SubSeq(p, Len(base) + 1, Len(p))

\* Node::insert: one node for every relative path, here its key, and the node
\* of k is in the subtree of the node of a when Under(a, k)
Trie(paths, base, at) ==
  [k \in {StripPrefix(p, base) : p \in paths} |-> at \o k]

\* unmount_nfs_subdirs skips what neither is the base nor lies below it
UnmountTrie(paths) == Trie({p \in paths : OurMountPoint(p)}, Base, Base)

Below(p) == {q \in Range(table) : Under(p, q)}

\* every export that contains k is mounted where k's directory is looked up
DirectoryVisible(k) ==
  /\ Base \in Range(table)
  /\ \A a \in DOMAIN mtrie : Under(a, k) => mtrie[a] \in Range(table)

Init ==
  \E S \in ExportSets :
    /\ table = Append(Foreign, Base)
    /\ sess = "mounting"
    /\ mtrie = Trie(S, Share, Base)
    /\ mstate = [k \in DOMAIN mtrie |-> "todo"]
    /\ cmd = "idle"
    /\ utrie = <<>> /\ ustate = <<>>
    /\ early = FALSE /\ busy = FALSE
    /\ faults = 0
----------------------------------------------------------------------------
(* The session. The recursion visits a node's children, in parallel, once   *)
(* the mount of the node itself has succeeded; a failure ends the visit of  *)
(* its subtree, and try_for_each may or may not visit the other children.   *)

(* Mutant: the exports are mounted in no order. *)
MountReadyUnordered(k) == TRUE

MountReady(k) ==
  \A a \in DOMAIN mtrie : Under(a, k) => mstate[a] = "ok"

StartMount(k) ==
  /\ sess = "mounting" /\ mstate[k] = "todo"
  /\ MountReady(k)
  /\ mstate' = [mstate EXCEPT ![k] = "run"]
  /\ UNCHANGED <<table, sess, mtrie, cmd, utrie, ustate, early, busy, faults>>

\* without the exports around it, k may still find a directory of that name
MountDone(k) ==
  /\ mstate[k] = "run"
  /\ table' = Append(table, mtrie[k])
  /\ mstate' = [mstate EXCEPT ![k] = "ok"]
  /\ UNCHANGED <<sess, mtrie, cmd, utrie, ustate, early, busy, faults>>

\* mount exits with an error: the directory is not there, or any other reason
MountFails(k) ==
  /\ mstate[k] = "run"
  /\ \/ ~DirectoryVisible(k) /\ UNCHANGED faults
     \/ DirectoryVisible(k) /\ faults < MaxFaults /\ faults' = faults + 1
  /\ mstate' = [mstate EXCEPT ![k] = "failed"]
  /\ UNCHANGED <<table, sess, mtrie, cmd, utrie, ustate, early, busy>>

\* mount_subdirectories returns (an error is only printed); wait_for_unmount
MountsReturn ==
  /\ sess = "mounting"
  /\ \A k \in DOMAIN mtrie : mstate[k] # "run"
  /\ \/ \A k \in DOMAIN mtrie : mstate[k] # "todo"
     \/ \E k \in DOMAIN mtrie : mstate[k] = "failed"
  /\ sess' = "waiting"
  /\ UNCHANGED <<table, mtrie, mstate, cmd, utrie, ustate, early, busy, faults>>

ShareUnmounted ==
  /\ sess = "waiting"
  /\ Base \notin Range(table)
  /\ sess' = "ended"
  /\ UNCHANGED <<table, mtrie, mstate, cmd, utrie, ustate, early, busy, faults>>
----------------------------------------------------------------------------
(* umount(2): refused while anything is mounted below or the mount is in    *)
(* use; otherwise it removes the newest mount of that path.                 *)

CanUmount(p) == p \in Range(table) /\ Below(p) = {}

Umount(p) ==
  /\ CanUmount(p)
  /\ \E i \in DOMAIN table :
       /\ table[i] = p /\ \A j \in DOMAIN table : table[j] = p => j <= i
       /\ table' = RemoveAt(table, i)

\* somebody unmounts the share, or one of its exports, by other means: umount,
\* or the unmount_fs of a `stop` that is not forced
OtherUmount(p) ==
  /\ Umount(p)
  /\ UNCHANGED <<sess, mtrie, mstate, cmd, utrie, ustate, early, busy, faults>>
----------------------------------------------------------------------------
(* The command. *)

\* validated_mount_point: Mounted, or NoLonger and nothing is done
Validate ==
  /\ cmd = "idle"
  /\ cmd' = IF Base \in Range(table) THEN "checked" ELSE "done"
  /\ UNCHANGED <<table, sess, mtrie, mstate, utrie, ustate, early, busy, faults>>

(* Mutant: the mounts of the share's tree are found by the bytes of its path. *)
ReadTableByBytes ==
  /\ cmd = "checked"
  /\ utrie' = Trie({p \in Range(table) : IsPrefix(Base, p)}, Base, Base)
  /\ ustate' = [k \in DOMAIN utrie' |-> "todo"]
  /\ early' = (sess = "mounting")
  /\ cmd' = "run"
  /\ UNCHANGED <<table, sess, mtrie, mstate, busy, faults>>

\* MountTable::new, the filter, and the trie of unmount_nfs_subdirs
ReadTable ==
  /\ cmd = "checked"
  /\ utrie' = UnmountTrie({p \in Range(table) : OurMountPoint(p)})
  /\ ustate' = [k \in DOMAIN utrie' |-> "todo"]
  /\ early' = (sess = "mounting")
  /\ cmd' = "run"
  /\ UNCHANGED <<table, sess, mtrie, mstate, busy, faults>>

(* Mutant: a node is unmounted before its children. *)
UmountReadyParentFirst(k) ==
  \A a \in DOMAIN utrie : Under(a, k) => ustate[a] = "done"

\* the recursion unmounts a node after the visits of its children returned
UmountReady(k) ==
  \A d \in DOMAIN utrie : Under(k, d) => ustate[d] = "done"

StartUmount(k) ==
  /\ cmd = "run" /\ ustate[k] = "todo"
  /\ UmountReady(k)
  /\ ustate' = [ustate EXCEPT ![k] = "run"]
  /\ UNCHANGED <<table, sess, mtrie, mstate, cmd, utrie, early, busy, faults>>

\* the exit status of umount is ignored
UmountReturns(k) ==
  /\ cmd = "run" /\ ustate[k] = "run"
  /\ ustate' = [ustate EXCEPT ![k] = "done"]
  /\ \/ Umount(utrie[k]) /\ UNCHANGED <<busy, faults>>
     \/ ~CanUmount(utrie[k]) /\ UNCHANGED <<table, busy, faults>>
     \/ /\ faults < MaxFaults
        /\ faults' = faults + 1 /\ busy' = TRUE
        /\ UNCHANGED table
  /\ UNCHANGED <<sess, mtrie, mstate, cmd, utrie, early>>

\* ... but a shell that cannot be started ends the traversal
ShellFails(k) ==
  /\ cmd = "run" /\ ustate[k] = "run"
  /\ faults < MaxFaults /\ faults' = faults + 1
  /\ ustate' = [ustate EXCEPT ![k] = "failed"]
  /\ UNCHANGED <<table, sess, mtrie, mstate, cmd, utrie, early, busy>>

CommandReturns ==
  /\ cmd = "run"
  /\ \A k \in DOMAIN utrie : ustate[k] # "run"
  /\ \/ (\A k \in DOMAIN utrie : ustate[k] = "done") /\ cmd' = "done"
     \/ (\E k \in DOMAIN utrie : ustate[k] = "failed") /\ cmd' = "error"
  /\ UNCHANGED <<table, sess, mtrie, mstate, utrie, ustate, early, busy, faults>>
----------------------------------------------------------------------------
Session ==
  \/ \E k \in DOMAIN mtrie : StartMount(k) \/ MountDone(k) \/ MountFails(k)
  \/ MountsReturn \/ ShareUnmounted

Command ==
  \/ Validate \/ ReadTable \/ CommandReturns
  \/ \E k \in DOMAIN utrie : StartUmount(k) \/ UmountReturns(k) \/ ShellFails(k)

Next ==
  \/ Session
  \/ Command
  \/ \E p \in Range(table) : OurMountPoint(p) /\ OtherUmount(p)

Spec == Init /\ [][Next]_vars
----------------------------------------------------------------------------
MountStates == {"todo", "run", "ok", "failed"}
UmountStates == {"todo", "run", "done", "failed"}

(* Types of the variables. *)
TypeOK ==
  /\ table \in Seq(Path)
  /\ sess \in {"mounting", "waiting", "ended"}
  /\ cmd \in {"idle", "checked", "run", "done", "error"}
  /\ mtrie \in [DOMAIN mtrie -> Path] /\ mstate \in [DOMAIN mtrie -> MountStates]
  /\ utrie \in [DOMAIN utrie -> Path]
  /\ ustate \in [DOMAIN utrie -> UmountStates]
  /\ early \in BOOLEAN /\ busy \in BOOLEAN /\ faults \in 0..MaxFaults

(* No export is mounted after one that lies inside it: the later mount     *)
(* would hide the earlier one (parallel_mount_recursive).                  *)
NoHiddenMount == NoneHidden(table)

CompleteUnmount == cmd = "done" /\ DOMAIN utrie # {} /\ ~early /\ ~busy

(* `unmount`, started when the exports had been mounted and meeting no     *)
(* file system in use, leaves nothing of the share mounted if it returns   *)
(* without an error, although it ignores the status of every umount        *)
(* (parallel_unmount_recursive).                                           *)
UnmountComplete ==
  CompleteUnmount =>
    \A p \in Range(table) : ~ OurMountPoint(p)

(* Whatever is mounted and unmounted of the share, a neighbour's mount     *)
(* stays: also one whose path has the bytes of the share's for a prefix,   *)
(* as /mnt/foo-1 has those of /mnt/foo (run_unmount, unmount_nfs_subdirs). *)
NeighboursKept == \A i \in DOMAIN Foreign : Foreign[i] \in Range(table)
=============================================================================
