------------------------------ MODULE DiskList ------------------------------
(***************************************************************************)
(* `list`, and `mount` given an identifier that `list` has shown.  The     *)
(* host knows partitions; volumes (LVM, RAID, what is inside LUKS or       *)
(* BitLocker) are only seen by a short-lived microVM to which the physical *)
(* volumes are attached, and its lsblk output is translated back to host   *)
(* identifiers by position.  Linux hosts: block devices come from sysfs.   *)
(*                                                                         *)
(* A slot <<d, n>> is partition n of disk d, or the whole of d if n = 0.   *)
(* It is also a host path: /dev/sda1, img@s1, or the disk itself.          *)
(* Names of volumes are sequences of characters, because device-mapper     *)
(* joins them with a dash and doubles the dashes inside.                   *)
(***************************************************************************)
EXTENDS Naturals, Sequences, FiniteSets, SequencesExt

CONSTANTS
  Hosts,       \* the hosts: what their disks hold
  Requests     \* command lines of `list`

VARIABLES
  host,        \* [kind, table, slots, array, vg, blank]: see the next section
  req,         \* [disks, decrypt, paths, each, filter, root]
  pc,          \* position of the command
  todo,        \* disks still to process
  pv,          \* PvCollector: devices attached for inspection
  qcow,        \* qcow2 images to inspect
  rows,        \* rows of partitions: set of [ident, fs], fs: type <<and type inside>>
  opened,      \* encrypted slots the inspection has opened
  volumes,     \* rows of volumes: set of [vg, devs, lv]
  mount        \* the mount of a listed volume: [row, found]

vars == <<host, req, pc, todo, pv, qcow, rows, opened, volumes, mount>>

-----------------------------------------------------------------------------
(* What the disks hold.                                                    *)

Encrypted == {"crypto_LUKS", "BitLocker"}
LinuxTypes == {"ext4", "crypto_LUKS", "linux_raid_member", "LVM2_member"}
WindowsTypes == {"ntfs", "BitLocker"}
AllTypes == LinuxTypes \cup WindowsTypes

\* the physical volume that the RAID array is
Array == <<"md127", 0>>
NoMount == [row |-> <<>>]
\* the array has no group: its row is [vg |-> NoGroup, ...]
NoGroup == <<>>

Disks == DOMAIN host.kind
Slots(d) == IF host.table[d] THEN {<<d, n>> : n \in 1..Len(host.slots[d])} ELSE {<<d, 0>>}
AllSlots == UNION {Slots(d) : d \in Disks}
\* [fs, in]: the type of the file system and, if encrypted, the type inside
Content(s) == host.slots[s[1]][IF s[2] = 0 THEN 1 ELSE s[2]]
FsType(s) == IF s[2] = 0 /\ host.table[s[1]] THEN "" ELSE Content(s).fs

Members == {s \in AllSlots : FsType(s) = "linux_raid_member"}
VgOf(p) == host.vg[p[1]]
\* every physical volume of the volume group
Pvs(vg) ==
  {p \in AllSlots \cup {Array} :
     /\ VgOf(p) = vg
     /\ IF p = Array THEN Members # {} /\ host.array = "LVM2_member"
                     ELSE "LVM2_member" \in {Content(p).fs, Content(p).in}}
Vgs == {vg \in {VgOf(p) : p \in AllSlots \cup {Array}} : Pvs(vg) # {}}

\* The group's volumes: the first lies on every physical volume, the second on
\* one of them.  The UUID is the file system's, so blank volumes have none.
LvNames == <<<<"c">>, <<"b", "-", "c">>>>
LvOn(vg, k) == IF k = 1 THEN Pvs(vg) ELSE {CHOOSE p \in Pvs(vg) : TRUE}
Uuid(vg, k) == IF host.blank THEN <<>> ELSE <<vg, k>>

-----------------------------------------------------------------------------
(* Names of logical volumes.                                               *)

\* position of character i in its run of dashes
RunPos(s, i) == i - Max({0} \cup {k \in 1..(i - 1) : s[k] # "-"})
IsDash(s, i) == i \in 1..Len(s) /\ s[i] = "-"
\* the characters of s at the positions of a set
KeepAt(s, positions) ==
  LET ks == SetToSortSeq(positions, <)
  IN [i \in 1..Len(ks) |-> s[ks[i]]]

\* replace("-", "--")
Escape(s) == FlattenSeq([i \in 1..Len(s) |-> IF s[i] = "-" THEN <<"-", "-">> ELSE <<s[i]>>])
\* replace("--", "-"): the pairs of a run, and the one left over
Unescape(s) ==
  KeepAt(s, {i \in 1..Len(s) : s[i] # "-" \/ RunPos(s, i) % 2 = 0 \/ ~IsDash(s, i + 1)})

DmName(vg, lv) == Escape(vg) \o <<"-">> \o Escape(lv)

\* The name of the group ends with the first run of an odd number of dashes,
\* whose last dash separates it from the name of the volume.
LvIdent(s) ==
  LET odd == {i \in 1..Len(s) : IsDash(s, i) /\ ~IsDash(s, i + 1) /\ RunPos(s, i) % 2 = 1}
      end == IF odd = {} THEN Len(s) + 1 ELSE Min(odd)
  IN [vg |-> KeepAt(s, {i \in 1..(end - 1) : s[i] # "-" \/ RunPos(s, i) % 2 = 0}),
      lv |-> Unescape(SubSeq(s, end + 1, Len(s)))]

IsLvIdent(s) == LvIdent(s).vg # <<>> /\ LvIdent(s).lv # <<>>

-----------------------------------------------------------------------------
(* A microVM with attached disks (external): dm-crypt, mdadm and LVM.      *)
(* An attached device is [path, fs], in the order of /dev/vda, /dev/vdb... *)

\* slots a guest sees on an attached device; an image comes as a whole
Visible(a) == IF a.path[2] = 0 THEN Slots(a.path[1]) ELSE {a.path}
VisibleIn(attached) == UNION {Visible(attached[i]) : i \in 1..Len(attached)}

Guest(attached, open, assemble) ==
  [slots |-> VisibleIn(attached), open |-> open,
   twice |-> {s \in VisibleIn(attached) :
                Cardinality({i \in 1..Len(attached) : s \in Visible(attached[i])}) > 1},
   array |-> assemble /\ Members # {} /\ Members \subseteq VisibleIn(attached)]

GuestPvs(g) ==
  {p \in g.slots : Content(p).fs = "LVM2_member" \/ (p \in g.open /\ Content(p).in = "LVM2_member")}
    \cup {p \in {Array} : g.array /\ host.array = "LVM2_member"}
\* vgchange -ay activates the volumes all of whose parts are there, and none
\* of a group with a physical volume that appears on two devices
ActiveLvs(g) ==
  {<<vg, k>> \in Vgs \X DOMAIN LvNames :
     LvOn(vg, k) \subseteq GuestPvs(g) /\ Pvs(vg) \cap g.twice = {}}

Node(name, fs, uuid, children) ==
  [name |-> name, fs |-> fs, uuid |-> uuid, children |-> children]
LvNodes(g, p) ==
  LET here(k) == <<VgOf(p), k>> \in ActiveLvs(g) /\ p \in LvOn(VgOf(p), k)
      ks == SelectSeq(<<1, 2>>, here)
  IN [i \in 1..Len(ks) |->
        Node(DmName(VgOf(p), LvNames[ks[i]]), IF host.blank THEN "" ELSE "ext4", Uuid(VgOf(p), ks[i]), <<>>)]
SlotNode(g, s) ==
  LET fs == Content(s).fs
      in == Content(s).in
  IN Node(<<"part">>, fs, <<s>>,
       CASE fs = "LVM2_member" /\ s \in g.slots -> LvNodes(g, s)
         [] s \in g.open ->
              <<Node(<<"luks">>, in, <<s, in>>, IF in = "LVM2_member" THEN LvNodes(g, s) ELSE <<>>)>>
         [] fs = "linux_raid_member" /\ g.array ->
              <<Node(<<"md127">>, host.array, <<"md">>,
                     IF host.array = "LVM2_member" THEN LvNodes(g, Array) ELSE <<>>)>>
         [] OTHER -> <<>>)
\* lsblk: one tree for every attached device
DiskNode(g, a) ==
  LET d == a.path[1]
  IN IF a.path[2] = 0 /\ host.table[d]
     THEN Node(<<"disk">>, "", <<d>>, [n \in 1..Len(host.slots[d]) |-> SlotNode(g, <<d, n>>)])
     ELSE SlotNode(g, a.path)

-----------------------------------------------------------------------------
(* Listing the partitions.                                                 *)

Init ==
  /\ host \in Hosts /\ req \in Requests
  /\ Range(req.disks) \subseteq Disks
  /\ pc = "partitions" /\ todo = req.disks
  /\ pv = [devs |-> <<>>, idents |-> <<>>, enc |-> <<>>, raid |-> FALSE]
  /\ qcow = <<>> /\ rows = {} /\ opened = {} /\ volumes = {}
  /\ mount = NoMount

DecryptAll == req.decrypt = "all"
\* `-d` was given
HasEncFilter == req.decrypt # "no"

\* Keep a physical volume for the inspection.  The device of an image is the
\* whole image, and so are its identifier and the path to decrypt.
TryCollect(c, dev, ident, fs) ==
  IF fs \in {"LVM2_member", "linux_raid_member"} \/ (HasEncFilter /\ fs \in Encrypted)
  THEN [c EXCEPT !.devs = Append(@, dev),
                 !.idents = Append(@, ident),
                 !.enc = IF DecryptAll /\ fs \in Encrypted THEN Append(@, dev.path) ELSE @,
                 !.raid = @ \/ fs = "linux_raid_member"]
  ELSE c

\* slots of a disk in the order of the partition table
SlotSeq(d) ==
  IF host.table[d] THEN [n \in 1..Len(host.slots[d]) |-> <<d, n>>] ELSE <<<<d, 0>>>>

\* Every slot of a disk, named by its own path, or by the disk's if it is whole.
Collect(c, slots, whole) ==
  LET path(s) == IF whole THEN <<s[1], 0>> ELSE s
  IN FoldLeft(LAMBDA acc, s : TryCollect(acc, [path |-> path(s), fs |-> FsType(s)], path(s), FsType(s)),
              c, slots)

\* A block device.  Partitions that cannot be probed are shown without a type,
\* and without privileges only the structure is.
ProcessBlockDevice(d) ==
  LET shown == SelectSeq(SlotSeq(d), LAMBDA s : FsType(s) \in req.filter
                                                 \/ (FsType(s) = "" /\ host.table[d]))
  IN IF req.root
     THEN /\ rows' = rows \cup {[ident |-> s, fs |-> <<FsType(s)>>] : s \in Range(shown)}
          /\ pv' = Collect(pv, shown, FALSE)
     ELSE /\ rows' = rows \cup {[ident |-> s, fs |-> <<>>] : s \in {t \in Slots(d) : host.table[d]}}
          /\ UNCHANGED pv

\* A raw image is probed on the host.
ProcessRawImage(d) ==
  LET shown == SelectSeq(SlotSeq(d), LAMBDA s : FsType(s) \in req.filter)
  IN /\ rows' = rows \cup {[ident |-> s, fs |-> <<FsType(s)>>] : s \in Range(shown)}
     /\ pv' = Collect(pv, shown, TRUE)

\* One turn of the loop of list_partitions.
ProcessDisk ==
  /\ pc = "partitions" /\ todo # <<>>
  /\ todo' = Tail(todo)
  /\ CASE host.kind[Head(todo)] = "block" -> ProcessBlockDevice(Head(todo)) /\ UNCHANGED qcow
       [] host.kind[Head(todo)] = "raw" -> ProcessRawImage(Head(todo)) /\ UNCHANGED qcow
       [] host.kind[Head(todo)] = "qcow2" ->
            qcow' = Append(qcow, Head(todo)) /\ UNCHANGED <<rows, pv>>
  /\ UNCHANGED <<host, req, pc, opened, volumes, mount>>

\* Nothing has to be inspected.
ListPlain ==
  /\ pc = "partitions" /\ todo = <<>> /\ qcow = <<>> /\ pv.devs = <<>>
  /\ pc' = "listed"
  /\ UNCHANGED <<host, req, todo, pv, qcow, rows, opened, volumes, mount>>

-----------------------------------------------------------------------------
(* The inspection.                                                         *)

QcowDevs == [i \in 1..Len(qcow) |-> [path |-> <<qcow[i], 0>>, fs |-> "auto"]]
QcowIdents == [i \in 1..Len(qcow) |-> <<qcow[i], 0>>]
GuestDevs == QcowDevs \o pv.devs

(* Mutant: the volumes found are named before the images are counted in. *)
GuestIdentsPvOnly == pv.idents \o QcowIdents

GuestIdents == QcowIdents \o pv.idents

\* the partitions to decrypt, each a host path
EncPartitions ==
  IF pv.devs = <<>> THEN <<>> ELSE IF DecryptAll THEN pv.enc ELSE req.paths

(* Mutant: the qcow2 images before the physical volumes are not counted. *)
DiskToDecryptPv(p) == SelectInSeq(pv.devs, LAMBDA a : a.path = p)

\* virt_disk_to_decrypt: the first attached device with this path
DiskToDecrypt(p) == SelectInSeq(GuestDevs, LAMBDA a : a.path = p)

\* One `cryptsetup` of the script.  It reads a line of standard input if its
\* device has an encryption header, and opens it with the right passphrase.
DecryptStep(st, p) ==
  LET dev == GuestDevs[DiskToDecrypt(p)]
      header == ~(dev.path[2] = 0 /\ host.table[dev.path[1]])
  IN IF dev.fs \notin Encrypted \/ ~header THEN st
     ELSE [open |-> IF st.lines # <<>> /\ (Head(st.lines) = p \/ ~req.each)
                    THEN st.open \cup {dev.path} ELSE st.open,
           lines |-> IF st.lines = <<>> THEN <<>> ELSE Tail(st.lines)]
\* The prompts are answered in the order of the partitions, each with the
\* passphrase of the partition it names, or all with the one passphrase.
Decrypt ==
  FoldLeft(DecryptStep, [open |-> {}, lines |-> EncPartitions], EncPartitions).open

-----------------------------------------------------------------------------
(* VolumeMap: lsblk's trees, by volume.                                    *)

NoVolumes == [raid |-> <<>>, lvs |-> <<>>, enc |-> <<>>]

Simple(fs) == fs \notin Encrypted \cup {"LVM2_member", "linux_raid_member"}

\* a map that keeps the order of insertion: sequence of [key, val]
Entry(m, k) == SelectInSeq(m, LAMBDA e : e.key = k)
Push(m, k, name, ident) ==
  IF Entry(m, k) = 0
  THEN Append(m, [key |-> k, name |-> name, devs |-> <<ident>>])
  ELSE [m EXCEPT ![Entry(m, k)].devs = Append(@, ident)]

\* A volume `child` directly on a device of type fs.
AddChild(vol, ident, fs, child) ==
  CASE ~Simple(child.fs) -> vol
    [] fs \in Encrypted ->
         [vol EXCEPT !.enc = Append(SelectSeq(@, LAMBDA e : e.ident # ident),
                                    [ident |-> ident, fs |-> child.fs])]
    [] fs = "linux_raid_member" ->
         [vol EXCEPT !.raid = Push(@, child.name, child.name, ident)]
    [] fs = "LVM2_member" /\ IsLvIdent(child.name) ->
         \* the volumes of a group are told apart by their UUIDs
         [vol EXCEPT !.lvs = Push(@, <<LvIdent(child.name).vg, child.uuid>>, child.name, ident)]
    [] OTHER -> vol

RECURSIVE IterateChildren(_, _, _)
IterateChildren(vol, ident, blkdev) ==
  FoldLeft(LAMBDA acc, child :
             IterateChildren(AddChild(acc, ident, blkdev.fs, child), ident, child),
           vol, blkdev.children)

FromLsblk(lsblk, idents) ==
  FoldLeft(LAMBDA acc, i : IterateChildren(acc, idents[i], lsblk[i]),
           NoVolumes, [i \in 1..Len(lsblk) |-> i])

\* rows of the qcow2 images: the leading block devices
QcowRows ==
  {[ident |-> s, fs |-> <<FsType(s)>>] :
     s \in UNION {{t \in Slots(qcow[i]) : FsType(t) \in req.filter} : i \in 1..Len(qcow)}}

\* build_entries: one row for the array, one for each logical volume
VolumeRows(vol) ==
  {[vg |-> NoGroup, devs |-> vol.raid[i].devs, lv |-> <<>>] : i \in 1..Len(vol.raid)}
    \cup {[vg |-> LvIdent(vol.lvs[i].name).vg, devs |-> vol.lvs[i].devs,
           lv |-> LvIdent(vol.lvs[i].name).lv] : i \in 1..Len(vol.lvs)}

\* Rows of encrypted partitions found under their identifier show what is inside.
WithMetadata(rs, vol) ==
  {LET inside == {vol.enc[i].fs : i \in {j \in 1..Len(vol.enc) : vol.enc[j].ident = r.ident}}
   IN IF Range(r.fs) \cap Encrypted # {} /\ inside # {}
      THEN [r EXCEPT !.fs = Append(@, CHOOSE t \in inside : TRUE)] ELSE r : r \in rs}

Inspect ==
  /\ pc = "partitions" /\ todo = <<>> /\ GuestDevs # <<>>
  /\ \A i \in 1..Len(EncPartitions) : DiskToDecrypt(EncPartitions[i]) # 0
  /\ opened' = Decrypt
  /\ LET g == Guest(GuestDevs, opened', pv.raid)
         lsblk == [i \in 1..Len(GuestDevs) |-> DiskNode(g, GuestDevs[i])]
         vol == FromLsblk(lsblk, GuestIdents)
     IN /\ volumes' = VolumeRows(vol)
        /\ rows' = WithMetadata(rows \cup QcowRows, vol)
  /\ pc' = "listed"
  /\ UNCHANGED <<host, req, todo, pv, qcow, mount>>

\* The microVM fails, or a partition to decrypt is not among the devices.
InspectFails ==
  /\ pc = "partitions" /\ todo = <<>> /\ GuestDevs # <<>>
  /\ pc' = "uninspected"
  /\ UNCHANGED <<host, req, todo, pv, qcow, rows, opened, volumes, mount>>

-----------------------------------------------------------------------------
(* `mount` of a listed volume.                                             *)

\* resolve_disk_token: the device a token of the identifier stands for
Resolve(token) ==
  [path |-> token, fs |-> IF host.kind[token[1]] = "qcow2" THEN "auto" ELSE FsType(token)]

(* Mutant: an array below a logical volume is not assembled. *)
AssembleRaidListed(row, devs) == row.vg = NoGroup

\* config.assemble_raid after claim_devices
AssembleRaid(row, devs) ==
  row.vg = NoGroup \/ \E i \in 1..Len(devs) : devs[i].fs = "linux_raid_member"

\* The files are locked one after the other, so none may be named twice.
Claimable(devs) == IsInjective(devs)

\* the guest decrypts the devices whose type the host has found to be encrypted
MountGuest(row) ==
  LET devs == [i \in 1..Len(row.devs) |-> Resolve(row.devs[i])]
  IN Guest(devs, {devs[i].path : i \in {j \in 1..Len(devs) : devs[j].fs \in Encrypted}},
           AssembleRaid(row, devs))

\* vm_path names a volume that is active in the guest
Found(row) ==
  LET g == MountGuest(row)
  IN IF row.vg = NoGroup THEN g.array
     ELSE DmName(row.vg, row.lv)
            \in {DmName(l[1], LvNames[l[2]]) : l \in ActiveLvs(g)}

Mount(row) ==
  /\ pc = "listed" /\ mount = NoMount
  /\ mount' = [row |-> row, found |-> Claimable(row.devs) /\ Found(row)]
  /\ UNCHANGED <<host, req, pc, todo, pv, qcow, rows, opened, volumes>>

Next ==
  \/ ProcessDisk \/ ListPlain \/ Inspect \/ InspectFails
  \/ \E row \in volumes : Mount(row)

Spec == Init /\ [][Next]_vars

-----------------------------------------------------------------------------
(* Properties.                                                             *)

Image(d) == host.kind[d] # "block"
ImagePartition(s) == Image(s[1]) /\ s[2] # 0
\* the host identifier a volume on slot s is listed with
IdentOf(s) == IF Image(s[1]) THEN <<s[1], 0>> ELSE s
Stores(p) == IF p = Array THEN Members ELSE {p}
Held(s) == FsType(s) \in Encrypted \cup {"LVM2_member", "linux_raid_member"}
\* no image is attached, or named in an identifier, more than once
OnceEach == \A d \in Disks : Image(d) => Cardinality({s \in Slots(d) : Held(s)}) <= 1
\* the partitions to decrypt are encrypted ones that have a path of their own
ProperSelection ==
  \A i \in 1..Len(EncPartitions) :
    EncPartitions[i] \in AllSlots /\ FsType(EncPartitions[i]) \in Encrypted

(* Every identifier of a volume that `list` shows can be given to `mount`: *)
(* the devices it names can be claimed and the guest finds the volume on   *)
(* them, after list_partitions has mapped lsblk's devices back by position *)
(* and LvIdent the names, and claim_devices has taken them apart again.    *)
(* Not for two physical volumes in one image, nor for LVM on an array none *)
(* of whose members can be probed by the name it is listed with, nor for   *)
(* volumes without a file system.                                          *)
ListedVolumesMount ==
  OnceEach /\ ~host.blank /\ (host.array = "LVM2_member" =>
                 \E s \in Members : host.kind[s[1]] # "qcow2" /\ ~ImagePartition(s))
    => (mount # NoMount => mount.found)

\* The inspection can see slot s: it is collected and, if need be, decrypted.
Inspectable(s) ==
  /\ s[1] \in Range(req.disks)
  /\ IF host.kind[s[1]] = "qcow2" THEN FsType(s) \notin Encrypted
     ELSE /\ host.kind[s[1]] = "block" => req.root
          /\ FsType(s) \in req.filter
          /\ FsType(s) \in Encrypted => s \in Range(EncPartitions)
InspectablePv(p) ==
  /\ \A s \in Stores(p) : Inspectable(s)
  /\ p = Array => \E s \in Members : host.kind[s[1]] # "qcow2"

(* `list` shows exactly the logical volumes that lie on disks it may look  *)
(* into, each with all the devices it lies on and with no other: lsblk     *)
(* names the devices of the guest, and the order in which they were        *)
(* attached is all that ties them to the host's.                           *)
EveryVolumeListed ==
  pc = "listed" /\ OnceEach /\ ProperSelection /\ ~host.blank =>
    {[vg |-> r.vg, devs |-> Range(r.devs), lv |-> r.lv] :
       r \in {v \in volumes : v.vg # NoGroup}}
    = {[vg |-> l[1], devs |-> {IdentOf(s) : s \in UNION {Stores(p) : p \in LvOn(l[1], l[2])}},
        lv |-> LvNames[l[2]]] :
         l \in {m \in Vgs \X DOMAIN LvNames : \A p \in LvOn(m[1], m[2]) : InspectablePv(p)}}

(* Each prompt of `list -d` is answered for the partition it names: if     *)
(* every answer is right, every selected partition is opened, and its row  *)
(* shows the file system inside.  The script's nth cryptsetup has to read  *)
(* the nth line, and to open the device at which the partition is attached *)
DecryptedShown ==
  pc = "listed" /\ ProperSelection =>
    \A i \in 1..Len(EncPartitions) :
      LET p == EncPartitions[i]
      IN /\ p \in opened
         /\ Simple(Content(p).in) => [ident |-> p, fs |-> <<FsType(p), Content(p).in>>] \in rows

(* Any identifier of a logical volume shown by `list` can be used with     *)
(* `mount`.                                                                *)
AnyListedVolumeMounts == mount # NoMount => mount.found
=============================================================================
