----------------------------- MODULE MCDiskList -----------------------------
(***************************************************************************)
(* Two disks.  The first is partitioned or not, with up to two partitions; *)
(* the second holds one file system or has one partition.                  *)
(***************************************************************************)
EXTENDS DiskList

Plain(t) == [fs |-> t, in |-> ""]
Inside(t, u) == [fs |-> t, in |-> u]

Contents ==
  {Plain("ext4"), Plain("ntfs"), Plain(""), Plain("LVM2_member"), Plain("linux_raid_member"),
   Inside("crypto_LUKS", "ext4"), Inside("crypto_LUKS", "LVM2_member"),
   Inside("BitLocker", "ntfs")}
Pv == Plain("LVM2_member")
Member == Plain("linux_raid_member")
Luks == Inside("crypto_LUKS", "ext4")
LuksPv == Inside("crypto_LUKS", "LVM2_member")
Pairs ==
  {<<Pv, Pv>>, <<LuksPv, Pv>>, <<Member, Member>>, <<Plain("ext4"), LuksPv>>,
   <<Luks, Inside("BitLocker", "ntfs")>>, <<LuksPv, Member>>, <<Member, Pv>>, <<Plain(""), Luks>>}

Layouts1 ==
  [table : BOOLEAN, slots : {<<c>> : c \in Contents}]
    \cup [table : {TRUE}, slots : Pairs]
Layouts2 == [table : BOOLEAN, slots : {<<c>> : c \in Contents \ {Plain(""), Plain("ntfs")}}]

A == <<"a">>
AB == <<"a", "-", "b">>
Groups ==
  {[d1 |-> A, d2 |-> A, md127 |-> AB], [d1 |-> AB, d2 |-> A, md127 |-> A]}

Host(k1, k2, l1, l2, array, vg, blank) ==
  [kind |-> [d1 |-> k1, d2 |-> k2], table |-> [d1 |-> l1.table, d2 |-> l2.table],
   slots |-> [d1 |-> l1.slots, d2 |-> l2.slots], array |-> array, vg |-> vg, blank |-> blank]

MCHosts ==
  {Host(k[1], k[2], l1, l2, array, vg, FALSE) :
     k \in {<<"block", "raw">>, <<"raw", "block">>, <<"qcow2", "block">>}, l1 \in Layouts1, l2 \in Layouts2,
     array \in {"ext4", "LVM2_member"}, vg \in Groups}
    \cup {Host("block", "block", l, l, "ext4", vg, TRUE) : l \in Layouts2, vg \in Groups}

Request(disks, decrypt, paths, each, filter, root) ==
  [disks |-> disks, decrypt |-> decrypt, paths |-> paths, each |-> each, filter |-> filter, root |-> root]
Both == <<"d1", "d2">>

MCRequests ==
  {Request(Both, "no", <<>>, TRUE, AllTypes, TRUE),
   Request(<<"d2", "d1">>, "all", <<>>, TRUE, AllTypes, TRUE),
   Request(Both, "all", <<>>, FALSE, LinuxTypes, TRUE),
   Request(Both, "paths", <<<<"d2", 0>>, <<"d1", 2>>>>, TRUE, AllTypes, TRUE),
   Request(<<"d1">>, "all", <<>>, TRUE, AllTypes, TRUE),
   Request(Both, "no", <<>>, TRUE, AllTypes, FALSE)}

\* LVM on the array of two partitioned images
RaidImageHosts ==
  {Host("raw", "raw", l, l, "LVM2_member", [d1 |-> A, d2 |-> A, md127 |-> A], FALSE) :
     l \in [table : {TRUE}, slots : {<<Plain("linux_raid_member")>>}]}
=============================================================================
