---- MODULE MCInstances ----
(* Overlapping mounts; the host has no NFS services, a statd, or an NFS    *)
(* server, a stock one at the guest's own address or one at another.       *)
EXTENDS Instances, TLC

\* services of the host, NFS at this address
Of(P, nfs, owner) ==
  [p \in P \cup {Portmapper} |->
     [addr |-> IF p = "nfs" THEN nfs ELSE "host",
      owner |-> IF p = Portmapper THEN Superuser ELSE owner]]
MCHostTables ==
  {Of({}, "host", Daemon), Of({"statd"}, "host", Daemon),
   Of(Programs, "vm", Daemon), Of(Programs, "host", Daemon),
   Of({"nfs", "mountd"}, "vm", Superuser)}
Symmetry == Permutations(Inst)
====
