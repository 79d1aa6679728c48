------------------------------ MODULE Rpcbind ------------------------------
(***************************************************************************)
(* The host's rpcbind and the calls anylinuxfs makes to it (rpcbind/mod.rs *)
(* and the per-platform files).  The table maps a program (the versions    *)
(* and transports of a program are registered and removed together) to the *)
(* address it is served at and the owner of the registration.              *)
(***************************************************************************)
EXTENDS FiniteSets, Functions

Programs == {"nfs", "mountd", "statd"}     \* RPCPROG_NFS, _MNT, _STAT
Portmapper == "portmapper"                 \* rpcbind's own entry
Superuser == "superuser"
Invoker == "invoker"
Daemon == "daemon"                         \* an unprivileged system account
Owners == {Superuser, Invoker, Daemon}

\* "vm": the address of the guest's service, which is the same for every
\* instance, 0.0.0.0:2049 for NFS, where a stock NFS server of the host is
\* registered as well; "host": any other address
Entries == [addr : {"host", "vm"}, owner : Owners]
NoEntries == [p \in {} |-> [addr |-> "host", owner |-> Daemon]]
Tables == UNION {[P \cup {Portmapper} -> Entries] : P \in SUBSET Programs}

\* rpcb_set: refused if the program is registered at another address; at the
\* same address it succeeds and changes nothing
Conflicts(table, p, addr) == p \in DOMAIN table /\ table[p].addr # addr

\* owner of an entry set by a process of this effective uid
SetEntries(table, new, caller) ==
  [p \in DOMAIN table \cup DOMAIN new |->
     IF p \in DOMAIN table THEN table[p]
     ELSE [addr |-> new[p].addr, owner |-> caller]]

\* unregister: rpcbind removes what belongs to the caller, or to anybody if
\* the superuser asks; the result is not looked at
Unregister(table, caller) ==
  Restrict(table, {p \in DOMAIN table :
                     \/ p \notin Programs
                     \/ caller # Superuser /\ table[p].owner # caller})

\* register: single failures are tolerated
GuestEntries == [p \in Programs |-> [addr |-> "vm", owner |-> Invoker]]
Register(table, caller) == SetEntries(table, GuestEntries, caller)

\* ... but for NFS at least one registration has to succeed
RegisterFails(table) == Conflicts(table, "nfs", "vm")

\* rpcb_set_entries stops at the first error: with a conflict, what comes
\* before it in the list is set
RestoreResults(table, saved, caller) ==
  LET bad == {p \in DOMAIN saved : Conflicts(table, p, saved[p].addr)}
      good == DOMAIN saved \ bad
  IN {SetEntries(table, Restrict(saved, P), caller) :
        P \in IF bad = {} THEN {good} ELSE SUBSET good}

\* list, and the filter of run_mount_child
List(table) == Restrict(table, DOMAIN table \cap Programs)

\* setup_rpcbind_services: is_host_rpcbind
IsHostRpcbind(saved) == \A p \in DOMAIN saved : saved[p].owner # Superuser

Addresses(table) == [p \in DOMAIN table |-> table[p].addr]
=============================================================================
