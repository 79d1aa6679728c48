--------------------------- MODULE InstancesProofs ---------------------------
(***************************************************************************)
(* Proofs about Instances, for any set of runs, any old logs and any       *)
(* tables of the host: root on Linux never takes the services of another   *)
(* run for the host's, the host gets its services back, and the log of a   *)
(* running mount is kept.                                                  *)
(***************************************************************************)
EXTENDS Instances, FiniteSetTheorems, TLAPS

Positions ==
  {"idle", "probed", "scanned", "logged", "serving", "listed", "displaced", "registered",
   "mounted", "unwind", "unwind_sock", "closing", "gone", "killed"}

\* the positions of a run that has not yet decided about rpcbind's services
Early == Starting \cup {"serving", "listed"}

PcOK == pc \in [Inst -> Positions] /\ deferred \subseteq Inst

(* Positions are positions. *)
LEMMA PositionsKept == PcOK /\ [Next]_vars => PcOK'
<1> SUFFICES ASSUME PcOK, [Next]_vars PROVE PcOK'
  OBVIOUS
<1> USE DEF PcOK, Positions, Move
<1>1. ASSUME NEW i \in Inst, Run(i) PROVE PcOK'
  <2>1. CASE Probe(i) \/ RemoveStale(i) BY <2>1 DEF Probe, RemoveStale
  <2>2. CASE StartLog(i) BY <2>2 DEF StartLog
  <2>3. CASE StartVm(i) BY <2>3 DEF StartVm
  <2>4. CASE BindApi(i) \/ ListenApi(i) \/ ApiFails(i) BY <2>4 DEF BindApi, ListenApi, ApiFails
  <2>5. CASE ListServices(i) BY <2>5 DEF ListServices
  <2>6. CASE NotHostRpcbind(i) BY <2>6 DEF NotHostRpcbind
  <2>7. CASE UnregisterServices(i) BY <2>7 DEF UnregisterServices
  <2>8. CASE RegisterServices(i) BY <2>8 DEF RegisterServices
  <2>9. CASE MountShare(i) BY <2>9 DEF MountShare
  <2>10. CASE Unwind(i) \/ LateGuard(i) BY <2>10 DEF Unwind, LateGuard
  <2>11. CASE RestoreServices(i) BY <2>11 DEF RestoreServices
  <2>12. CASE RemoveSocket(i) BY <2>12 DEF RemoveSocket
  <2>13. CASE Exit(i) BY <2>13 DEF Exit
  <2>14. QED
    BY <1>1, <2>1, <2>2, <2>3, <2>4, <2>5, <2>6, <2>7, <2>8, <2>9, <2>10, <2>11,
       <2>12, <2>13 DEF Run
<1>2. CASE StopScan BY <1>2 DEF StopScan, session
<1>3. CASE StopQuit BY <1>3 DEF StopQuit, session
<1>4. CASE StopHelper BY <1>4 DEF StopHelper, session
<1>5. CASE StopKill BY <1>5 DEF StopKill
<1>6. CASE UNCHANGED vars BY <1>6 DEF vars, session
<1>7. QED BY <1>1, <1>2, <1>3, <1>4, <1>5, <1>6 DEF Next

-----------------------------------------------------------------------------
(* rpcbind's services.                                                     *)

\* services of the host, at the host's addresses
OfHost(table, p) == p \in DOMAIN host /\ table[p].addr = host[p].addr

\* what is not the host's belongs to the superuser
Recognisable(table) ==
  \A p \in DOMAIN table : OfHost(table, p) \/ table[p].owner = Superuser

(* Under sudo on Linux the entries for a guest belong to the superuser, in *)
(* rpcbind's table and in every list made of it, and a run that displaced  *)
(* services had listed none of the superuser's.                            *)
ServicesInv ==
  /\ saved = [i \in Inst |-> saved[i]]
  /\ \A i \in deferred : pc[i] \notin Early
  /\ linux /\ sudo =>
       /\ Recognisable(rpc)
       /\ \A i \in Inst : Recognisable(saved[i])
       /\ \A i \in deferred : IsHostRpcbind(saved[i])

(* What the superuser adds to rpcbind's table is recognisable, and so are  *)
(* services of the host whoever adds them; removing entries changes none   *)
(* (rpcb_set_entry, unregister).                                           *)
LEMMA TableOperations ==
  ASSUME NEW table, Recognisable(table), NEW new, NEW caller
  PROVE /\ Recognisable(SetEntries(table, new, Superuser))
        /\ (\A p \in DOMAIN new : OfHost(new, p)) => Recognisable(SetEntries(table, new, caller))
        /\ Recognisable(Unregister(table, caller))
        /\ Recognisable(List(table))
BY DEF Recognisable, OfHost, SetEntries, Unregister, List, Restrict

(* The list of the host's services, and what each run makes of it.         *)
LEMMA ServicesKept == PcOK /\ ServicesInv /\ [Next]_vars => ServicesInv'
<1> SUFFICES ASSUME PcOK, ServicesInv, [Next]_vars PROVE ServicesInv'
  OBVIOUS
<1> DEFINE Known(t) == linux /\ sudo => Recognisable(t)
<1>0. ASSUME UNCHANGED <<linux, sudo, host>>, saved' = [j \in Inst |-> saved'[j]],
             \A j \in deferred' : pc'[j] \notin Early /\ (linux /\ sudo => IsHostRpcbind(saved'[j])),
             Known(rpc'), \A j \in Inst : Known(saved'[j])
      PROVE  ServicesInv'
  <2>1. linux /\ sudo => Recognisable(rpc)' BY <1>0 DEF Recognisable, OfHost
  <2>2. linux /\ sudo => \A j \in Inst : Recognisable(saved[j])' BY <1>0 DEF Recognisable, OfHost
  <2>3. QED BY <1>0, <2>1, <2>2 DEF ServicesInv, IsHostRpcbind
<1>1. ASSUME UNCHANGED <<linux, sudo, host, rpc, saved, deferred>>,
             \A j \in Inst : pc[j] \in Early \/ pc'[j] \notin Early
      PROVE  ServicesInv'
  BY <1>0, <1>1 DEF ServicesInv, PcOK
<1>2. ASSUME NEW i \in Inst, Run(i) PROVE ServicesInv'
  <2> USE DEF PcOK, Positions, Early, Starting, Move, platform
  <2>1. CASE Probe(i) \/ RemoveStale(i) BY <1>1, <2>1 DEF Probe, RemoveStale
  <2>2. CASE StartLog(i) BY <1>1, <2>2 DEF StartLog
  <2>3. CASE StartVm(i) BY <1>1, <2>3 DEF StartVm
  <2>4. CASE BindApi(i) \/ ListenApi(i) \/ ApiFails(i)
    BY <1>1, <2>4 DEF BindApi, ListenApi, ApiFails
  <2>5. CASE ListServices(i)
    <3>1. /\ pc[i] = "serving" /\ pc' = [pc EXCEPT ![i] = "listed"]
          /\ UNCHANGED <<linux, sudo, host, rpc, deferred>>
          /\ saved' = [saved EXCEPT ![i] = List(rpc)]
      BY <2>5 DEF ListServices
    <3>2. i \notin deferred BY <3>1 DEF ServicesInv
    <3>3. saved' = [j \in Inst |-> IF j = i THEN List(rpc) ELSE saved[j]]
      BY <3>1 DEF ServicesInv
    <3>4. Known(List(rpc)) BY TableOperations DEF ServicesInv
    <3>5. \A j \in Inst : Known(saved'[j]) BY <3>3, <3>4 DEF ServicesInv
    <3>6. \A j \in deferred' : pc'[j] \notin Early /\ (linux /\ sudo => IsHostRpcbind(saved'[j]))
      BY <3>1, <3>2, <3>3 DEF ServicesInv
    <3>7. saved' = [j \in Inst |-> saved'[j]] BY <3>3
    <3>8. Known(rpc') BY <3>1 DEF ServicesInv
    <3>9. QED BY <1>0, <3>1, <3>5, <3>6, <3>7, <3>8
  <2>6. CASE NotHostRpcbind(i) BY <1>1, <2>6 DEF NotHostRpcbind
  <2>7. CASE UnregisterServices(i)
    <3>1. /\ \E q \in {"displaced", "unwind"} : pc' = [pc EXCEPT ![i] = q]
          /\ UNCHANGED <<linux, sudo, host, saved>>
          /\ deferred' = deferred \cup {i} /\ IsHostRpcbind(saved[i])
          /\ rpc' = rpc \/ \E caller \in Owners : rpc' = Unregister(rpc, caller)
      BY <2>7 DEF UnregisterServices, Owners
    <3>2. Known(rpc')
      <4>1. Known(rpc) BY DEF ServicesInv
      <4>2. \A caller : Known(rpc) => Known(Unregister(rpc, caller)) BY TableOperations
      <4>3. QED BY <3>1, <4>1, <4>2
    <3>3. \A j \in deferred' : pc'[j] \notin Early /\ (linux /\ sudo => IsHostRpcbind(saved'[j]))
      BY <3>1 DEF ServicesInv
    <3>4. QED BY <1>0, <3>1, <3>2, <3>3 DEF ServicesInv
  <2>8. CASE RegisterServices(i)
    <3>1. /\ \E q \in {"registered", "unwind"} : pc' = [pc EXCEPT ![i] = q]
          /\ UNCHANGED <<linux, sudo, host, saved, deferred>>
          /\ rpc' = rpc \/ rpc' = SetEntries(rpc, GuestEntries, RegisterCaller)
      BY <2>8 DEF RegisterServices, Register
    <3>2. linux /\ sudo => RegisterCaller = Superuser BY DEF RegisterCaller
    <3>3. Known(rpc')
      <4>1. Known(rpc) BY DEF ServicesInv
      <4>2. Known(rpc) => Known(SetEntries(rpc, GuestEntries, RegisterCaller))
        BY <3>2, TableOperations
      <4>3. QED BY <3>1, <4>1, <4>2
    <3>4. \A j \in deferred' : pc'[j] \notin Early /\ (linux /\ sudo => IsHostRpcbind(saved'[j]))
      BY <3>1 DEF ServicesInv
    <3>5. QED BY <1>0, <3>1, <3>3, <3>4 DEF ServicesInv
  <2>9. CASE MountShare(i) BY <1>1, <2>9 DEF MountShare
  <2>10. CASE Unwind(i) \/ LateGuard(i) BY <1>1, <2>10 DEF Unwind, LateGuard
  <2>11. CASE RestoreServices(i)
    <3>1. pc' = [pc EXCEPT ![i] = "unwind_sock"] /\ UNCHANGED <<linux, sudo, host, saved, deferred>>
      BY <2>11 DEF RestoreServices
    <3>2. CASE i \notin deferred
      <4>1. rpc' = rpc BY <2>11, <3>2 DEF RestoreServices
      <4>2. QED BY <1>1, <3>1, <4>1
    <3>3. CASE i \in deferred
      <4> DEFINE c == CleanupCaller(i)
      <4>1. PICK P \in SUBSET DOMAIN saved[i] :
              rpc' = SetEntries(Unregister(rpc, c), Restrict(saved[i], P), c)
        BY <2>11, <3>3 DEF RestoreServices, RestoreResults
      <4>2. linux /\ sudo => \A p \in DOMAIN saved[i] : OfHost(saved[i], p)
        BY <3>3 DEF ServicesInv, Recognisable, IsHostRpcbind
      <4>3. linux /\ sudo => \A p \in P : OfHost(Restrict(saved[i], P), p)
        BY <4>2 DEF OfHost, Restrict
      <4>4. DOMAIN Restrict(saved[i], P) = P BY DEF Restrict
      <4>5. Known(Unregister(rpc, c)) BY TableOperations DEF ServicesInv
      <4>6. Known(rpc') BY <4>1, <4>3, <4>4, <4>5, TableOperations
      <4>7. \A j \in deferred' : pc'[j] \notin Early /\ (linux /\ sudo => IsHostRpcbind(saved'[j]))
        BY <3>1 DEF ServicesInv
      <4>8. QED BY <1>0, <3>1, <4>6, <4>7 DEF ServicesInv
    <3>4. QED BY <3>2, <3>3
  <2>12. CASE RemoveSocket(i) BY <1>1, <2>12 DEF RemoveSocket
  <2>13. CASE Exit(i) BY <1>1, <2>13 DEF Exit
  <2>14. QED
    BY <1>2, <2>1, <2>2, <2>3, <2>4, <2>5, <2>6, <2>7, <2>8, <2>9, <2>10, <2>11,
       <2>12, <2>13 DEF Run
<1>3. CASE StopScan BY <1>1, <1>3 DEF StopScan, session, platform
<1>4. CASE StopQuit BY <1>1, <1>4 DEF StopQuit, session, platform
<1>5. CASE StopHelper BY <1>1, <1>5 DEF StopHelper, session, platform
<1>6. CASE StopKill BY <1>1, <1>6 DEF StopKill, platform, PcOK, Positions, Early, Starting
<1>7. CASE UNCHANGED vars BY <1>1, <1>7 DEF vars, session
<1>8. QED BY <1>2, <1>3, <1>4, <1>5, <1>6, <1>7 DEF Next

(***************************************************************************)
(* Under sudo on Linux, whatever the overlap of any number of mounts, no    *)
(* run restores another run's registrations as if they were the host's:     *)
(* is_host_rpcbind tells them apart by their owner.                         *)
(***************************************************************************)
THEOREM ServicesRecognised == Spec => []GuestServicesRecognised
<1>1. Init => PcOK /\ ServicesInv
  <2> SUFFICES ASSUME Init PROVE PcOK /\ ServicesInv
    OBVIOUS
  <2>1. PcOK BY DEF Init, PcOK, Positions
  <2>2. Recognisable(rpc) BY DEF Init, Recognisable, OfHost
  <2>3. saved = [i \in Inst |-> saved[i]] /\ \A i \in Inst : Recognisable(saved[i])
    BY DEF Init, Recognisable, NoEntries
  <2>4. QED BY <2>1, <2>2, <2>3 DEF Init, ServicesInv
<1>2. PcOK /\ ServicesInv /\ [Next]_vars => (PcOK /\ ServicesInv)'
  BY PositionsKept, ServicesKept
<1>3. PcOK /\ ServicesInv => GuestServicesRecognised
  BY DEF PcOK, ServicesInv, GuestServicesRecognised, IsHostRpcbind, Recognisable, OfHost
<1>4. QED BY <1>1, <1>2, <1>3, PTL DEF Spec

-----------------------------------------------------------------------------
(* What rpcbind serves when all is over.                                   *)

\* all runs that are to restore services have listed the host's, and are root
AllListedHost == \A i \in deferred : ListedHost(i) /\ i \notin late

\* runs that have not restored the services yet, or never will
Pending == {i \in deferred : pc[i] \in {"displaced", "registered", "mounted", "unwind", "killed"}}

\* a table of the host's services, at most, and a guest's
Shared(table) ==
  /\ \A p \in DOMAIN table :
       \/ OfHost(table, p)
       \/ table[p].addr = "vm" /\ p \in Programs /\ table[p].owner = RegisterCaller
  /\ DOMAIN host \ Programs \subseteq DOMAIN table

(* The host's services are missing, or a guest's are there, only while     *)
(* somebody is going to restore them.                                       *)
RestoreInv ==
  /\ saved = [i \in Inst |-> saved[i]]
  /\ \A i \in deferred : pc[i] \notin Early
  /\ \A i \in Inst : pc[i] = "displaced" => i \in deferred
  /\ AllListedHost => Shared(rpc) /\ (Pending = {} => Addresses(rpc) = Addresses(host))

(* Removing entries and registering a guest's leaves nothing else.         *)
LEMMA SharedOperations ==
  ASSUME NEW table, Shared(table), NEW caller
  PROVE  Shared(Unregister(table, caller)) /\ Shared(Register(table, RegisterCaller))
<1>1. ASSUME NEW t, t = Unregister(table, caller) PROVE Shared(t)
  <2>1. /\ DOMAIN t = {p \in DOMAIN table : p \notin Programs \/ (caller # Superuser /\ table[p].owner # caller)}
        /\ \A p \in DOMAIN t : t[p] = table[p]
    BY <1>1 DEF Unregister, Restrict
  <2>2. QED BY <2>1 DEF Shared, OfHost
<1>2. ASSUME NEW t, t = Register(table, RegisterCaller) PROVE Shared(t)
  <2>1. /\ DOMAIN t = DOMAIN table \cup Programs
        /\ \A p \in DOMAIN table : t[p] = table[p]
        /\ \A p \in Programs \ DOMAIN table : t[p].addr = "vm" /\ t[p].owner = RegisterCaller
    BY <1>2 DEF Register, SetEntries, GuestEntries
  <2>2. QED BY <2>1 DEF Shared, OfHost
<1>3. QED BY <1>1, <1>2

(* One restore is enough: whoever registered the guest's services, the     *)
(* caller may remove them, and nothing conflicts with the host's.           *)
LEMMA RestoredTable ==
  ASSUME NEW table, Shared(table),
         NEW caller, caller = Superuser \/ caller = RegisterCaller,
         NEW list, Addresses(list) = Addresses(List(host)),
         NEW t \in RestoreResults(Unregister(table, caller), list, caller)
  PROVE  Shared(t) /\ Addresses(t) = Addresses(host)
<1> DEFINE left == Unregister(table, caller)
           bad == {p \in DOMAIN list : Conflicts(left, p, list[p].addr)}
           new == Restrict(list, DOMAIN list)
<1>1. /\ DOMAIN left = {p \in DOMAIN table : p \notin Programs \/ (caller # Superuser /\ table[p].owner # caller)}
      /\ \A p \in DOMAIN left : left[p] = table[p]
  BY DEF Unregister, Restrict
<1>2. t \in RestoreResults(left, list, caller) OBVIOUS
<1> HIDE DEF left
<1>3. \A p \in DOMAIN left : OfHost(left, p) BY <1>1 DEF Shared, OfHost
<1>4. DOMAIN host \ Programs \subseteq DOMAIN left BY <1>1 DEF Shared
<1>6. DOMAIN list = DOMAIN host \cap Programs
  <2>1. DOMAIN Addresses(list) = DOMAIN list BY DEF Addresses
  <2>2. DOMAIN Addresses(List(host)) = DOMAIN host \cap Programs BY DEF Addresses, List, Restrict
  <2>3. QED BY <2>1, <2>2
<1>7. \A p \in DOMAIN list : OfHost(list, p)
  <2>1. SUFFICES ASSUME NEW p \in DOMAIN list PROVE OfHost(list, p) OBVIOUS
  <2>2. Addresses(list)[p] = list[p].addr BY DEF Addresses
  <2>3. Addresses(List(host))[p] = host[p].addr BY <1>6 DEF Addresses, List, Restrict
  <2>4. QED BY <1>6, <2>2, <2>3 DEF OfHost
<1>8. bad = {} BY <1>3, <1>7 DEF Conflicts, OfHost
<1>9. t = SetEntries(left, new, caller) BY <1>2, <1>8 DEF RestoreResults
<1>10. DOMAIN new = DOMAIN list /\ \A p \in DOMAIN list : OfHost(new, p)
  BY <1>7 DEF Restrict, OfHost
<1> HIDE DEF new
<1>11. /\ DOMAIN t = DOMAIN left \cup DOMAIN list
       /\ \A p \in DOMAIN t : OfHost(t, p)
  BY <1>3, <1>9, <1>10 DEF SetEntries, OfHost
<1>12. DOMAIN t = DOMAIN host BY <1>3, <1>4, <1>6, <1>11 DEF OfHost
<1>13. Shared(t) BY <1>11, <1>12 DEF Shared
<1>14. Addresses(t) = Addresses(host) BY <1>11, <1>12 DEF Addresses, OfHost
<1>15. QED BY <1>13, <1>14

(* What the steps of a run do to rpcbind's table.                          *)
LEMMA RestoreKept == PcOK /\ RestoreInv /\ [Next]_vars => RestoreInv'
<1> SUFFICES ASSUME PcOK, RestoreInv, [Next]_vars PROVE RestoreInv'
  OBVIOUS
<1> DEFINE Still(i) ==
      /\ UNCHANGED <<linux, sudo, host, rpc, saved, deferred, late>>
      /\ \A j \in Inst \ {i} : pc'[j] = pc[j]
      /\ pc'[i] # "displaced"
      /\ pc[i] \in Early \/ pc'[i] \notin Early
      /\ i \in Pending => pc'[i] \in {"registered", "mounted", "unwind", "killed"}
<1>0. ASSUME NEW i \in Inst, Still(i) PROVE RestoreInv'
  <2>1. /\ Pending \subseteq Pending' /\ RegisterCaller' = RegisterCaller
        /\ AllListedHost' => AllListedHost
    BY <1>0 DEF Pending, RegisterCaller, AllListedHost, ListedHost, PcOK
  <2>2. \A j \in deferred : pc'[j] \notin Early BY <1>0 DEF RestoreInv, PcOK
  <2>3. \A j \in Inst : pc'[j] = "displaced" => j \in deferred BY <1>0 DEF RestoreInv, PcOK
  <2>4. Shared(rpc) => Shared(rpc)' BY <1>0, <2>1 DEF Shared, OfHost
  <2>5. QED BY <1>0, <2>1, <2>2, <2>3, <2>4 DEF RestoreInv, Addresses
<1>1. ASSUME UNCHANGED <<linux, sudo, host, rpc, pc, saved, deferred>>, late \subseteq late'
      PROVE RestoreInv'
  <2>1. /\ Pending' = Pending /\ RegisterCaller' = RegisterCaller
        /\ AllListedHost' => AllListedHost
    BY <1>1 DEF Pending, RegisterCaller, AllListedHost, ListedHost, Addresses
  <2>2. Shared(rpc) => Shared(rpc)' BY <1>1, <2>1 DEF Shared, OfHost
  <2>3. QED BY <1>1, <2>1, <2>2 DEF RestoreInv, Addresses
<1>2. ASSUME NEW i \in Inst, Run(i) PROVE RestoreInv'
  <2> USE DEF PcOK, Positions, Early, Starting, Move, platform, Pending
  <2>1. CASE Probe(i) \/ RemoveStale(i) BY <1>0, <2>1 DEF Probe, RemoveStale
  <2>2. CASE StartLog(i) BY <1>0, <2>2 DEF StartLog
  <2>3. CASE StartVm(i) BY <1>0, <2>3 DEF StartVm
  <2>4. CASE BindApi(i) \/ ListenApi(i) \/ ApiFails(i) BY <1>1, <2>4 DEF BindApi, ListenApi, ApiFails
  <2>5. CASE ListServices(i)
    <3>1. /\ pc[i] = "serving" /\ pc' = [pc EXCEPT ![i] = "listed"]
          /\ UNCHANGED <<linux, sudo, host, rpc, deferred, late>>
          /\ saved' = [saved EXCEPT ![i] = List(rpc)]
      BY <2>5 DEF ListServices
    <3>2. i \notin deferred BY <3>1 DEF RestoreInv
    <3>3. saved' = [j \in Inst |-> saved'[j]] /\ \A j \in deferred : saved'[j] = saved[j]
      BY <3>1, <3>2 DEF RestoreInv
    <3>4. /\ AllListedHost' => AllListedHost
          /\ Pending' = Pending /\ RegisterCaller' = RegisterCaller
          /\ Shared(rpc)' <=> Shared(rpc)
      BY <3>1, <3>2, <3>3 DEF AllListedHost, ListedHost, RegisterCaller, Shared, OfHost, Addresses
    <3>5. /\ \A j \in deferred' : pc'[j] \notin Early
          /\ \A j \in Inst : pc'[j] = "displaced" => j \in deferred'
      BY <3>1, <3>2 DEF RestoreInv
    <3>6. QED BY <3>1, <3>3, <3>4, <3>5 DEF RestoreInv, Addresses
  <2>6. CASE NotHostRpcbind(i) BY <1>0, <2>6 DEF NotHostRpcbind
  <2>7. CASE UnregisterServices(i)
    <3>1. /\ pc[i] = "listed" /\ \E q \in {"displaced", "unwind"} : pc' = [pc EXCEPT ![i] = q]
          /\ UNCHANGED <<linux, sudo, host, saved, late>> /\ deferred' = deferred \cup {i}
          /\ rpc' = rpc \/ \E caller \in Owners : rpc' = Unregister(rpc, caller)
      BY <2>7 DEF UnregisterServices, Owners
    <3>2. (AllListedHost' => AllListedHost) /\ RegisterCaller' = RegisterCaller /\ Pending' # {}
      BY <3>1 DEF AllListedHost, ListedHost, RegisterCaller
    <3>3. Shared(rpc) => Shared(rpc') BY <3>1, SharedOperations
    <3>4. Shared(rpc)' <=> Shared(rpc') BY <3>1, <3>2 DEF Shared, OfHost
    <3>5. /\ \A j \in deferred' : pc'[j] \notin Early
          /\ \A j \in Inst : pc'[j] = "displaced" => j \in deferred'
      BY <3>1 DEF RestoreInv
    <3>6. QED BY <3>1, <3>2, <3>3, <3>4, <3>5 DEF RestoreInv
  <2>8. CASE RegisterServices(i)
    <3>1. /\ pc[i] = "displaced" /\ \E q \in {"unwind", "registered"} : pc' = [pc EXCEPT ![i] = q]
          /\ UNCHANGED <<linux, sudo, host, saved, deferred, late>>
          /\ rpc' = Register(rpc, RegisterCaller) \/ rpc' = rpc
      BY <2>8 DEF RegisterServices
    <3>2. (AllListedHost' => AllListedHost) /\ RegisterCaller' = RegisterCaller
      BY <3>1 DEF AllListedHost, ListedHost, RegisterCaller
    <3>3. i \in deferred /\ Pending' # {} BY <3>1 DEF RestoreInv
    <3>4. Shared(rpc) => Shared(rpc') BY <3>1, SharedOperations
    <3>5. Shared(rpc)' <=> Shared(rpc') BY <3>1, <3>2 DEF Shared, OfHost
    <3>6. /\ \A j \in deferred' : pc'[j] \notin Early
          /\ \A j \in Inst : pc'[j] = "displaced" => j \in deferred'
      BY <3>1 DEF RestoreInv
    <3>7. QED BY <3>1, <3>2, <3>3, <3>4, <3>5, <3>6 DEF RestoreInv
  <2>9. CASE MountShare(i) BY <1>0, <2>9 DEF MountShare
  <2>10. CASE Unwind(i) BY <1>0, <2>10 DEF Unwind
  <2>15. CASE LateGuard(i) BY <1>1, <2>15 DEF LateGuard
  <2>11. CASE RestoreServices(i)
    <3>1. /\ pc[i] = "unwind" /\ pc' = [pc EXCEPT ![i] = "unwind_sock"]
          /\ UNCHANGED <<linux, sudo, host, saved, deferred, late>>
      BY <2>11 DEF RestoreServices
    <3>2. CASE i \notin deferred
      <4>1. rpc' = rpc BY <2>11, <3>2 DEF RestoreServices
      <4>2. QED BY <1>0, <3>1, <3>2, <4>1
    <3>3. CASE i \in deferred
      <4>1. rpc' \in RestoreResults(Unregister(rpc, CleanupCaller(i)), saved[i], CleanupCaller(i))
        BY <2>11, <3>3 DEF RestoreServices
      <4>2. i \notin late => CleanupCaller(i) = Superuser \/ CleanupCaller(i) = RegisterCaller
        BY DEF CleanupCaller, RegisterCaller
      <4>3. (AllListedHost' => AllListedHost) /\ RegisterCaller' = RegisterCaller
        BY <3>1 DEF AllListedHost, ListedHost, RegisterCaller
      <4>4. ASSUME AllListedHost PROVE Shared(rpc') /\ Addresses(rpc') = Addresses(host)
        <5>1. Shared(rpc) BY <4>4 DEF RestoreInv
        <5>2. Addresses(saved[i]) = Addresses(List(host)) /\ i \notin late BY <3>3, <4>4 DEF AllListedHost, ListedHost
        <5>3. QED BY <4>1, <4>2, <5>1, <5>2, RestoredTable
      <4>5. Shared(rpc)' <=> Shared(rpc') BY <3>1, <4>3 DEF Shared, OfHost
      <4>6. Addresses(rpc)' = Addresses(rpc') /\ Addresses(host)' = Addresses(host)
        BY <3>1 DEF Addresses
      <4>7. /\ \A j \in deferred' : pc'[j] \notin Early
            /\ \A j \in Inst : pc'[j] = "displaced" => j \in deferred'
        BY <3>1 DEF RestoreInv
      <4>8. QED BY <3>1, <4>3, <4>4, <4>5, <4>6, <4>7 DEF RestoreInv
    <3>4. QED BY <3>2, <3>3
  <2>12. CASE RemoveSocket(i) BY <1>0, <2>12 DEF RemoveSocket
  <2>13. CASE Exit(i) BY <1>0, <2>13 DEF Exit
  <2>14. QED
    BY <1>2, <2>1, <2>2, <2>3, <2>4, <2>5, <2>6, <2>7, <2>8, <2>9, <2>10, <2>11,
       <2>12, <2>13, <2>15 DEF Run
<1>3. CASE StopScan BY <1>1, <1>3 DEF StopScan, platform, session
<1>4. CASE StopQuit BY <1>1, <1>4 DEF StopQuit, platform, session
<1>5. CASE StopHelper BY <1>1, <1>5 DEF StopHelper, platform, session
<1>6. CASE StopKill
  <2>1. /\ UNCHANGED <<linux, sudo, host, rpc, saved, deferred, late>>
        /\ pc' = [pc EXCEPT ![stop.target] = IF @ = "gone" THEN @ ELSE "killed"]
    BY <1>6 DEF StopKill, platform
  <2>2. CASE stop.target \in Inst
    <3>1. /\ pc'[stop.target] = "killed" \/ (pc[stop.target] = "gone" /\ pc'[stop.target] = "gone")
          /\ \A j \in Inst \ {stop.target} : pc'[j] = pc[j]
      BY <2>1, <2>2 DEF PcOK
    <3>2. QED BY <1>0, <2>1, <2>2, <3>1 DEF Pending, Early, Starting
  <2>3. CASE stop.target \notin Inst
    <3>1. pc' = pc BY <2>1, <2>3 DEF PcOK
    <3>2. QED BY <1>1, <2>1, <3>1
  <2>4. QED BY <2>2, <2>3
<1>7. CASE UNCHANGED vars BY <1>1, <1>7 DEF vars, session
<1>8. QED BY <1>2, <1>3, <1>4, <1>5, <1>6, <1>7 DEF Next

(***************************************************************************)
(* For any number of mounts and whatever the host had registered, a stock   *)
(* NFS server at the guest's own address included: when no run is left and  *)
(* none was killed, rpcbind serves what it served before, provided each run *)
(* that displaced services had listed the host's and no late guard of its   *)
(* subscriber thread has taken root from its clean-up.  One restore         *)
(* suffices; the table is the host's again after every one.                 *)
(***************************************************************************)
THEOREM ServicesRestored == Spec => []HostServicesRestored
<1>1. Init => PcOK /\ RestoreInv
  <2> SUFFICES ASSUME Init PROVE PcOK /\ RestoreInv
    OBVIOUS
  <2>1. PcOK BY DEF Init, PcOK, Positions
  <2>2. Shared(rpc)
    <3>1. rpc = host BY DEF Init
    <3>2. QED BY <3>1 DEF Shared, OfHost
  <2>3. saved = [i \in Inst |-> saved[i]] BY DEF Init
  <2>4. QED BY <2>1, <2>2, <2>3 DEF Init, RestoreInv
<1>2. PcOK /\ RestoreInv /\ [Next]_vars => (PcOK /\ RestoreInv)'
  BY PositionsKept, RestoreKept
<1>3. PcOK /\ RestoreInv => HostServicesRestored
  <2> SUFFICES ASSUME PcOK, RestoreInv, Quiet, AllListedHost PROVE Addresses(rpc) = Addresses(host)
    BY DEF HostServicesRestored, AllListedHost
  <2>1. Pending = {} BY DEF Pending, Quiet, Starting, PcOK
  <2>2. QED BY <2>1 DEF RestoreInv
<1>4. QED BY <1>1, <1>2, <1>3, PTL DEF Spec

-----------------------------------------------------------------------------
(* The logs.                                                               *)

\* positions before init_log_file
NoLogYet == {"idle", "probed", "scanned"}

(* The logs of these runs are newer than those of earlier ones, so the     *)
(* logs that are newer than one of them are among them.                     *)
LogInv ==
  /\ clock \in Nat /\ active \in [Inst -> SUBSET Inst]
  /\ DOMAIN logs \subseteq OldLogs \cup Inst
  /\ \A l \in DOMAIN logs : logs[l] \in Nat /\ logs[l] < clock
  /\ \A l \in DOMAIN logs \cap OldLogs, i \in DOMAIN logs \cap Inst : logs[l] < logs[i]
  /\ \A i \in Inst : pc[i] \in NoLogYet => i \notin DOMAIN logs
  /\ LogKept

(* LogKept speaks of the positions with a log.                             *)
LEMMA StartingSplit == Starting \ {"logged"} = NoLogYet
BY DEF Starting, NoLogYet

(* With at most LOG_RETENTION_COUNT runs, cleanup_old_logs keeps the log   *)
(* of each of them, known to be active or not: those that are newer are    *)
(* too few.                                                                 *)
LEMMA RecentLogsKept ==
  ASSUME IsFiniteSet(Inst), Cardinality(Inst) <= Retention, LogInv, NEW act \in SUBSET Inst,
         NEW j \in Inst \ DOMAIN logs, NEW i \in Inst \cap DOMAIN logs
  PROVE  i \in DOMAIN KeptLogs(act)
<1> DEFINE Newer == {m \in DOMAIN logs : logs[m] > logs[i]}
           keep == IF Cardinality(act) > Retention - 1 THEN Cardinality(act) ELSE Retention - 1
<1>1. Newer \subseteq (Inst \ {j}) \ {i}
  <2>1. SUFFICES ASSUME NEW m \in DOMAIN logs, logs[m] > logs[i] PROVE m \in (Inst \ {j}) \ {i}
    OBVIOUS
  <2>2. logs[i] \in Nat /\ logs[m] \in Nat BY DEF LogInv
  <2>3. m # i /\ m # j /\ ~(logs[m] < logs[i]) BY <2>1, <2>2
  <2>4. QED BY <2>3 DEF LogInv
<1>2. i # j OBVIOUS
<1>3. /\ IsFiniteSet((Inst \ {j}) \ {i}) /\ Cardinality(Inst) \in Nat
      /\ Cardinality((Inst \ {j}) \ {i}) = Cardinality(Inst) - 2
  <2>1. Cardinality(Inst) \in Nat BY FS_CardinalityType
  <2>2. IsFiniteSet(Inst \ {j}) /\ Cardinality(Inst \ {j}) = Cardinality(Inst) - 1
    BY FS_RemoveElement
  <2>3. i \in Inst \ {j} BY <1>2
  <2>4. /\ IsFiniteSet((Inst \ {j}) \ {i})
        /\ Cardinality((Inst \ {j}) \ {i}) = Cardinality(Inst \ {j}) - 1
    BY <2>2, <2>3, FS_RemoveElement
  <2>5. QED BY <2>1, <2>2, <2>4
<1>4. Cardinality(Newer) \in Nat /\ Cardinality(Newer) <= Cardinality(Inst) - 2
  <2> HIDE DEF Newer
  <2>1. IsFiniteSet(Newer) /\ Cardinality(Newer) <= Cardinality((Inst \ {j}) \ {i})
    BY <1>1, <1>3, FS_Subset
  <2>2. QED BY <1>3, <2>1, FS_CardinalityType
<1>5. Cardinality(act) \in Nat BY FS_Subset, FS_CardinalityType
<1>6. keep >= Retention - 1 /\ keep \in Int BY <1>5, RetentionAssumption
<1> HIDE DEF keep
<1>7. Cardinality(Newer) < keep BY <1>3, <1>4, <1>6, RetentionAssumption
<1>8. QED BY <1>7 DEF KeptLogs, Restrict, keep

(* What is left of the logs.                                               *)
LEMMA KeptLogsSubset ==
  ASSUME NEW act
  PROVE  /\ DOMAIN KeptLogs(act) \subseteq DOMAIN logs
         /\ \A l \in DOMAIN KeptLogs(act) : KeptLogs(act)[l] = logs[l]
BY DEF KeptLogs, Restrict

(* A run writes to its log; the logs of the others stay, all or enough.    *)
LEMMA WriteKept ==
  ASSUME LogInv, NEW i \in Inst, NEW files, Write(i, files),
         DOMAIN files \subseteq DOMAIN logs, \A l \in DOMAIN files : files[l] = logs[l],
         \A j \in Inst \ {i} : j \in DOMAIN logs => j \in DOMAIN files,
         active' \in [Inst -> SUBSET Inst],
         \A j \in Inst \ {i} : pc'[j] = pc[j], pc'[i] \notin NoLogYet
  PROVE  LogInv'
<1>1. /\ DOMAIN logs' = DOMAIN files \cup {i} /\ logs'[i] = clock /\ clock' = clock + 1
      /\ \A l \in DOMAIN files \ {i} : logs'[l] = logs[l]
  BY DEF Write
<1>2. clock \in Nat /\ clock' \in Nat BY <1>1 DEF LogInv
<1>3. \A l \in DOMAIN logs' : logs'[l] \in Nat /\ logs'[l] < clock' BY <1>1, <1>2 DEF LogInv
<1>4. ASSUME NEW l \in DOMAIN logs' \cap OldLogs, NEW j \in DOMAIN logs' \cap Inst
      PROVE  logs'[l] < logs'[j]
  <2>1. l # i /\ l \in DOMAIN files /\ logs'[l] = logs[l] /\ logs[l] < clock
    BY <1>1, LogsAssumption DEF LogInv
  <2>2. CASE j = i BY <1>1, <2>1, <2>2
  <2>3. CASE j # i BY <1>1, <2>1, <2>3 DEF LogInv
  <2>4. QED BY <2>2, <2>3
<1>5. DOMAIN logs' \subseteq OldLogs \cup Inst BY <1>1 DEF LogInv
<1>6. \A j \in Inst : pc'[j] \in NoLogYet => j \notin DOMAIN logs' BY <1>1 DEF LogInv
<1>7. LogKept' BY <1>1, StartingSplit DEF LogInv, LogKept
<1>8. QED BY <1>2, <1>3, <1>4, <1>5, <1>6, <1>7 DEF LogInv

(* Everything but a write leaves the logs alone.                           *)
LEMMA NoWriteKept ==
  ASSUME LogInv, UNCHANGED <<logs, clock>>, active' \in [Inst -> SUBSET Inst],
         \A j \in Inst : \/ pc'[j] = pc[j] \/ pc'[j] \in Dead
                         \/ pc[j] \in NoLogYet /\ pc'[j] \in NoLogYet
                         \/ /\ pc[j] \notin NoLogYet \cup Dead
                            /\ pc'[j] \notin NoLogYet
  PROVE  LogInv'
<1>1. \A j \in Inst : pc'[j] \in NoLogYet => pc[j] \in NoLogYet BY DEF Dead, NoLogYet
<1>2. \A j \in Inst : pc'[j] \notin NoLogYet \cup Dead => pc[j] \notin NoLogYet \cup Dead
  BY DEF Dead, NoLogYet
<1>3. QED BY <1>1, <1>2, StartingSplit DEF LogInv, LogKept

(* The logs, as long as there are at most LOG_RETENTION_COUNT runs.        *)
LEMMA LogsKept ==
  ASSUME IsFiniteSet(Inst), Cardinality(Inst) <= Retention, PcOK, LogInv, [Next]_vars
  PROVE  LogInv'
<1>0. active \in [Inst -> SUBSET Inst] BY DEF LogInv
<1>1. ASSUME NEW i \in Inst, Run(i) PROVE LogInv'
  <2> USE DEF PcOK, Positions, Move, Dead, NoLogYet
  <2>1. CASE Probe(i) \/ RemoveStale(i)
    <3>1. active' \in [Inst -> SUBSET Inst] BY <1>0, <2>1 DEF Probe, RemoveStale
    <3>2. QED BY <2>1, <3>1, NoWriteKept DEF Probe, RemoveStale
  <2>2. CASE StartLog(i)
    <3>1. /\ pc[i] = "scanned" /\ pc' = [pc EXCEPT ![i] = "logged"] /\ Write(i, KeptLogs(active[i]))
          /\ active' = [active EXCEPT ![i] = {}]
      BY <2>2 DEF StartLog
    <3>2. i \notin DOMAIN logs /\ active[i] \in SUBSET Inst BY <1>0, <3>1 DEF LogInv
    <3>3. \A j \in Inst \ {i} : j \in DOMAIN logs => j \in DOMAIN KeptLogs(active[i])
      BY <3>2, RecentLogsKept
    <3>4. active' \in [Inst -> SUBSET Inst] BY <1>0, <3>1
    <3>5. QED BY <3>1, <3>3, <3>4, KeptLogsSubset, WriteKept
  <2>3. ASSUME Touch(i), active' = active, pc[i] \notin NoLogYet \cup Dead,
               NEW q \in Positions \ NoLogYet, pc' = [pc EXCEPT ![i] = q]
        PROVE  LogInv'
    <3>1. i \in DOMAIN logs BY <2>3, StartingSplit DEF LogInv, LogKept
    <3>2. Write(i, logs) BY <2>3, <3>1 DEF Touch
    <3>3. QED BY <1>0, <2>3, <3>2, WriteKept
  <2>4. CASE StartVm(i) BY <2>3, <2>4 DEF StartVm
  <2>5. CASE BindApi(i) \/ ListenApi(i) \/ ApiFails(i)
    BY <1>0, <2>5, NoWriteKept DEF BindApi, ListenApi, ApiFails
  <2>6. CASE ListServices(i) BY <1>0, <2>6, NoWriteKept DEF ListServices
  <2>7. CASE NotHostRpcbind(i) BY <1>0, <2>7, NoWriteKept DEF NotHostRpcbind
  <2>8. CASE UnregisterServices(i) BY <1>0, <2>8, NoWriteKept DEF UnregisterServices
  <2>9. CASE RegisterServices(i) BY <1>0, <2>9, NoWriteKept DEF RegisterServices
  <2>10. CASE MountShare(i) BY <2>3, <2>10 DEF MountShare
  <2>11. CASE Unwind(i) \/ LateGuard(i) BY <1>0, <2>11, NoWriteKept DEF Unwind, LateGuard
  <2>12. CASE RestoreServices(i) BY <1>0, <2>12, NoWriteKept DEF RestoreServices
  <2>13. CASE RemoveSocket(i) BY <1>0, <2>13, NoWriteKept DEF RemoveSocket
  <2>14. CASE Exit(i) BY <1>0, <2>14, NoWriteKept DEF Exit
  <2>15. QED
    BY <1>1, <2>1, <2>2, <2>4, <2>5, <2>6, <2>7, <2>8, <2>9, <2>10, <2>11, <2>12,
       <2>13, <2>14 DEF Run
<1>2. CASE StopScan BY <1>0, <1>2, NoWriteKept DEF StopScan, session
<1>3. CASE StopQuit BY <1>0, <1>3, NoWriteKept DEF StopQuit, session
<1>4. CASE StopHelper BY <1>0, <1>4, NoWriteKept DEF StopHelper, session
<1>5. CASE StopKill BY <1>0, <1>5, NoWriteKept DEF StopKill, PcOK, Dead
<1>6. CASE UNCHANGED vars BY <1>0, <1>6, NoWriteKept DEF vars, session
<1>7. QED BY <1>1, <1>2, <1>3, <1>4, <1>5, <1>6 DEF Next

(***************************************************************************)
(* Up to LOG_RETENTION_COUNT mounts, however they overlap and however many  *)
(* old logs there are, do not clean up each other's logs: not even that of  *)
(* one that has no socket yet, which cleanup_old_logs cannot know of.       *)
(***************************************************************************)
THEOREM RunningLogsKept ==
  ASSUME IsFiniteSet(Inst), Cardinality(Inst) <= Retention
  PROVE  Spec => []LogKept
<1>1. Init => PcOK /\ LogInv
  <2> SUFFICES ASSUME Init PROVE PcOK /\ LogInv
    OBVIOUS
  <2>1. PcOK BY DEF Init, PcOK, Positions
  <2>2. Cardinality(OldLogs) \in Nat BY LogsAssumption, FS_CardinalityType
  <2>3. logs \in [OldLogs -> 1..Cardinality(OldLogs)] /\ clock = Cardinality(OldLogs) + 1
    BY DEF Init, Bijection, Injection
  <2>4. \A l \in OldLogs : logs[l] \in Nat /\ logs[l] < clock BY <2>2, <2>3
  <2>5. clock \in Nat /\ active \in [Inst -> SUBSET Inst] BY <2>2, <2>3 DEF Init
  <2>6. DOMAIN logs = OldLogs /\ OldLogs \cap Inst = {} BY <2>3, LogsAssumption
  <2>7. LogKept BY DEF Init, LogKept, Starting
  <2>8. LogInv BY <2>4, <2>5, <2>6, <2>7 DEF LogInv
  <2>9. QED BY <2>1, <2>8
<1>2. PcOK /\ LogInv /\ [Next]_vars => (PcOK /\ LogInv)'
  BY PositionsKept, LogsKept
<1>3. LogInv => LogKept BY DEF LogInv
<1>4. QED BY <1>1, <1>2, <1>3, PTL DEF Spec
=============================================================================
