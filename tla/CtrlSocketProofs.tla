-------------------------- MODULE CtrlSocketProofs --------------------------
(***************************************************************************)
(* Proofs about the control socket for any set of host connections:        *)
(* type correctness, and that a guest with a subscription does not power   *)
(* off before it has handed over the report.                               *)
(***************************************************************************)
EXTENDS CtrlSocket, TLAPS

(***************************************************************************)
(* The inductive invariant.  QueueInv: a connection is in one place only   *)
(* (not yet open, waiting, being read, or handled), so nothing written to  *)
(* a client is ever overwritten.  ReceiverInv and DoneInv: while a         *)
(* registered subscription is unserved, the sender of "done" is still in   *)
(* its mutex and some subscriber thread is on its way to the write.        *)
(***************************************************************************)
QueueInv ==
  /\ \A i, j \in DOMAIN backlog : backlog[i] = backlog[j] => i = j
  /\ \A i \in DOMAIN backlog : /\ request[backlog[i]] # "none"
                               /\ sub[backlog[i]] = "none"
                               /\ response[backlog[i]] = "none"
                               /\ backlog[i] # conn
  /\ conn # NoClient => request[conn] # "none" /\ sub[conn] = "none"
  /\ accept = "read" => response[conn] = "none"
  /\ accept \in {"ack", "done"} => request[conn] = "Quit"
  /\ \A c \in Clients : request[c] = "none" => sub[c] = "none" /\ response[c] = "none"

SubscriberInv ==
  /\ Registered => subscribed
  /\ \A c \in Clients : sub[c] # "none" => request[c] = "SubscribeEvents"
  /\ \A c \in Clients : sub[c] \in {"spawned", "recv", "write"} => response[c] = "none"
  /\ \A c \in Clients : sub[c] = "signal" => response[c] \in {"ReportEvent", "failed"}

ReceiverInv ==
  /\ \A c \in Clients : sub[c] \in {"recv", "write", "signal"} => reportRx = "taken"
  /\ \A c, d \in Clients : /\ sub[c] \in {"recv", "write", "signal"}
                            /\ sub[d] \in {"recv", "write", "signal"}
                            => c = d
  /\ reportRx = "held" => \A c \in Clients : sub[c] \in {"none", "spawned"}
  /\ reportRx = "taken" =>
       ReportAttempted \/ \E c \in Clients : sub[c] \in {"recv", "write"}
  /\ reportRx = "dropped" => ReportAttempted \/ (accept = "ended" /\ ~Registered)

DoneInv ==
  /\ doneTx # "held" =>
       ReportAttempted \/ (accept \in {"join", "ended"} /\ ~Registered)
  /\ main \in {"return", "off"} => doneTx # "held" \/ reportRx = "dropped"

ReportInv == TypeOK /\ QueueInv /\ SubscriberInv /\ ReceiverInv /\ DoneInv

(* The server is created with its channels open and no connection. *)
LEMMA InitType == ASSUME Init PROVE TypeOK
<1>1. backlog \in Seq(Clients)
  BY DEF Init
<1>2. accept \in {"read", "ack", "done"} <=> conn # NoClient
  BY DEF Init
<1> QED BY <1>1, <1>2 DEF Init, TypeOK, Requests

(***************************************************************************)
(* The variables of the control socket keep their types, and the accept    *)
(* thread serves a connection exactly while it is between accept and the   *)
(* end of the request's handling.                                          *)
(***************************************************************************)
THEOREM TypeCorrect == Spec => []TypeOK
<1>1. Init => TypeOK
  BY InitType
<1>2. TypeOK /\ [Next]_vars => TypeOK'
  <2> SUFFICES ASSUME TypeOK, [Next]_vars PROVE TypeOK'
    OBVIOUS
  <2> USE ClientsAssumption DEF TypeOK, Requests
  <2>1. ASSUME NEW c \in Clients, NEW r \in Requests, Connect(c, r) PROVE TypeOK'
    BY <2>1 DEF Connect
  <2>2. CASE AcceptError
    BY <2>2 DEF AcceptError
  <2>3. CASE AcceptThread
    <3>1. CASE Accept
      BY <3>1 DEF Accept
    <3>2. CASE ReadInvalid \/ ReadSubscribe \/ ReadQuit
      BY <3>2 DEF ReadInvalid, ReadSubscribe, ReadQuit
    <3>3. ASSUME NEW ok \in BOOLEAN, WriteAck(ok) PROVE TypeOK'
      BY <3>3 DEF WriteAck
    <3>4. CASE FinishQuit \/ EndAccept
      BY <3>4 DEF FinishQuit, EndAccept
    <3> QED BY <2>3, <3>1, <3>2, <3>3, <3>4 DEF AcceptThread
  <2>4. ASSUME NEW c \in Clients, SubscriberThread(c) PROVE TypeOK'
    <3>1. CASE TakeReceiver(c)
      BY <3>1 DEF TakeReceiver
    <3>2. CASE RecvReport(c) \/ SignalDone(c)
      BY <3>2 DEF RecvReport, SignalDone
    <3>3. ASSUME NEW ok \in BOOLEAN, WriteReport(c, ok) PROVE TypeOK'
      BY <3>3 DEF WriteReport
    <3> QED BY <2>4, <3>1, <3>2, <3>3 DEF SubscriberThread
  <2>5. CASE MainThread
    BY <2>5 DEF MainThread, Main, Serve, Fail, WaitForQuitCmd, Cleanup,
                SendReport, RecvDone, PowerOff
  <2>6. CASE UNCHANGED vars
    BY <2>6 DEF vars
  <2> QED BY <2>1, <2>2, <2>3, <2>4, <2>5, <2>6 DEF Next
<1> QED BY <1>1, <1>2, PTL DEF Spec

(***************************************************************************)
(* The inductive invariant holds initially and every step preserves it.    *)
(***************************************************************************)
THEOREM ReportInvariant == Spec => []ReportInv
<1>1. Init => ReportInv
  <2> SUFFICES ASSUME Init PROVE ReportInv
    OBVIOUS
  <2>1. TypeOK
    BY InitType
  <2>2. DOMAIN backlog = {}
    BY DEF Init
  <2> QED BY <2>1, <2>2 DEF Init, ReportInv, QueueInv, SubscriberInv,
             ReceiverInv, DoneInv, Registered, ReportAttempted
<1>2. ReportInv /\ TypeOK' /\ [Next]_vars => ReportInv'
  <2> SUFFICES ASSUME ReportInv, TypeOK', [Next]_vars
               PROVE  QueueInv' /\ SubscriberInv' /\ ReceiverInv' /\ DoneInv'
    BY DEF ReportInv
  <2> USE ClientsAssumption DEF ReportInv, TypeOK, QueueInv, SubscriberInv
  <2>1. ASSUME NEW c \in Clients, NEW r \in Requests, Connect(c, r)
       PROVE  QueueInv' /\ SubscriberInv' /\ ReceiverInv' /\ DoneInv'
    <3>1. QueueInv'
      BY <2>1 DEF Connect, Requests
    <3>2. SubscriberInv'
      BY <2>1 DEF Connect, Requests, Registered
    <3>3. ReceiverInv'
      BY <2>1 DEF Connect, Requests, ReceiverInv, Registered, ReportAttempted
    <3>4. DoneInv'
      BY <2>1 DEF Connect, Requests, ReceiverInv, DoneInv, Registered, ReportAttempted
    <3> QED BY <3>1, <3>2, <3>3, <3>4
  <2>2. CASE Accept
    <3>1. QueueInv'
      BY <2>2 DEF Accept
    <3>2. SubscriberInv'
      BY <2>2 DEF Accept, Registered
    <3>3. ReceiverInv'
      BY <2>2 DEF Accept, ReceiverInv, Registered, ReportAttempted
    <3>4. DoneInv'
      BY <2>2 DEF Accept, ReceiverInv, DoneInv, Registered, ReportAttempted
    <3> QED BY <3>1, <3>2, <3>3, <3>4
  <2>3. CASE AcceptError
    <3>1. QueueInv'
      BY <2>3 DEF AcceptError
    <3>2. SubscriberInv'
      BY <2>3 DEF AcceptError, Registered
    <3>3. ReceiverInv'
      BY <2>3 DEF AcceptError, ReceiverInv, Registered, ReportAttempted
    <3>4. DoneInv'
      BY <2>3 DEF AcceptError, ReceiverInv, DoneInv, Registered, ReportAttempted
    <3> QED BY <3>1, <3>2, <3>3, <3>4
  <2>4. CASE ReadInvalid
    <3>1. QueueInv'
      BY <2>4 DEF ReadInvalid
    <3>2. SubscriberInv'
      BY <2>4 DEF ReadInvalid, Registered
    <3>3. ReceiverInv'
      BY <2>4 DEF ReadInvalid, ReceiverInv, Registered, ReportAttempted
    <3>4. DoneInv'
      BY <2>4 DEF ReadInvalid, ReceiverInv, DoneInv, Registered, ReportAttempted
    <3> QED BY <3>1, <3>2, <3>3, <3>4
  <2>5. CASE ReadSubscribe
    <3>1. QueueInv'
      BY <2>5 DEF ReadSubscribe
    <3>2. SubscriberInv'
      BY <2>5 DEF ReadSubscribe, Registered
    <3>3. ReceiverInv'
      BY <2>5 DEF ReadSubscribe, ReceiverInv, Registered, ReportAttempted
    <3>4. DoneInv'
      BY <2>5 DEF ReadSubscribe, ReceiverInv, DoneInv, Registered, ReportAttempted
    <3> QED BY <3>1, <3>2, <3>3, <3>4
  <2>6. CASE ReadQuit
    <3>1. QueueInv'
      BY <2>6 DEF ReadQuit
    <3>2. SubscriberInv'
      BY <2>6 DEF ReadQuit, Registered
    <3>3. ReceiverInv'
      BY <2>6 DEF ReadQuit, ReceiverInv, Registered, ReportAttempted
    <3>4. DoneInv'
      BY <2>6 DEF ReadQuit, ReceiverInv, DoneInv, Registered, ReportAttempted
    <3> QED BY <3>1, <3>2, <3>3, <3>4
  <2>7. CASE FinishQuit
    <3>1. QueueInv'
      BY <2>7 DEF FinishQuit
    <3>2. SubscriberInv'
      BY <2>7 DEF FinishQuit, Registered
    <3>3. ReceiverInv'
      BY <2>7 DEF FinishQuit, ReceiverInv, Registered, ReportAttempted
    <3>4. DoneInv'
      BY <2>7 DEF FinishQuit, ReceiverInv, DoneInv, Registered, ReportAttempted
    <3> QED BY <3>1, <3>2, <3>3, <3>4
  <2>8. CASE EndAccept
    <3>1. QueueInv'
      BY <2>8 DEF EndAccept
    <3>2. SubscriberInv'
      BY <2>8 DEF EndAccept, Registered
    <3>3. ReceiverInv'
      BY <2>8 DEF EndAccept, ReceiverInv, Registered, ReportAttempted
    <3>4. DoneInv'
      BY <2>8 DEF EndAccept, ReceiverInv, DoneInv, Registered, ReportAttempted
    <3> QED BY <3>1, <3>2, <3>3, <3>4
  <2>9. ASSUME NEW ok \in BOOLEAN, WriteAck(ok)
       PROVE  QueueInv' /\ SubscriberInv' /\ ReceiverInv' /\ DoneInv'
    <3>1. QueueInv'
      BY <2>9 DEF WriteAck
    <3>2. SubscriberInv'
      BY <2>9 DEF WriteAck, Registered
    <3>3. ReceiverInv'
      BY <2>9 DEF WriteAck, ReceiverInv, Registered, ReportAttempted
    <3>4. DoneInv'
      BY <2>9 DEF WriteAck, ReceiverInv, DoneInv, Registered, ReportAttempted
    <3> QED BY <3>1, <3>2, <3>3, <3>4
  <2>10. ASSUME NEW c \in Clients, TakeReceiver(c)
       PROVE  QueueInv' /\ SubscriberInv' /\ ReceiverInv' /\ DoneInv'
    <3>1. QueueInv'
      BY <2>10 DEF TakeReceiver
    <3>2. SubscriberInv'
      BY <2>10 DEF TakeReceiver, Registered
    <3>3. ReceiverInv'
      BY <2>10 DEF TakeReceiver, ReceiverInv, Registered, ReportAttempted
    <3>4. DoneInv'
      BY <2>10 DEF TakeReceiver, ReceiverInv, DoneInv, Registered, ReportAttempted
    <3> QED BY <3>1, <3>2, <3>3, <3>4
  <2>11. ASSUME NEW c \in Clients, RecvReport(c)
       PROVE  QueueInv' /\ SubscriberInv' /\ ReceiverInv' /\ DoneInv'
    <3>1. QueueInv'
      BY <2>11 DEF RecvReport
    <3>2. SubscriberInv'
      BY <2>11 DEF RecvReport, Registered
    <3>3. ReceiverInv'
      BY <2>11 DEF RecvReport, ReceiverInv, Registered, ReportAttempted
    <3>4. DoneInv'
      BY <2>11 DEF RecvReport, ReceiverInv, DoneInv, Registered, ReportAttempted
    <3> QED BY <3>1, <3>2, <3>3, <3>4
  <2>12. ASSUME NEW c \in Clients, SignalDone(c)
       PROVE  QueueInv' /\ SubscriberInv' /\ ReceiverInv' /\ DoneInv'
    <3>1. QueueInv'
      BY <2>12 DEF SignalDone
    <3>2. SubscriberInv'
      BY <2>12 DEF SignalDone, Registered
    <3>3. ReceiverInv'
      BY <2>12 DEF SignalDone, ReceiverInv, Registered, ReportAttempted
    <3>4. DoneInv'
      BY <2>12 DEF SignalDone, ReceiverInv, DoneInv, Registered, ReportAttempted
    <3> QED BY <3>1, <3>2, <3>3, <3>4
  <2>13. ASSUME NEW c \in Clients, NEW ok \in BOOLEAN, WriteReport(c, ok)
       PROVE  QueueInv' /\ SubscriberInv' /\ ReceiverInv' /\ DoneInv'
    <3>1. QueueInv'
      BY <2>13 DEF WriteReport
    <3>2. SubscriberInv'
      BY <2>13 DEF WriteReport, Registered
    <3>3. ReceiverInv'
      BY <2>13 DEF WriteReport, ReceiverInv, Registered, ReportAttempted
    <3>4. DoneInv'
      BY <2>13 DEF WriteReport, ReceiverInv, DoneInv, Registered, ReportAttempted
    <3> QED BY <3>1, <3>2, <3>3, <3>4
  <2>14. CASE MainThread
    <3>1. QueueInv'
      BY <2>14 DEF MainThread, Main, Serve, Fail, WaitForQuitCmd,
                Cleanup, SendReport, RecvDone, PowerOff
    <3>2. SubscriberInv'
      BY <2>14 DEF MainThread, Main, Serve, Fail, WaitForQuitCmd,
                Cleanup, SendReport, RecvDone, PowerOff, Registered
    <3>3. ReceiverInv'
      BY <2>14 DEF MainThread, Main, Serve, Fail, WaitForQuitCmd,
                Cleanup, SendReport, RecvDone, PowerOff, ReceiverInv, Registered, ReportAttempted
    <3>4. DoneInv'
      BY <2>14 DEF MainThread, Main, Serve, Fail, WaitForQuitCmd,
                Cleanup, SendReport, RecvDone, PowerOff, ReceiverInv, DoneInv, Registered, ReportAttempted
    <3> QED BY <3>1, <3>2, <3>3, <3>4
  <2>15. CASE UNCHANGED vars
    <3>1. QueueInv'
      BY <2>15 DEF vars
    <3>2. SubscriberInv'
      BY <2>15 DEF vars, Registered
    <3>3. ReceiverInv'
      BY <2>15 DEF vars, ReceiverInv, Registered, ReportAttempted
    <3>4. DoneInv'
      BY <2>15 DEF vars, ReceiverInv, DoneInv, Registered, ReportAttempted
    <3> QED BY <3>1, <3>2, <3>3, <3>4
  <2> QED BY <2>1, <2>2, <2>3, <2>4, <2>5, <2>6, <2>7, <2>8, <2>9, <2>10, <2>11, <2>12, <2>13, <2>14, <2>15 DEF Next, AcceptThread, SubscriberThread
<1> QED BY <1>1, <1>2, TypeCorrect, PTL DEF Spec

(***************************************************************************)
(* For any number of connections and any interleaving of Quit,             *)
(* SubscribeEvents and failures, CtrlSocketServer does not let the guest   *)
(* power off before the report was handed to the subscriber.               *)
(***************************************************************************)
THEOREM ReportDelivered == Spec => []ReportBeforePowerOff
<1>1. ReportInv => ReportBeforePowerOff
  BY DEF ReportInv, ReceiverInv, DoneInv, ReportBeforePowerOff
<1> QED BY <1>1, ReportInvariant, PTL

(***************************************************************************)
(* A report is written only by the thread of a subscriber: a client that   *)
(* asked for it and got it, or failed to, is registered.                   *)
(***************************************************************************)
AttemptInv == ReportAttempted => Registered

(* Every step keeps AttemptInv: a failed answer to Quit is not an attempt. *)
LEMMA AttemptsKept ==
  ReportInv /\ AttemptInv /\ [Next]_vars => AttemptInv'
<1> SUFFICES ASSUME ReportInv, AttemptInv, [Next]_vars PROVE AttemptInv'
  OBVIOUS
<1> USE ClientsAssumption
    DEF ReportInv, TypeOK, QueueInv, AttemptInv, ReportAttempted, Registered
<1>1. ASSUME NEW c \in Clients, NEW r \in Requests, Connect(c, r) PROVE AttemptInv'
  BY <1>1 DEF Connect
<1>2. CASE AcceptError \/ Accept \/ FinishQuit \/ EndAccept \/ ReadQuit
  BY <1>2 DEF AcceptError, Accept, FinishQuit, EndAccept, ReadQuit
<1>3. CASE ReadInvalid
  BY <1>3 DEF ReadInvalid
<1>4. CASE ReadSubscribe
  BY <1>4 DEF ReadSubscribe
<1>5. ASSUME NEW ok \in BOOLEAN, WriteAck(ok) PROVE AttemptInv'
  BY <1>5 DEF WriteAck
<1>6. ASSUME NEW c \in Clients, SubscriberThread(c) PROVE AttemptInv'
  BY <1>6 DEF SubscriberThread, TakeReceiver, RecvReport, WriteReport, SignalDone
<1>7. CASE MainThread
  BY <1>7 DEF MainThread, Main, Serve, Fail, WaitForQuitCmd, Cleanup,
              SendReport, RecvDone, PowerOff
<1>8. CASE UNCHANGED vars
  BY <1>8 DEF vars
<1> QED BY <1>1, <1>2, <1>3, <1>4, <1>5, <1>6, <1>7, <1>8 DEF Next, AcceptThread

(***************************************************************************)
(* For any number of connections: without a subscriber, the guest that has *)
(* read a Quit does not power off before it has answered it, although the  *)
(* main thread is woken before the answer is written (CtrlSocketServer).   *)
(***************************************************************************)
THEOREM QuitAnswered == Spec => []QuitAnsweredBeforePowerOff
<1>1. Init => AttemptInv
  BY DEF Init, AttemptInv, ReportAttempted
<1>2. ReportInv /\ AttemptInv => QuitAnsweredBeforePowerOff
  BY DEF ReportInv, ReceiverInv, DoneInv, AttemptInv, QuitAnsweredBeforePowerOff
<1> QED BY <1>1, <1>2, AttemptsKept, ReportInvariant, PTL DEF Spec

(***************************************************************************)
(* What the refinement of GuestReport needs besides: after a Quit was read *)
(* no request is accepted, and a thread has a report to write only when    *)
(* the main thread has sent it.                                            *)
(***************************************************************************)
ClosingInv ==
  /\ quit => accept \notin {"accept", "read"}
  /\ \A c \in Clients : sub[c] = "write" => report = "received"
  /\ report # "unsent" => main \in {"waitdone", "return", "off"}

(* Every step keeps ClosingInv (the accept loop, send_report).             *)
LEMMA ClosingKept == ReportInv /\ ClosingInv /\ [Next]_vars => ClosingInv'
<1> SUFFICES ASSUME ReportInv, ClosingInv, [Next]_vars PROVE ClosingInv'
  OBVIOUS
<1> USE ClientsAssumption DEF ReportInv, TypeOK, ClosingInv
<1>1. ASSUME NEW c \in Clients, NEW r \in Requests, Connect(c, r) PROVE ClosingInv'
  BY <1>1 DEF Connect
<1>2. CASE AcceptError \/ Accept \/ FinishQuit \/ EndAccept
  BY <1>2 DEF AcceptError, Accept, FinishQuit, EndAccept
<1>3. CASE ReadInvalid \/ ReadSubscribe \/ ReadQuit
  BY <1>3 DEF ReadInvalid, ReadSubscribe, ReadQuit
<1>4. ASSUME NEW ok \in BOOLEAN, WriteAck(ok) PROVE ClosingInv'
  BY <1>4 DEF WriteAck
<1>5. ASSUME NEW c \in Clients, SubscriberThread(c) PROVE ClosingInv'
  BY <1>5 DEF SubscriberThread, TakeReceiver, RecvReport, WriteReport, SignalDone
<1>6. CASE MainThread
  <2>1. CASE SendReport
    BY <1>6, <2>1 DEF SendReport, Main, ReceiverInv
  <2>2. CASE Serve \/ Fail \/ WaitForQuitCmd \/ Cleanup \/ RecvDone \/ PowerOff
    BY <2>2 DEF Main, Serve, Fail, WaitForQuitCmd, Cleanup, RecvDone, PowerOff
  <2> QED BY <1>6, <2>1, <2>2 DEF MainThread
<1>7. CASE UNCHANGED vars
  BY <1>7 DEF vars
<1> QED BY <1>1, <1>2, <1>3, <1>4, <1>5, <1>6, <1>7 DEF Next, AcceptThread

(* Every step of the control socket is a step of GuestReport or changes    *)
(* nothing that GuestReport speaks of.                                     *)
LEMMA StepsRefine ==
  ReportInv /\ AttemptInv /\ ClosingInv /\ [Next]_vars
    => [Abstract!Next]_(Abstract!avars)
<1> SUFFICES ASSUME ReportInv, AttemptInv, ClosingInv, [Next]_vars
             PROVE Abstract!Next \/ UNCHANGED Abstract!avars
  OBVIOUS
<1> USE ClientsAssumption DEF ReportInv, TypeOK
<1>1. ASSUME NEW c \in Clients, NEW r \in Requests, Connect(c, r)
      PROVE UNCHANGED Abstract!avars
  BY <1>1 DEF Connect, QueueInv, Abstract!avars, Registered, ReportAttempted
<1>2. CASE AcceptError \/ Accept \/ FinishQuit \/ EndAccept \/ ReadInvalid
  BY <1>2 DEF AcceptError, Accept, FinishQuit, EndAccept, ReadInvalid, QueueInv,
     Abstract!avars, Registered, ReportAttempted
<1>3. CASE ReadSubscribe
  <2>1. Registered' /\ UNCHANGED <<main, quit, request, response>>
    BY <1>3 DEF ReadSubscribe, Registered
  <2>2. ~quit /\ main # "off"
    BY <1>3 DEF ReadSubscribe, ClosingInv
  <2>3. UNCHANGED ReportAttempted
    BY <2>1 DEF ReportAttempted
  <2>4. CASE Registered
    BY <2>1, <2>3, <2>4 DEF Abstract!avars
  <2>5. CASE ~Registered
    BY <2>1, <2>2, <2>3, <2>5 DEF Abstract!Next, Abstract!Register
  <2> QED BY <2>4, <2>5
<1>4. CASE ReadQuit
  <2>1. quit' /\ main # "off" /\ UNCHANGED <<main, sub, request, response>>
    BY <1>4 DEF ReadQuit
  <2> QED BY <2>1 DEF Abstract!Next, Abstract!ReadQuit, Registered, ReportAttempted
<1>5. ASSUME NEW ok \in BOOLEAN, WriteAck(ok) PROVE UNCHANGED Abstract!avars
  BY <1>5 DEF WriteAck, QueueInv, Abstract!avars, Registered, ReportAttempted
<1>6. ASSUME NEW c \in Clients, TakeReceiver(c) \/ RecvReport(c) \/ SignalDone(c)
      PROVE UNCHANGED Abstract!avars
  BY <1>6 DEF TakeReceiver, RecvReport, SignalDone, SubscriberInv,
     Abstract!avars, Registered, ReportAttempted
<1>7. ASSUME NEW c \in Clients, NEW ok \in BOOLEAN, WriteReport(c, ok)
      PROVE Abstract!Next
  <2>1. main \in {"waitdone", "return"} /\ UNCHANGED <<main, quit, request>>
    BY <1>7 DEF WriteReport, ClosingInv
  <2>2. Registered /\ Registered'
    BY <1>7 DEF WriteReport, Registered
  <2>3. ReportAttempted'
    BY <1>7 DEF WriteReport, SubscriberInv, ReportAttempted
  <2> QED BY <2>1, <2>2, <2>3 DEF Abstract!Next, Abstract!Report
<1>8. CASE MainThread
  <2>1. UNCHANGED <<request, response, sub, quit>>
    BY <1>8 DEF MainThread, Main, Serve, Fail, WaitForQuitCmd, Cleanup,
                SendReport, RecvDone, PowerOff
  <2>2. UNCHANGED Registered /\ UNCHANGED ReportAttempted /\ UNCHANGED quit
    BY <2>1 DEF Registered, ReportAttempted
  <2>3. CASE Cleanup
    BY <2>2, <2>3 DEF Cleanup, Main, Abstract!Next, Abstract!Close
  <2>4. CASE PowerOff
    <3>1. Registered => ReportAttempted
      BY <2>4 DEF PowerOff, Main, ReceiverInv, DoneInv
    <3> QED BY <2>2, <2>4, <3>1 DEF PowerOff, Main, Abstract!Next, Abstract!PowerOff
  <2>5. CASE Serve \/ Fail \/ WaitForQuitCmd \/ SendReport \/ RecvDone
    BY <2>2, <2>5 DEF Serve, Fail, WaitForQuitCmd, SendReport, RecvDone, Main,
       Abstract!avars
  <2> QED BY <1>8, <2>3, <2>4, <2>5 DEF MainThread
<1>9. CASE UNCHANGED vars
  BY <1>9 DEF vars, Abstract!avars, Registered, ReportAttempted
<1> QED BY <1>1, <1>2, <1>3, <1>4, <1>5, <1>6, <1>7, <1>8, <1>9
        DEF Next, AcceptThread, SubscriberThread

(***************************************************************************)
(* For any number of connections, the control socket with its threads and  *)
(* channels implements the safety part of GuestReport, the hand-over of    *)
(* the report as the host sees it (CtrlSocketServer, send_report).         *)
(***************************************************************************)
THEOREM ImplementsReportSafety ==
  Spec => Abstract!Init /\ [][Abstract!Next]_(Abstract!avars)
<1>1. Init => Abstract!Init
  BY DEF Init, Abstract!Init, Registered, ReportAttempted
<1>2. Init => AttemptInv /\ ClosingInv
  BY DEF Init, AttemptInv, ClosingInv, ReportAttempted
<1> QED
  BY <1>1, <1>2, AttemptsKept, ClosingKept, StepsRefine, ReportInvariant, PTL DEF Spec
=============================================================================
