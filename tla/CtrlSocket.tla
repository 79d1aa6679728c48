----------------------------- MODULE CtrlSocket -----------------------------
(***************************************************************************)
(* The control socket of the guest agent (vmproxy): CtrlSocketServer with  *)
(* its accept thread and one thread per event subscription, the guest's    *)
(* main thread as far as it uses the server (wait_for_quit_cmd and         *)
(* send_report), and the host's clients.                                   *)
(*                                                                         *)
(* Four objects tie the threads together:                                  *)
(*   quit     mpsc channel, accept thread -> main thread                   *)
(*   report   mpsc channel, main thread -> one subscriber thread; its      *)
(*            receiver lives in a mutex until a subscriber takes it        *)
(*   done     mpsc channel, accept thread or subscriber -> main thread;    *)
(*            its sender lives in a mutex and is taken by who signals      *)
(*   subscribed  the atomic flag events_subscribed                         *)
(***************************************************************************)
EXTENDS Naturals, Sequences

CONSTANTS
  Clients,    \* connections the host opens to the control socket
  NoClient    \* "no connection is being served"

ASSUME ClientsAssumption == NoClient \notin Clients

VARIABLES
  request,    \* what each client asks: "none" until it connects
  response,   \* what was written to each client
  backlog,    \* connections waiting to be accepted, in order
  conn,       \* the connection the accept thread is serving
  accept,     \* program counter of the accept thread
  subscribed, \* events_subscribed
  sub,        \* program counter of each subscriber thread
  quit,       \* Quit was sent on the quit channel
  report,     \* the guest's report: "unsent", "queued" or "received"
  reportRx,   \* the report receiver: "held" in the mutex, "taken", "dropped"
  doneTx,     \* the done sender: "held" in the mutex, "sent", "dropped"
  main        \* program counter of the guest's main thread

vars == <<request, response, backlog, conn, accept, subscribed, sub, quit,
          report, reportRx, doneTx, main>>

Requests == {"Quit", "SubscribeEvents", "Invalid"}

TypeOK ==
  /\ request \in [Clients -> Requests \cup {"none"}]
  /\ response \in [Clients -> {"none", "Ack", "ReportEvent", "failed", "closed"}]
  /\ backlog \in Seq(Clients)
  /\ conn \in Clients \cup {NoClient}
  /\ accept \in {"accept", "read", "ack", "done", "join", "ended"}
  /\ subscribed \in BOOLEAN
  /\ sub \in [Clients -> {"none", "spawned", "recv", "write", "signal", "ended"}]
  /\ quit \in BOOLEAN
  /\ report \in {"unsent", "queued", "received"}
  /\ reportRx \in {"held", "taken", "dropped"}
  /\ doneTx \in {"held", "sent", "dropped"}
  /\ main \in {"work", "waitquit", "cleanup", "report", "waitdone", "return", "off"}
  /\ accept \in {"read", "ack", "done"} <=> conn # NoClient

Init ==
  /\ request = [c \in Clients |-> "none"]
  /\ response = [c \in Clients |-> "none"]
  /\ backlog = << >>
  /\ conn = NoClient
  /\ accept = "accept"
  /\ subscribed = FALSE
  /\ sub = [c \in Clients |-> "none"]
  /\ quit = FALSE
  /\ report = "unsent"
  /\ reportRx = "held"
  /\ doneTx = "held"
  /\ main = "work"

(***************************************************************************)
(* The host.  A client connects and sends one request; "Invalid" also      *)
(* stands for a peer that closes before it has sent a whole request.       *)
(***************************************************************************)
Connect(c, r) ==
  /\ main # "off"
  /\ accept # "ended"
  /\ request[c] = "none"
  /\ request' = [request EXCEPT ![c] = r]
  /\ backlog' = Append(backlog, c)
  /\ UNCHANGED <<response, conn, accept, subscribed, sub, quit, report,
                 reportRx, doneTx, main>>

(***************************************************************************)
(* The accept thread: one connection at a time, and it reads the request   *)
(* of the accepted connection before it accepts another one.               *)
(***************************************************************************)
Accept ==
  /\ main # "off"
  /\ accept = "accept"
  /\ backlog # << >>
  /\ conn' = Head(backlog)
  /\ backlog' = Tail(backlog)
  /\ accept' = "read"
  /\ UNCHANGED <<request, response, subscribed, sub, quit, report, reportRx,
                 doneTx, main>>

(* accept() fails: the loop ends as it does after Quit, without a Quit. *)
AcceptError ==
  /\ main # "off"
  /\ accept = "accept"
  /\ accept' = "join"
  /\ UNCHANGED <<request, response, backlog, conn, subscribed, sub, quit,
                 report, reportRx, doneTx, main>>

(* An unreadable request is skipped and its stream is closed. *)
ReadInvalid ==
  /\ main # "off"
  /\ accept = "read"
  /\ request[conn] = "Invalid"
  /\ response' = [response EXCEPT ![conn] = "closed"]
  /\ conn' = NoClient
  /\ accept' = "accept"
  /\ UNCHANGED <<request, backlog, subscribed, sub, quit, report, reportRx,
                 doneTx, main>>

(* Mutant: the flag is not yet set when the thread is spawned. *)
ReadSubscribe_FlagLate ==
  /\ main # "off"
  /\ accept = "read"
  /\ request[conn] = "SubscribeEvents"
  /\ sub' = [sub EXCEPT ![conn] = "spawned"]
  /\ conn' = NoClient
  /\ accept' = "accept"
  /\ UNCHANGED <<request, response, backlog, subscribed, quit, report,
                 reportRx, doneTx, main>>

(* The flag is set before the subscriber thread exists. *)
ReadSubscribe ==
  /\ main # "off"
  /\ accept = "read"
  /\ request[conn] = "SubscribeEvents"
  /\ subscribed' = TRUE
  /\ sub' = [sub EXCEPT ![conn] = "spawned"]
  /\ conn' = NoClient
  /\ accept' = "accept"
  /\ UNCHANGED <<request, response, backlog, quit, report, reportRx, doneTx,
                 main>>

(* Mutant: done is signalled together with quit, before the answer. *)
ReadQuit_DoneFirst ==
  /\ main # "off"
  /\ accept = "read"
  /\ request[conn] = "Quit"
  /\ quit' = TRUE
  /\ doneTx' = IF ~subscribed /\ doneTx = "held" THEN "sent" ELSE doneTx
  /\ accept' = "ack"
  /\ UNCHANGED <<request, response, backlog, conn, subscribed, sub, report,
                 reportRx, main>>

ReadQuit ==
  /\ main # "off"
  /\ accept = "read"
  /\ request[conn] = "Quit"
  /\ quit' = TRUE
  /\ accept' = "ack"
  /\ UNCHANGED <<request, response, backlog, conn, subscribed, sub, report,
                 reportRx, doneTx, main>>

(* Mutant: a failed answer goes back to the accept loop. *)
WriteAck_FailureContinues(ok) ==
  /\ main # "off"
  /\ accept = "ack"
  /\ response' = [response EXCEPT ![conn] = IF ok THEN "Ack" ELSE "failed"]
  /\ accept' = IF ok THEN "done" ELSE "accept"
  /\ conn' = IF ok THEN conn ELSE NoClient
  /\ UNCHANGED <<request, backlog, subscribed, sub, quit, report, reportRx,
                 doneTx, main>>

(* The answer to Quit is written after the main thread has been woken. *)
WriteAck(ok) ==
  /\ main # "off"
  /\ accept = "ack"
  /\ response' = [response EXCEPT ![conn] = IF ok THEN "Ack" ELSE "failed"]
  /\ accept' = "done"
  /\ UNCHANGED <<request, backlog, conn, subscribed, sub, quit, report,
                 reportRx, doneTx, main>>

(* Without a subscription nobody else would signal done. *)
FinishQuit ==
  /\ main # "off"
  /\ accept = "done"
  /\ doneTx' = IF ~subscribed /\ doneTx = "held" THEN "sent" ELSE doneTx
  /\ conn' = NoClient
  /\ accept' = "join"
  /\ UNCHANGED <<request, response, backlog, subscribed, sub, quit, report,
                 reportRx, main>>

(* thread::scope returns once every subscriber thread has ended; then the  *)
(* closure's listener and channel ends are dropped.                        *)
EndAccept ==
  /\ main # "off"
  /\ accept = "join"
  /\ \A c \in Clients : sub[c] \in {"none", "ended"}
  /\ accept' = "ended"
  /\ reportRx' = "dropped"
  /\ doneTx' = IF doneTx = "held" THEN "dropped" ELSE doneTx
  /\ UNCHANGED <<request, response, backlog, conn, subscribed, sub, quit,
                 report, main>>

(***************************************************************************)
(* A subscriber thread.                                                    *)
(***************************************************************************)
(* The lock of the receiver is held until the thread that took it is done. *)
TakeReceiver(c) ==
  /\ main # "off"
  /\ sub[c] = "spawned"
  /\ \A d \in Clients : sub[d] \notin {"recv", "write", "signal"}
  /\ \/ /\ reportRx = "held"
        /\ reportRx' = "taken"
        /\ sub' = [sub EXCEPT ![c] = "recv"]
        /\ UNCHANGED response
     \/ /\ reportRx # "held"               \* "Report channel already taken"
        /\ sub' = [sub EXCEPT ![c] = "ended"]
        /\ response' = [response EXCEPT ![c] = "closed"]
        /\ UNCHANGED reportRx
  /\ UNCHANGED <<request, backlog, conn, accept, subscribed, quit, report,
                 doneTx, main>>

RecvReport(c) ==
  /\ main # "off"
  /\ sub[c] = "recv"
  /\ report = "queued"
  /\ report' = "received"
  /\ sub' = [sub EXCEPT ![c] = "write"]
  /\ UNCHANGED <<request, response, backlog, conn, accept, subscribed, quit,
                 reportRx, doneTx, main>>

(* Mutant: a failed write ends the thread before it signals done. *)
WriteReport_FailureEnds(c, ok) ==
  /\ main # "off"
  /\ sub[c] = "write"
  /\ response' = [response EXCEPT ![c] = IF ok THEN "ReportEvent" ELSE "failed"]
  /\ sub' = [sub EXCEPT ![c] = IF ok THEN "signal" ELSE "ended"]
  /\ reportRx' = IF ok THEN reportRx ELSE "dropped"
  /\ UNCHANGED <<request, backlog, conn, accept, subscribed, quit, report,
                 doneTx, main>>

WriteReport(c, ok) ==
  /\ main # "off"
  /\ sub[c] = "write"
  /\ response' = [response EXCEPT ![c] = IF ok THEN "ReportEvent" ELSE "failed"]
  /\ sub' = [sub EXCEPT ![c] = "signal"]
  /\ UNCHANGED <<request, backlog, conn, accept, subscribed, quit, report,
                 reportRx, doneTx, main>>

SignalDone(c) ==
  /\ main # "off"
  /\ sub[c] = "signal"
  /\ doneTx' = IF doneTx = "held" THEN "sent" ELSE doneTx
  /\ reportRx' = "dropped"
  /\ sub' = [sub EXCEPT ![c] = "ended"]
  /\ UNCHANGED <<request, response, backlog, conn, accept, subscribed, quit,
                 report, main>>

(***************************************************************************)
(* The main thread of the guest.                                           *)
(***************************************************************************)
Main(from, to) ==
  /\ main = from
  /\ main' = to
  /\ UNCHANGED <<request, response, backlog, conn, accept, subscribed, sub,
                 quit, reportRx, doneTx>>

(* The exports are up: wait_for_quit_cmd. *)
Serve == Main("work", "waitquit") /\ UNCHANGED report

(* An error, or entrypoint.sh that cannot be started: straight to the deferred cleanup. *)
Fail == Main("work", "cleanup") /\ UNCHANGED report

(* Mutant: a disconnected quit channel is not a reason to leave. *)
WaitForQuitCmd_OnlyMessage ==
  /\ quit
  /\ Main("waitquit", "cleanup")
  /\ UNCHANGED report

(* quit_rx.recv() returns on a Quit and on a disconnected channel alike. *)
WaitForQuitCmd ==
  /\ quit \/ accept = "ended"
  /\ Main("waitquit", "cleanup")
  /\ UNCHANGED report

(* The deferred cleanup before the report: before_unmount, unmount, dmesg. *)
Cleanup == Main("cleanup", "report") /\ UNCHANGED report

SendReport ==
  \/ /\ reportRx # "dropped"
     /\ report' = "queued"
     /\ Main("report", "waitdone")
  \/ /\ reportRx = "dropped"
     /\ UNCHANGED report
     /\ Main("report", "return")

RecvDone ==
  /\ doneTx # "held"
  /\ Main("waitdone", "return")
  /\ UNCHANGED report

(* run() returns and the process, hence the guest, ends. *)
PowerOff == Main("return", "off") /\ UNCHANGED report

-----------------------------------------------------------------------------
AcceptThread ==
  \/ Accept
  \/ ReadInvalid
  \/ ReadSubscribe
  \/ ReadQuit
  \/ \E ok \in BOOLEAN : WriteAck(ok)
  \/ FinishQuit
  \/ EndAccept

SubscriberThread(c) ==
  \/ TakeReceiver(c)
  \/ RecvReport(c)
  \/ \E ok \in BOOLEAN : WriteReport(c, ok)
  \/ SignalDone(c)

MainThread ==
  \/ Serve
  \/ Fail
  \/ WaitForQuitCmd
  \/ Cleanup
  \/ SendReport
  \/ RecvDone
  \/ PowerOff

Next ==
  \/ \E c \in Clients, r \in Requests : Connect(c, r)
  \/ AcceptError
  \/ AcceptThread
  \/ \E c \in Clients : SubscriberThread(c)
  \/ MainThread

(***************************************************************************)
(* The guest's threads are scheduled; the host's connections and accept()  *)
(* failures may or may not happen.                                         *)
(***************************************************************************)
Fairness ==
  /\ WF_vars(AcceptThread)
  /\ \A c \in Clients : WF_vars(SubscriberThread(c))
  /\ WF_vars(MainThread)

Spec == Init /\ [][Next]_vars /\ Fairness

-----------------------------------------------------------------------------
(* The report was written to a subscriber, or its write failed. *)
ReportAttempted ==
  \E c \in Clients : /\ request[c] = "SubscribeEvents"
                     /\ response[c] \in {"ReportEvent", "failed"}

(* A SubscribeEvents request was read. *)
Registered == \E c \in Clients : sub[c] # "none"

(***************************************************************************)
(* A guest that has read a SubscribeEvents request does not power off      *)
(* before the report was written to a subscriber (or the write failed):    *)
(* "done" is left to the subscriber even when a Quit races with it.        *)
(***************************************************************************)
ReportBeforePowerOff ==
  main \in {"return", "off"} /\ Registered => ReportAttempted

(***************************************************************************)
(* Without a subscription, the guest does not power off between reading a  *)
(* Quit and answering it: the host's send_quit_cmd gets its Ack.           *)
(***************************************************************************)
QuitAnsweredBeforePowerOff ==
  main \in {"return", "off"} /\ ~Registered => accept # "ack"

(***************************************************************************)
(* A Quit that was read powers the guest off.                              *)
(***************************************************************************)
QuitPowersOff == quit ~> main = "off"

(***************************************************************************)
(* When accept() fails and nobody has subscribed, the dropped channels     *)
(* wake the main thread and the guest powers off by itself.  (With a       *)
(* subscription open it does not: the subscriber thread waits for the      *)
(* report and keeps the quit channel alive.)                               *)
(***************************************************************************)
AcceptFailurePowersOff == (accept = "join" /\ ~Registered) ~> main = "off"

(***************************************************************************)
(* What the control socket promises to the host, see GuestReport: it       *)
(* implements that specification with its liveness.  In particular         *)
(* send_report does not block for ever once a Quit or a SubscribeEvents    *)
(* request was read, whatever the order in which they came.                *)
(***************************************************************************)
Abstract == INSTANCE GuestReport WITH
  phase <- CASE main = "off" -> "off"
             [] main \in {"report", "waitdone", "return"} -> "closing"
             [] OTHER -> "up",
  registered <- Registered,
  quitRead <- quit,
  attempted <- ReportAttempted

ImplementsGuestReport == Abstract!Spec
=============================================================================
