---------------------------- MODULE GuestReport -----------------------------
(***************************************************************************)
(* What the guest's control socket promises, without its threads and       *)
(* channels: the guest powers off only after the shutdown report was       *)
(* handed to whoever registered for it, and it does power off once it is   *)
(* closing and the host has either registered or asked it to quit.         *)
(***************************************************************************)
VARIABLES
  phase,       \* "up", "closing" (the report is ready) or "off"
  registered,  \* the host has subscribed to the report
  quitRead,    \* the host's Quit was read
  attempted    \* the report was written to the host, or the write failed

avars == <<phase, registered, quitRead, attempted>>

Init ==
  /\ phase = "up"
  /\ registered = FALSE
  /\ quitRead = FALSE
  /\ attempted = FALSE

Register ==
  /\ phase # "off"
  /\ ~registered
  /\ ~quitRead                  \* after a Quit nothing more is accepted
  /\ registered' = TRUE
  /\ UNCHANGED <<phase, quitRead, attempted>>

ReadQuit ==
  /\ phase # "off"
  /\ quitRead' = TRUE
  /\ UNCHANGED <<phase, registered, attempted>>

Close ==
  /\ phase = "up"
  /\ phase' = "closing"
  /\ UNCHANGED <<registered, quitRead, attempted>>

(* There is nothing to report before the guest is closing, and nobody to   *)
(* report to without a registration.                                       *)
Report ==
  /\ phase = "closing"
  /\ registered
  /\ attempted' = TRUE
  /\ UNCHANGED <<phase, registered, quitRead>>

PowerOff ==
  /\ phase = "closing"
  /\ registered => attempted
  /\ phase' = "off"
  /\ UNCHANGED <<registered, quitRead, attempted>>

Next == Register \/ ReadQuit \/ Close \/ Report \/ PowerOff

ClosingEnds ==
  (phase = "closing" /\ (registered \/ quitRead)) ~> phase = "off"

Spec == Init /\ [][Next]_avars /\ ClosingEnds
=============================================================================
