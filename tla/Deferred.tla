------------------------------ MODULE Deferred ------------------------------
(***************************************************************************)
(* Deferred (common-utils): the clean-up actions of a function, in the     *)
(* order in which they were added.  An action can be taken out again by    *)
(* its id; Drop runs those that are left, the newest first: Last(d) is the *)
(* next one to run and Front(d) what remains.  Here the id of an action is *)
(* the name of what it does.                                               *)
(***************************************************************************)
EXTENDS Naturals, Sequences, SequencesExt

(* Deferred::add *)
Add(d, a) == Append(d, a)

(* pop_action, of remove and call_now: the action at the first position with the id. *)
PopAction(d, a) == RemoveFirst(d, a)
=============================================================================
