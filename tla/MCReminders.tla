---------------------------- MODULE MCReminders ----------------------------
(***************************************************************************)
(* Instances of Reminders for TLC.                                         *)
(***************************************************************************)
EXTENDS Reminders, TLC

CONSTANTS own, soon   \* plans

AllPlans == {own, soon}

Channel == (own :> <<"email", "notification">>) @@ (soon :> <<"notification">>)

\* One list has it all: a plan for both channels (as createReminder schedules them)
\* and one for a single channel (as an order's are).
OneList == {<<own, soon>>}

Symmetry == Permutations(Calls) \cup Permutations(Ids)
=============================================================================
