---------------------------- MODULE RequestCall ----------------------------
(***************************************************************************)
(* What executeJob relies on when it awaits executeRequest: the call       *)
(* returns once and never throws, and a FAILED one has extracted nothing.  *)
(***************************************************************************)
CONSTANT Variables   \* names in the variable store of a job

VARIABLES
  outcome,   \* "none" until the call returns
  touched    \* the variables the call has set

Init == outcome = "none" /\ touched = {}

Return ==
  /\ outcome = "none"
  /\ \/ outcome' = "COMPLETED" /\ touched' \in SUBSET Variables
     \/ outcome' = "FAILED" /\ UNCHANGED touched

Spec == Init /\ [][Return]_<<outcome, touched>> /\ WF_<<outcome, touched>>(Return)

=============================================================================
