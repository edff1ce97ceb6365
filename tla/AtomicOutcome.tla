---------------------------- MODULE AtomicOutcome ----------------------------
(***************************************************************************)
(* What one benchmark of the harness promises its readers: its outcome is  *)
(* published in one step, either "available" with a number for every       *)
(* measurement or "unavailable" with none, and it never changes again.     *)
(***************************************************************************)
CONSTANT Measurements

VARIABLES
  outcome,  \* "pending", "available" or "unavailable"
  numbers   \* the measurements that show a number

outcomeVars == <<outcome, numbers>>

Init ==
  /\ outcome = "pending"
  /\ numbers = {}

Publish ==
  /\ outcome = "pending"
  /\ \/ outcome' = "available"   /\ numbers' = Measurements
     \/ outcome' = "unavailable" /\ numbers' = {}

Spec == Init /\ [][Publish]_outcomeVars

=============================================================================
