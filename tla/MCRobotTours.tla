---------------------------- MODULE MCRobotTours ----------------------------
(***************************************************************************)
(* RobotExecutor for TLC.  The constants bound the whole run; the first    *)
(* state chooses which of two tours through them is taken:                 *)
(*   one    one task with every scripted behaviour, three starts           *)
(*   two    two tasks and three behaviours, two starts, but the journal    *)
(*          may be lost and the robot provisioned again                    *)
(***************************************************************************)
EXTENDS MCRobotExecutor

VARIABLE tour

Touched == {t \in Tasks : task[t] # UnknownTask} \cup expired \cup acked \cup ({handling} \ {NoTask})

OnTour ==
  IF tour = "one"
  THEN Cardinality(Touched) <= 1 /\ minted <= 1 /\ rejections = <<>>
  ELSE starts <= 2 /\ behavior \in {"none", "accept_and_succeed", "help_unknown_fault", "standby"}

TourInit == Init /\ tour \in {"one", "two"}
TourNext == Next /\ UNCHANGED tour /\ OnTour'
TourSpec == TourInit /\ [][TourNext]_<<vars, tour>>
=============================================================================
