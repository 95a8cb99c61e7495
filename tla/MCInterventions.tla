--------------------------- MODULE MCInterventions ---------------------------
(***************************************************************************)
(* Interventions with two tasks of one robot.                              *)
(***************************************************************************)
EXTENDS Interventions

CONSTANTS t1, t2, r1

OneRobot == [t \in Tasks |-> r1]

\* A robot that asks for help, one that is lost and found, contradictory and missing evidence.
ThreeThemes ==
  { [moves |-> {"block", "unblock", "end"}, events |-> 4],
    [moves |-> {"offline", "online", "end"}, events |-> 3],
    [moves |-> {"end", "publish", "reason", "conflict", "regression"}, events |-> 3] }
=============================================================================
