---------------------------- MODULE MCEdgeScenes ----------------------------
(***************************************************************************)
(* EdgeLifecycle for TLC.  Tasks t1 and t2 belong to robot r1, t3 to r2;   *)
(* the first state chooses what the run is about:                          *)
(*   evidence  every order of contradictory evidence about t1, one crash   *)
(*   publish   results of t1 and t3 arrive during the hop-1 waits, and the *)
(*             broker session may be lost                                  *)
(*   sessions  two tasks of a robot that restarts and is provisioned again *)
(* The clock stands still: what these scenes are about reads no ages.      *)
(***************************************************************************)
EXTENDS MCEdgeLifecycle

CONSTANT t3

VARIABLE scene

Owner == [t \in Tasks |-> IF t = t3 THEN r2 ELSE r1]

\* An ordinary history, a restart's end that differs from it, and the anomalies of a robot.
MixedEvents ==
  { E(t1, 1, 1, 1, "ACCEPTED", 0), E(t1, 1, 2, 1, "PROGRESS", 0), E(t1, 1, 2, 1, "FAILED", 0),
    E(t1, 1, 3, 1, "SUCCEEDED", 0), E(t1, 2, 1, 1, "REJECTED", 0),
    E(t1, 2, 1, 2, "FAILED", 0), E(t1, 1, 0, 2, "REJECTED", 0),
    E(t1, 1, 4, 1, "ASSISTANCE_REQUIRED", 0) }

OneStatus == {S(r1, 1, 1, TRUE)}

\* A robot that restarts, and one that is provisioned again under a higher boot.
Sessions == {S(r1, 1, 1, TRUE), S(r1, 2, 1, TRUE), S(r1, 3, 2, TRUE)}

\* The tasks of one robot, before and after it is provisioned again.
SessionEvents == {E(t1, 1, 1, 1, "REJECTED", 0), E(t2, 1, 1, 1, "ACCEPTED", 0), E(t2, 3, 1, 2, "SUCCEEDED", 0)}

\* What the robots of two tasks report while requests are published.
BothEnd == {E(t1, 1, 1, 1, "ACCEPTED", 0), E(t1, 1, 2, 1, "SUCCEEDED", 0), E(t3, 1, 1, 1, "FAILED", 0)}
BothStatuses == {S(r1, 1, 1, TRUE), S(r2, 1, 1, TRUE)}

SceneTasks ==
  CASE scene = "evidence" -> {t1} [] scene = "publish" -> {t1, t3} [] scene = "sessions" -> {t1, t2}
SceneEvents ==
  CASE scene = "evidence" -> MixedEvents [] scene = "publish" -> BothEnd [] scene = "sessions" -> SessionEvents
SceneStatuses ==
  CASE scene = "evidence" -> OneStatus [] scene = "publish" -> BothStatuses [] scene = "sessions" -> Sessions
AllEvents == MixedEvents \cup BothEnd \cup SessionEvents
AllStatuses == OneStatus \cup BothStatuses \cup Sessions

Deliver ==
  \/ \E s \in SceneStatuses : ReceiveRegressedStatus(s) \/ ReceiveStatus(s)
  \/ \E e \in SceneEvents : ReceiveEvent(e)

SceneInit == Init /\ scene \in {"evidence", "publish", "sessions"}

SceneNext ==
  /\ UNCHANGED scene
  /\ \/ WriteLine \/ AckEvent \/ Deliver
     \/ \E t \in SceneTasks : CreateTask(t)
     \/ scene = "evidence" /\ (Start \/ Connect(TRUE) \/ Crash)
     \/ scene # "evidence" /\ (Publish \/ Session)
     \/ scene # "evidence" /\ (\E t \in SceneTasks \ {t1} : Expire(t))
  /\ scene = "publish" => starts' <= 1 /\ (pc # "down" => pc' # "down")
  /\ scene # "publish" => losses' = 0

SceneSpec == SceneInit /\ [][SceneNext]_<<vars, scene>>
=============================================================================
