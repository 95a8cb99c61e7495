--------------------------- MODULE Authorization ---------------------------
(***************************************************************************)
(* What the Edge promises about the work it authorises, without journals,  *)
(* evidence or messages: a robot has one authorised task at a time; the    *)
(* request of a task is sent a bounded number of times, only while the     *)
(* task is neither over nor held for a human and the robot's gate is open; *)
(* and no gate is ever opened again.                                       *)
(***************************************************************************)
EXTENDS Naturals

CONSTANTS Tasks, Robots, RobotOf, MaxSends

VARIABLES
  phase,    \* "none", "open", "held" or "over", for each task
  closed,   \* the robots whose gate is closed
  sends     \* how often the request of each task was sent

vars == <<phase, closed, sends>>

Engaged(t) == phase[t] \in {"open", "held"}

Free(r) == \A t \in Tasks : RobotOf[t] = r => ~Engaged(t)

Init == phase = [t \in Tasks |-> "none"] /\ closed = {} /\ sends = [t \in Tasks |-> 0]

Authorise(t) ==
  /\ phase[t] = "none" /\ RobotOf[t] \notin closed /\ Free(RobotOf[t])
  /\ phase' = [phase EXCEPT ![t] = "open"]
  /\ UNCHANGED <<closed, sends>>

Send(t) ==
  /\ phase[t] = "open" /\ RobotOf[t] \notin closed /\ sends[t] < MaxSends
  /\ sends' = [sends EXCEPT ![t] = @ + 1]
  /\ UNCHANGED <<phase, closed>>

\* The robot asks for help, resumes, or ends; what it reports may close its gate.
Report(t) ==
  /\ Engaged(t)
  /\ \E p \in {"open", "held", "over"} : phase' = [phase EXCEPT ![t] = p]
  /\ closed' \in {closed, closed \cup {RobotOf[t]}}
  /\ UNCHANGED sends

Close(r) == closed' = closed \cup {r} /\ UNCHANGED <<phase, sends>>

Next ==
  \/ \E t \in Tasks : Authorise(t) \/ Send(t) \/ Report(t)
  \/ \E r \in Robots : Close(r)

Spec == Init /\ [][Next]_vars
=============================================================================
