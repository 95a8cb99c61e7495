--------------------------- MODULE MCEdgeLifecycle ---------------------------
(***************************************************************************)
(* EdgeLifecycle for TLC.  Every request names incarnation 1.              *)
(***************************************************************************)
EXTENDS EdgeLifecycle

CONSTANTS t1, t2, r1, r2

SameRobot == [t \in Tasks |-> r1]
One       == [t \in Tasks |-> 1]

E(t, boot, seq, inc, kind, body) ==
  [task |-> t, boot |-> boot, seq |-> seq, inc |-> inc, kind |-> kind, body |-> body]

S(r, boot, inc, idle) == [robot |-> r, boot |-> boot, inc |-> inc, idle |-> idle]

\* A robot that accepts, starts to work and then only repeats itself.
RepeatedEvents == {E(t1, 1, 1, 1, "ACCEPTED", 0), E(t1, 1, 2, 1, "PROGRESS", 0)}
BusyStatus == {S(r1, 1, 1, FALSE)}

\* All that can happen while the robot answers nothing new: no anomaly, no lost session, no crash.
BusyNext ==
  \/ WriteLine \/ AckEvent \/ Publish \/ Start \/ Connect(TRUE) \/ Disconnect \/ Environment
  \/ \E s \in Statuses : ReceiveStatus(s)
  \/ \E e \in Events : ReceiveDuplicate(e) \/ ReceiveExpected(e) \/ ReceiveLate(e)

BusySpec == Init /\ [][BusyNext]_vars /\ Fairness
=============================================================================
