-------------------------- MODULE MCRobotExecutor --------------------------
EXTENDS RobotExecutor, TLC

CONSTANTS t1, t2

\* Every request names the first incarnation.
SameIncarnation == [t \in Tasks |-> 1]

TaskSymmetry == Permutations(Tasks)
=============================================================================
