\* One task whose robot finishes its work: everything persisted is reported in the end.
\* The robot stops when it may not be provisioned or started again.
CONSTANTS
  t1 = t1
  t2 = t2
  Tasks = {t1}
  NoTask = NoTask
  Incarnation <- SameIncarnation
  Behaviors = {"accept_and_succeed"}
  MaxStarts = 3
  FinalErrands = {"serve"}
  MaxIncarnations = 2
  MaxRejections = 0
SPECIFICATION FairSpec
PROPERTIES
  RequestsAreSettled
CHECK_DEADLOCK FALSE
