\* One task with every scripted behaviour, or two tasks and two incarnations.
CONSTANTS
  t1 = t1
  t2 = t2
  Tasks = {t1, t2}
  NoTask = NoTask
  Incarnation <- SameIncarnation
  Behaviors <- AllBehaviors
  MaxStarts = 3
  FinalErrands = {"serve", "reset"}
  MaxIncarnations = 2
  MaxRejections = 1
SPECIFICATION TourSpec
SYMMETRY TaskSymmetry
INVARIANTS
  TypeOK
  AtMostOneExecution
  ReportsAreTrue
  MotionIsGuarded
PROPERTIES
  RestartsAreSafe
  PromiseKept
CHECK_DEADLOCK FALSE
