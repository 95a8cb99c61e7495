CONSTANTS
  t1 = t1
  t2 = t2
  t3 = t3
  r1 = r1
  r2 = r2
  NoTask = NoTask
  NoEvent = NoEvent
  Tasks = {t1, t2, t3}
  Robots = {r1, r2}
  RobotOf <- Owner
  Incarnation <- One
  Events <- AllEvents
  Statuses <- AllStatuses
  MaxAttempts = 1
  MinInterval = 1
  Window = 1
  HalfStale = 1
  Stale = 1
  Offline = 2
  Grace = 1
  MaxStarts = 2
  MaxLosses = 1
  MaxReplays = 1
SPECIFICATION SceneSpec
INVARIANTS
  EvidenceDecides
  OneOpenTaskPerRobot
PROPERTIES
  NothingIsTakenBack
  AuthorizationKept
