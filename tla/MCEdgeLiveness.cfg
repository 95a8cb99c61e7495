\* One accepted task whose robot works on it and only repeats itself.
CONSTANTS
  t1 = t1
  t2 = t2
  r1 = r1
  r2 = r2
  NoTask = NoTask
  NoEvent = NoEvent
  Tasks = {t1}
  Robots = {r1}
  RobotOf <- SameRobot
  Incarnation <- One
  Events <- RepeatedEvents
  Statuses <- BusyStatus
  MaxAttempts = 2
  MinInterval = 1
  Window = 1
  HalfStale = 1
  Stale = 1
  Offline = 2
  Grace = 1
  MaxStarts = 1
  MaxLosses = 0
  MaxReplays = 0
SPECIFICATION BusySpec
INVARIANTS
  TypeOK
  PublicationsAreBounded
PROPERTIES
  TroubleIsNoticed
