CONSTANTS
  t1 = t1
  t2 = t2
  r1 = r1
  NoNote = NoNote
  Themes <- ThreeThemes
  Tasks = {t1}
  Robots = {r1}
  RobotOf <- OneRobot
  Reasons = {"unexpected_rejection"}
  MaxBlocks = 2
  MaxAttempts = 1
  MaxReminders = 1
SPECIFICATION FairSpec
INVARIANTS
  CasesAreTrue
  CallsAreAccounted
PROPERTIES
  ResolvedIsFinal
  HumansKnow
CHECK_DEADLOCK FALSE
