SPECIFICATION OperationsSpec
CONSTANTS
  None = None
  Off = Off
  NotFinite = NotFinite
  Worlds <- MCWorlds
CHECK_DEADLOCK FALSE
INVARIANTS
  HandoffIsSafe
  FeedIsHonest
PROPERTIES
  HandoffEnds
  DecisionConsumesWhatItSaw
  EveryBatchIsDecided
  RangeMakesProgress
