SPECIFICATION FairSpec
CONSTANTS
  Runtimes = {r1}
  NumFrames = 3
  Kinds = {"good", "poor", "invalid"}
  FirstNumber = 0
  Configs <- OneConfig
  Recommends = {2}
  RunPolicies = {"continue"}
  MaxCrashes = 2
  MaxFaults = 1
  MaxTorn = 1
  MaxLostAcks = 1
  MaxAttempts = 6
  None = None
INVARIANTS NoFalseAlarm
PROPERTIES EveryFrameIsSettled
CHECK_DEADLOCK FALSE
