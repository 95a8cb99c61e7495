SPECIFICATION Spec
CONSTANTS
  Runtimes = {r1}
  NumFrames = 3
  Kinds = {"good", "poor", "invalid"}
  FirstNumber = 0
  Configs <- OneConfig
  Recommends = {2}
  RunPolicies = {"continue"}
  MaxCrashes = 0
  MaxFaults = 0
  MaxTorn = 0
  MaxLostAcks = 0
  MaxAttempts = 6
  None = None
PROPERTIES RepeatedMeansRetained
CHECK_DEADLOCK FALSE
