SPECIFICATION PartySpec
CONSTANTS
  r1 = r1
  r2 = r2
  Runtimes = {r1}
  NumFrames = 3
  Kinds = {"good", "poor", "invalid"}
  FirstNumber = 0
  Configs <- Upgrades
  Recommends = {2}
  RunPolicies = {"continue"}
  MaxCrashes = 1
  MaxFaults = 1
  MaxTorn = 1
  MaxLostAcks = 0
  MaxAttempts = 6
  None = None
INVARIANTS
  EitherKeepsEvidence
PROPERTIES
  HalfALineIsTheLast
  PromiseKept
CHECK_DEADLOCK FALSE
