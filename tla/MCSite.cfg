SPECIFICATION SiteSpec
SYMMETRY Symmetric
CONSTANTS
  Off = Off
  NoValue = NoValue
  None = None
  r1 = r1
  r2 = r2
  z1 = z1
  s1 = s1
  Robots <- TwoRobots
  Zones <- OneZone
  StationOrder <- OneStation
  TotalBalls = 2
  PayloadCapacity = 1
  CollectCycle = 1
  BufferCapacity = 1
  WashBatch = 2
  MaxDemand = 1
  DockSlots = 2
  MaxQueueLength = 0
  ChargerSlots = 1
  Staff = 1
  MaxRobotsPerZone = 1
  MaxDockRetries = 1
  Capacity = 2
  InitialBattery = 2
  ChargeTarget = 2
  MinReserve = 1
  HardFloor = 0
  MaxFaults = 1
CHECK_DEADLOCK FALSE
INVARIANTS
  RangeIsConsistent
  ReadyIsJustified
  PolygonVerdictIsGeometric
  ReviewIsSound
PROPERTIES
  WorkflowsAreIndependent
