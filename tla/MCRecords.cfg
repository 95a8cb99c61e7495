SPECIFICATION RecordsSpec
SYMMETRY Symmetric
CONSTANTS
  Processes = {p, q}
  p = p
  q = q
  NoProcess = NoProcess
  NoAnchor = NoAnchor
  MaxBatch = 2
  MaxLines = 4
  MaxCopies = 1
  None = None
  Recommendations = {"a1", "a2"}
  Queues = {"q1", "q2"}
  Recorders = {"p1"}
  SiteOf <- Sites2
  Scope <- Scopes
  LastTime = 1
  Plans <- OneOrTwo
  NoManifest = NoManifest
  Savers = {"p", "q"}
  Manifests = {"m", "n", "foreign"}
  Valid = {"m", "n", "foreign"}
  AtHome = {"m", "n"}
  MaxSaves = 4
  MaxFailures = 2
CHECK_DEADLOCK FALSE
INVARIANTS
  JournalIsSound
  StoreIsSound
  LedgerIsSound
PROPERTIES
  HistoryIsNeverRewritten
  NothingBehindHalfALine
  LifecycleKept
