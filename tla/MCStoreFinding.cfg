SPECIFICATION StoreSpec
CONSTANTS
  NoManifest = NoManifest
  Savers = {p, q}
  Manifests = {m, n, foreign}
  Valid = {m, n, foreign}
  AtHome = {m, n}
  MaxSaves = 4
  MaxFailures = 2
CHECK_DEADLOCK FALSE
INVARIANTS
  OneManifestPerDeployment
