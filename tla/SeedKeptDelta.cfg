\* A seed of a query with an implausible velocity is moved all the same.
SPECIFICATION SeedSpec
CONSTANTS
  None = None
  Diverged = Diverged
  Speed = 1
  Hits <- MCHits
  PoseErrors = {0, 1}
  ScanAges = {1}
  ScoreGate = 4
  Scoring = TRUE
  WallFallback = TRUE
  SkipFitness = 1
  MaxSpeed = 1
  MaxLatency = 2
  VelocityMaxAge = 2
  MinFixDt = 1
  MaxFixDt = 4
  Horizon = 3
  MaxInFlight = 2
  Path <- MCPath
  Anchors <- MCAnchors
  Aliases <- MCAliases
  Required = 2
  MaxTranslation = 2
  MaxYaw = 0
  StampTolerance = 1
  Window = 2
  MaxSamples = 3
INVARIANTS
  ImplausibleLeavesRaw
CHECK_DEADLOCK FALSE
