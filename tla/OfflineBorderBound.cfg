\* What its docstring and its test say of the bound of a search node.
SPECIFICATION OfflineSpec
CONSTANTS
  hard = hard
  kidnap = kidnap
  Names <- MCNames
  Kidnaps <- MCKidnaps
  Lists <- MCLists
  Samples <- MCSamples
  MaxSamples = 4
  MaxRuns = 2
  PoseGap = 1
  SampleGap = 2
  MinWindow = 2
  Modes <- MCModes
  Validated <- MCValidated
  Plans <- MCPlans
  MaxInvocations = 2
  RowKinds <- MCRowKinds
  StableRowsRequired = 2
  RecoveryWindow = 4
  ConfirmSamples = 2
  MaxRecoveryFitness = 2
  MatchWindow = 2
  MaxReplay = 5
  Width = 7
  Height = 6
  Depth = 2
  StartLevel = 2
  Block <- MCBlock
  YawCount = 3
  MaxCandidates = 3
  Radius = 1
  Scans <- MCScans
  Maps <- MCMaps
  None = None
  Logs <- MCLogs
  Route <- MCRoute
  TimeRadius = 1
  MinSpacing = 1
  MaxRoutePoses = 2
  CellCount = 3
  GridYaws = 2
  MaxPoses = 4
  MaxJobs = 2
  ScanStamps <- MCScanStamps
  MaxScanDiff = 0
  Scorings <- MCScorings
  ScoreCaps = {0, 1}
  GateScore = 2
  MaxScore = 3
  Margins = {1}
  Repeat = 1
  ObserveWindow = 2
  StableRows = 2
  MaxRecordings = 2
  MaxRewrites = 1
  MaxPublished = 1
INVARIANTS
  BoundIsAdmissible
CHECK_DEADLOCK FALSE
