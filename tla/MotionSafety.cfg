\* Where a seed is published and whether it is; the command path with every back
\* end, the odometry chain, the goal clients and the pose republisher, with the
\* public defaults scaled to small integers. Time and the goals end, so a
\* behaviour may stop.
SPECIFICATION MotionSafetySpec
CONSTANTS
  None = None
  Diverged = Diverged
  Speed = 1
  Hits <- MCHits
  PoseErrors = {0, 1}
  ScanAges = {1}
  ScoreGate = 4
  Scoring = TRUE
  WallFallback = TRUE
  SkipFitness = 1
  MaxSpeed = 1
  MaxLatency = 3
  VelocityMaxAge = 2
  MinFixDt = 1
  MaxFixDt = 4
  Horizon = 3
  MaxInFlight = 2
  Path <- MCPath
  Anchors <- MCAnchors
  Aliases <- MCAliases
  Required = 2
  MaxTranslation = 2
  MaxYaw = 0
  StampTolerance = 1
  Window = 2
  MaxSamples = 3
  Backends = {"go2w", "isaac", "rl_sar", "simulated"}
  Speeds <- SpeedsDef
  NotFinite = NotFinite
  NoCommand = NoCommand
  Silent = Silent
  Actions <- ActionsDef
  Limit = 2
  MaxX = 2
  AllowReverse = FALSE
  Deadband = 1
  EnableOutput = TRUE
  CommandTimeout = 1
  StateTimeout = 1
  StandTime = 2
  RunIdle = FALSE
  StandIfStale = TRUE
  RequireOdom = TRUE
  Joints = {hip, knee}
  ScaleOverride = 0
  ContractScale = 2
  SafeLow <- SafeLowDef
  SafeHigh = 2
  Stand = 0
  BlendNum = 1
  BlendDen = 1
  StepLimit = 1
  MaxAge = 3
  Cells <- CellsDef
  MapCells <- MapCellsDef
  Stamps <- StampsDef
  MaxJump = 2
  MaxLinearSpeed = 1
  MaxGap = 0
  Monotonic = TRUE
  PublishLast = TRUE
  MaxStep = 2
  AlphaNum = 1
  AlphaDen = 2
  Places <- PlacesDef
  ForwardM = 1
  MotionNeeded = 1
  LifecycleNodes = {bt_navigator}
  FollowDistance = 0
  MinUpdate = 1
  NoPlace = NoPlace
  PublishCount = 2
  Interval = 2
  Cooldown = 4
  UseLatestPose = TRUE
INVARIANTS
  SeedMotionIsSound
  FixCatchesUp
  PublishedAgreesWithOdometry
  ConsistentFixesPass
  StopsWhenSilent
  StopsWhenBlind
  RobotStaysSafe
  ExitMeansReached
  RepublishingIsPaced
PROPERTIES
  CorrectionIsGradual
CHECK_DEADLOCK FALSE
