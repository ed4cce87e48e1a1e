\* The loop with its cross-check, odometry bridge and shadow gate, and a service
\* that may answer a query the loop no longer waits for.
SPECIFICATION FairNodeSpec
CONSTANTS
  RequestDebounce = 1
  MinSpacing = 1
  MaxAttempts = 2
  MinCandidateScore = 1
  QueryTimeout = 1
  SettleTimeout = 1
  ConfirmationSamples = 1
  MaxWalk = 2
  EnableCrossCheck = TRUE
  UseOdomBridge = TRUE
  OdomBridgeMaxAttempts = 1
  AgeCap = 2
  TickGaps <- MCEveryTick
  Scores <- MCScores
  ScoreLists <- MCFewLists
  Stamps <- MCStamps
  NoTime = NoTime
  NoReply = NoReply
  EnableShadowGate = TRUE
  RequestClearConfirms = FALSE
  LateReplies = TRUE
  MaxInFlight = 1
INVARIANTS
  NodeTypeOK
PROPERTIES
  EvidenceIsFresh
  RecoveryIsBounded
  StandingRequestSettles
