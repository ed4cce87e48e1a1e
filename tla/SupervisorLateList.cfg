\* The ranked walk without a gate, while a second query is out.
SPECIFICATION NodeSpec
CONSTANTS
  RequestDebounce = 1
  MinSpacing = 2
  MaxAttempts = 2
  MinCandidateScore = 1
  QueryTimeout = 1
  SettleTimeout = 2
  ConfirmationSamples = 2
  MaxWalk = 2
  EnableCrossCheck = FALSE
  UseOdomBridge = FALSE
  OdomBridgeMaxAttempts = 1
  AgeCap = 2
  TickGaps <- MCLateTicks
  Scores <- MCScores
  ScoreLists <- MCFewLists
  Stamps <- MCStamps
  NoTime = NoTime
  NoReply = NoReply
  EnableShadowGate = FALSE
  RequestClearConfirms = TRUE
  LateReplies = TRUE
  MaxInFlight = 2
INVARIANTS
  WeakIsNeverPublished
