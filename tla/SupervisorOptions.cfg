\* The other choices: no cross-check, no gate over the ranked walk,
\* a cleared request read as evidence, spaced resets, ticks that may come late,
\* and two queries out at a time.
SPECIFICATION NodeSpec
CONSTANTS
  RequestDebounce = 1
  MinSpacing = 2
  MaxAttempts = 2
  MinCandidateScore = 1
  QueryTimeout = 1
  SettleTimeout = 2
  ConfirmationSamples = 2
  MaxWalk = 2
  EnableCrossCheck = FALSE
  UseOdomBridge = TRUE
  OdomBridgeMaxAttempts = 1
  AgeCap = 2
  TickGaps <- MCLateTicks
  Scores <- MCScores
  ScoreLists <- MCFewLists
  Stamps <- MCStamps
  NoTime = NoTime
  NoReply = NoReply
  EnableShadowGate = FALSE
  RequestClearConfirms = TRUE
  LateReplies = TRUE
  MaxInFlight = 2
INVARIANTS
  EpisodeIsAccounted
  EveryResetIsSent
PROPERTIES
  EvidenceIsFresh
