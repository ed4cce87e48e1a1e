\* Resets, scans and the publish timer without the odometry bridge, and losses of
\* track with every failure mode of an alignment: see MCLocalizer.
SPECIFICATION MCSpec
CONSTANTS
  MaxResets = 3
  MaxLag = 2
  MaxAge = 5
  MaxScanAge = 5
  MaxCropFailures = 2
  GapScale = 3
  StreakScale = 3
  Threshold = 95
  ClearSamples = 2
  RetryMinRejects = 1
  RetryMaxGap = 2
  RetryEnabled = TRUE
  LatchEnabled = TRUE
  LocalMapCrop = TRUE
  Predicts = TRUE
  MapOdomTf = TRUE
  OdomSeed = FALSE
  Bridge = FALSE
  TimerPublishing = TRUE
  Alignments <- MCAll
  Preparations <- MCPreparations
INVARIANTS
  BeliefsFollowReset
  AppliedScansFollowReset
PROPERTIES
  PublishedNeverGoesBack
  GuardLiftedByReset
  WithdrawnWhileTracking
  EveryLossIsReported
