\* Quickstart with and without an explicit initial pose.
SPECIFICATION JudgedSpec
CONSTANTS
  Entries = {"quickstart"}
  Requests <- QuickstartRequests
  SampleStatuses = {"prediction_active"}
  MaxInterventions = 0
  MaxSamples = 1
INVARIANTS
  ExplicitPoseReachesLocalizer
CHECK_DEADLOCK FALSE
