\* Both tools; each class of IMU verdict (active, waiting, failing) once.
SPECIFICATION JudgedSpec
CONSTANTS
  Entries = {"command", "quickstart"}
  Requests <- BothRequests
  SampleStatuses = {"prediction_active", "waiting_for_new_imu", "stale_imu"}
  MaxInterventions = 1
  MaxSamples = 1
INVARIANTS
  OneParentPerFrame
  PrintedPoseIsApplied
PROPERTIES
  DoctorIsRight
  ReadableMapActivates
CHECK_DEADLOCK FALSE
