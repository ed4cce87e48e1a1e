\* Cold start with saved pose, guarded search, operator, crash and restart.
SPECIFICATION FairSpec
CONSTANTS
  Maps = {1, 2}
  Poses = {1, 3}
  QueryTimeout = 1
  VerificationTimeout = 1
  VerificationSamples = 2
  MaxAttempts = 3
  ConsensusSamples = 2
  PreverifyAttempts = 2
  PreverifySaved = TRUE
  SaveInterval = 0
  MaxStamp = 2
  MaxRestarts = 1
INVARIANTS
  AutomaticPosesBounded
  RestoredForThisMap
PROPERTIES
  StartupSettles
  PublishedByConsensus
  ActiveIsVerified
