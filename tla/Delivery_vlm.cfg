SPECIFICATION Spec
CONSTANTS
  N = 3
  CameraEnds <- MCCameraEnds
  BatchSize = 2
  MaxRetries = 2
  VlmEnabled = TRUE
  MaxCrashes = 1
  MaxReplays = 0
INVARIANTS
  NeverDoubleCounts
