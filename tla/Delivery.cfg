SPECIFICATION Spec
CONSTANTS
  N = 3
  CameraEnds <- MCCameraEnds
  BatchSize = 2
  MaxRetries = 2
  VlmEnabled = FALSE
  MaxCrashes = 2
  MaxReplays = 1
INVARIANTS
  FileIsOnePass
  NothingLostSilently
  PostedIsStored
  ReplayRestores
PROPERTIES
  PassEnds
