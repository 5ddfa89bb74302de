SPECIFICATION Spec
CONSTANTS
  t1 = t1
  t2 = t2
  Cameras <- EntranceThenFloor
  Tracks <- MCTracks
  Person <- PersonOfTrack
  PerfectReid = TRUE
  FrameInterval = 1
  MinZoneDwell = 1
  DwellInterval = 3
  ExitGrace = 1
  ReentryGap = 0
  ConfirmFrames = 2
  InsideSign = 1
  MaxFrames = 8
CHECK_DEADLOCK FALSE
INVARIANTS
  NoSecondEntry
