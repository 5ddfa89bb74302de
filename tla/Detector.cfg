SPECIFICATION Spec
CONSTANTS
  t1 = t1
  t2 = t2
  Cameras <- EntranceThenCheckout
  Tracks <- MCTracks
  Person <- PersonOfTrack
  PerfectReid = FALSE
  FrameInterval = 1
  MinZoneDwell = 1
  DwellInterval = 3
  ExitGrace = 0
  ReentryGap = 0
  ConfirmFrames = 1
  InsideSign = 1
  MaxFrames = 4
CHECK_DEADLOCK FALSE
INVARIANTS
  QueueIsInZone
  QueueDepthIsCount
  VisitsClose
  OneVisitorPerTrack
  ReentryNeedsExit
