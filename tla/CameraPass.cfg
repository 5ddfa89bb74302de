SPECIFICATION CameraSpec
CONSTANTS
  NoLine = NoLine
  Cameras <- MCCameras
  Tracks <- MCTracks
  InsideSign <- MCInsideSign
  MinBoxFrac = 15
  ConfirmFrames = 2
  FrameInterval = 2
  MinZoneDwell = 3
  DwellInterval = 3
  ExitGrace = 4
  MaxFrames = 8
CHECK_DEADLOCK FALSE
INVARIANTS
  PresenceInv
  WellBracketed
  ReportsAreTheVisits
  CrossingsAreRuns
  CrossingsAlternate
  OnlyShoppersCount
