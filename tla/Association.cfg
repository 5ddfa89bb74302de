SPECIFICATION GroupSpec
CONSTANTS
  Tracks <- MCTracks
  Scenes <- MCScenes
  SubStride = 10
  MinAspect = 85
  MinPeople = 2
  SourceInterval = 33
  SampleInterval = 100
  StitchMinGap = 150
  MaxGap = 300
  MaxFrames = 4
CHECK_DEADLOCK FALSE
INVARIANTS
  LocalsFollowTracks
  OnlyRevivalsMerge
  SplitSeatsEveryone
PROPERTIES
  LiveNeverStolen
