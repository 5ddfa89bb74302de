SPECIFICATION Spec
CONSTANTS
  t1 = t1
  t2 = t2
  t3 = t3
  t4 = t4
  Tracks <- MCTracks
  SourceInterval = 33
  SampleInterval = 100
  StitchMinGap = 150
  MaxGap = 300
  MaxFrames = 6
SYMMETRY Symmetry
CHECK_DEADLOCK FALSE
INVARIANTS
  CoexistingDistinct
