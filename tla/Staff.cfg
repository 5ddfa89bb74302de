\* One person on two cameras and another one, two passes.
SPECIFICATION Spec
CONSTANTS
  t1 = t1
  t2 = t2
  t3 = t3
  v1 = v1
  v2 = v2
  Tracks = {t1, t2, t3}
  Visitor <- MCVisitor
  PresenceFallback = FALSE
  NoVerdict = NoVerdict
  Others = Others
  Torn = Torn
  MaxCrashes = 1
SYMMETRY Symmetry
CHECK_DEADLOCK FALSE
INVARIANTS
  PaidOnce
  TracksKeepTheirFlag
  SidecarKeepsEntries
