\* Two stores, one switch, overlapping polls of two requests each.
SPECIFICATION Spec
CONSTANTS
  Stores = {s1, s2}
  Parts = {metrics, funnel}
  Slots = {p1, p2}
  NoData = NoData
  MaxVersion = 2
  MaxSwitches = 1
  MaxFailures = 1
INVARIANTS
  OwnStoreOnly
  SnapshotOfOnePoll
PROPERTIES
  SettlesOnTheTables
