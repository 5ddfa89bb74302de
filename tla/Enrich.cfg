SPECIFICATION EnrichSpec
CONSTANTS
  Passes <- MCPasses
  Sidecars <- MCSidecars
  GroupWindow = 2
INVARIANTS
  EventsSurvive
  LabelsAreOfLastRun
  GroupsArriveTogether
