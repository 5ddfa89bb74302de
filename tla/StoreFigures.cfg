\* Any order of delivery of ten events of four people, two sales files, any
\* number of restarts.
SPECIFICATION Spec
CONSTANTS
  Window = 5
  LowSample = 2
  QueueWarn = 3
  QueueCritical = 5
  DropThreshold = 3400
  Horizon = 30
  OpenHour = 12
  CloseHour = 22
  StoreCameras <- MCStoreCameras
  NoZone = NoZone
  Log <- MCLog
  Files <- MCFiles
  NoFile = NoFile
  MatchingStores = {"here"}
  ParsedTime <- MCParsedTime
INVARIANTS
  FiguresAgree
  StaffLeaveNoTrace
  TakingsCountOnce
PROPERTIES
  OnlyStaffFlagsTakeBack
  AlarmsHaveACause
