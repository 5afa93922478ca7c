CONSTANTS
  None = None
  Scan <- MCScan
  EndsWith <- MCEndsWith
  Workitems <- MCWorkitems
  Event <- MCEvent
  ScanEdges <- MCScanEdges
  ScanTime = 9
  MaxEvents = 3
SPECIFICATION Spec
CHECK_DEADLOCK FALSE
INVARIANT EndsExist
