CONSTANTS
  Box = {b1}
  MaxQueue = 3
  MaxFaults = 0
  MaxCrashes = 0
SPECIFICATION Spec
PROPERTIES
  OvertakenStartNeverBegins
CHECK_DEADLOCK FALSE
