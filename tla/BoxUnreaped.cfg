CONSTANTS
  Box = {b1}
  MaxQueue = 1
  MaxFaults = 0
  MaxCrashes = 0
SPECIFICATION FairSpec
PROPERTIES
  UnusedBoxIsReaped
CHECK_DEADLOCK FALSE
