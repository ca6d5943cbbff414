CONSTANTS
  Box = {b1}
  MaxQueue = 2
  MaxFaults = 1
  MaxCrashes = 1
SPECIFICATION FairSpec
INVARIANTS
  TypeOK
  ReadyMeansSetUp
  DeleteLeavesNothing
PROPERTIES
  TombstoneIsFinal
  StartsOnlyWithStorage
  StoppedMeansDown
  PromiseKept
  OvertakerTakesEffect
  CreateSettles
  TombstoneIsSwept
CHECK_DEADLOCK FALSE
