SPECIFICATION LogSpec
CONSTANTS
  MaxHistory = 4
  LogCap = 4
  MaxGroup = 3
CHECK_DEADLOCK FALSE
INVARIANT TranscriptHasNoGap
