SPECIFICATION Spec
CONSTANTS
  Thread = {t1}
  Start = start
  Attempts = 1
  MaxConversations = 1
  MaxFaults = 1
  MaxRefusals = 1
  MaxStops = 1
INVARIANT DeadConnectionIsDropped
