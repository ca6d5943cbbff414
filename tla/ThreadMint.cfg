SPECIFICATION FairSpec
CONSTANTS
  Thread = {t1}
  Start = start
  Attempts = 1
  MaxConversations = 3
  MaxFaults = 1
  MaxRefusals = 0
  MaxStops = 0
PROPERTY TranscriptIsKept
