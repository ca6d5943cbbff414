SPECIFICATION MCSettlingSpec
CONSTANTS
  Browser = {b1}
  Question = {q1}
  NoBrowser = nobody
  MaxSockets = 2
  MaxLosses = 1
  Prompt = {p1}
  Load = {l1}
  NoLoad = noload
  MaxUpdates = 3
  MaxEnds = 1
  Caller = {c1, lp}
  Loop = lp
  Nobody = nocaller
  MaxWrites = 2
  MaxMishaps = 1
  IdleMinutes = 1
  Thread = {t1}
  Start = start
  Attempts = 2
  MaxConversations = 2
  MaxFaults = 1
  MaxRefusals = 1
  MaxStops = 1
CHECK_DEADLOCK FALSE
INVARIANTS PushIsWhole ShownWorkIsSpared
PROPERTIES PushedPolicyConverges QuestionsAndTurnsEnd QuietBoxIsReaped EveryBringUpSettles
