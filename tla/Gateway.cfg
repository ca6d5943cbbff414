SPECIFICATION MCGatewaySpec
CONSTANTS
  Browser = {b1, b2}
  Question = {q1, q2}
  NoBrowser = nobody
  MaxSockets = 3
  MaxLosses = 1
  Prompt = {p1, p2}
  Load = {l1, l2}
  NoLoad = noload
  MaxUpdates = 5
  MaxEnds = 2
  MaxHistory = 4
  LogCap = 2
  MaxGroup = 2
  Login = {f1, f2}
  NoLogin = nologin
  NoRow = norow
  Tick = {i1, i2}
  MaxDecisions = 2
  MaxTokens = 3
  Call = {k1, k2}
  NoMcpRow = nomcprow
  MaxGrants = 3
  MaxConnects = 3
  MaxKeys = 3
  MaxSizes = 2
  MaxShellEnds = 3
  Url = {"http", "one", "two"}
  SecureUrl = {"one", "two"}
  MaxServerEdits = 4
  MaxReadies = 2
  Thread = {t1, t2}
  Start = start
  Attempts = 2
  MaxConversations = 2
  MaxFaults = 1
  MaxRefusals = 1
  MaxStops = 1
  Tool = {"c1"}
  Inquiry = {"q1"}
  MaxThread = 3
  MaxReplays = 3
  Wish = {w1, w2}
  MaxMints = 2
  MaxWishes = 2
  MaxWoes = 1
  MaxMishaps = 2
  MaxOptionSteps = 4
CHECK_DEADLOCK FALSE
INVARIANTS QuestionsAreKept TurnsAreTold ThreadIsTold TerminalIsWhole
           SecretsAreKept SecretsGoHome ThreadsAreServed PageIsTrue OptionsAreKept
PROPERTIES TransientFaultKeepsRow
