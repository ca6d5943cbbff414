SPECIFICATION MCPlatformSpec
CONSTANTS
  Process = {o1, o2}
  StaleBeats = 2
  DrainPolls = 1
  MaxStarts = 3
  LastPid = 5
  HostBox = {x1, x2}
  NoBox = nobox
  GraceTicks = 2
  MaxHosts = 3
  MaxTunnelTroubles = 2
  Box = {x1, x2}
  Pool = 2
  MaxFaults = 2
  Label = {"a", "b"}
  MaxTargets = 2
  Device = {d1}
  Person = {"u1", "u2"}
  MaxVapid = 2
  MaxEndpoints = 2
  MaxRounds = 1
  MaxMissed = 1
  NamedUser = {"u1"}
  OwnBox = {x1}
  MaxPlaceholders = 2
  MaxLists = 3
  MaxModes = 2
  MaxAsks = 3
  MaxPieces = 3
  KeptPieces = 2
  LoginRun = {l1, l2}
  MaxLoginFaults = 2
CHECK_DEADLOCK FALSE
INVARIANTS OrchestratorIsAlone ProcessesAreKnown TunnelsFollowHosts  NotificationsArrive OwnersAreApart
PROPERTIES KubernetesKeepsPromise DockerKeepsPromise
