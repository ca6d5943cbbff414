SPECIFICATION MCWorkspaceSpec
CONSTANTS
  Request = {r1, r2}
  MaxLinks = 2
  MaxAgentEdits = 1
  MaxTimeouts = 1
  Skill = {"a", "b"}
  BuiltinSkill = {"b"}
  ImageSkill = {"b"}
  FirstSkills = {"a"}
  LaterSkills = {"b"}
  MaxRepositories = 2
  MaxSetChanges = 3
  MaxInstalls = 2
  MaxDowns = 1
  Page = {g1, g2}
  ByAgent = agent
  FileLines = 2
  MaxTouches = 2
  MaxSourceEdits = 1
  MaxLostWrites = 1
  Reader = {d1, d2}
  Rev = {"main"}
  MaxTakes = 3
  MaxFileChanges = 2
  MaxDiff = 5
  MaxCommentLines = 3
  MaxAgentLines = 4
  Text = {"a", "b"}
  Radius = 1
  MaxLines = 4
  MaxEdits = 3
  PaneBox = {"x1", "x2"}
  PanePath = {"f", "g"}
  NoteLine = {1}
  MaxActs = 2
  MaxContents = 2
CHECK_DEADLOCK FALSE
INVARIANTS FilesAreSafe ReviewIsTrue ReviewSurvives
PROPERTIES SetsAreInstalled CommentsAreKept CommentsFollowLines
