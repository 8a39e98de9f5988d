SPECIFICATION MCSpec
CONSTANTS
  MaxAuthBytes = 65536
  MaxPayloadBytes = 8
  Frames = {}
  MaxFrames = 2
  Messages <- MCNoMessages
  ExtraFields = {}
  Mirages <- MCMirages
  Ghosts <- MCDefaultGhosts
  Events = {}
  Registered = Registered
  MaxConns = 0
  MaxWrites = 2
  MaxRestarts = 0
  None = None
  Blank = ""
  TrimName <- MCTrimName
  JitterPercent = {50, 100, 149}
  MaxAttempt = 6
  TrimText <- MCTrimText
  JoinText <- MCJoinText
  DotText <- MCDotText
  StripGhostPrefix <- MCStripGhostPrefix
  EmptyText = ""
  FlowSeed = "seed.flow"
  Issues = {}
  MaxIntents = 2
  ServiceConfigs <- MCServiceConfigs
  RequestNames = {"Web", "web", "--"}
  NormalizeSuffix <- MCNormalizeSuffix
  NoName = ""
  Spawns = {}
  MaxSessions = 2
INVARIANTS
  DelayWithinMax
CHECK_DEADLOCK FALSE
