SPECIFICATION MCSpec
CONSTANTS
  MaxAuthBytes = 65536
  MaxPayloadBytes = 8
  Frames <- MCFrames
  MaxFrames = 2
  Messages <- MCMessages
  ExtraFields <- MCExtraFields
  Mirages <- MCMirages
  Ghosts <- MCGhosts
  Events = {e, f}
  Registered = Registered
  MaxConns = 2
  MaxWrites = 2
  MaxRestarts = 1
  None = None
  Blank = ""
  TrimName <- MCTrimName
  JitterPercent = {50, 100, 149}
  MaxAttempt = 5
  TrimText <- MCTrimText
  JoinText <- MCJoinText
  DotText <- MCDotText
  StripGhostPrefix <- MCStripGhostPrefix
  EmptyText = ""
  FlowSeed = "seed.flow"
  Issues <- MCIssues
  MaxIntents = 2
  ServiceConfigs <- MCServiceConfigs
  RequestNames = {"Web", "web", "--"}
  NormalizeSuffix <- MCNormalizeSuffix
  NoName = ""
  Spawns = {1, 2}
  MaxSessions = 2
INVARIANTS
  TypeOK
  AddressIsLive
  AcksInStep
  SessionInv
  InStep
  RoundTrip
  IdentityBound
  
  AdminIssueIsFound
  EventFindsOwner
  NoOrphanWithoutRace
  ErrorExitExplained
PROPERTIES
  HangUpIsSeen
  ImplementsLedger
  AllClosedInTheEnd
CHECK_DEADLOCK FALSE
