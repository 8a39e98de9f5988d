SPECIFICATION MCSpec
CONSTANTS
  GhostIDs = {g, h}
  CommandIDs = {c, d}
  MessageIDs = {0, 1, 2}
  Seeds = {s, t}
  Callers = {p, q}
  MaxRestarts = 1
  None = None
  AdminGhosts = {"g1", "g2"}
  AdminAddrs = {"a1", "a2"}
  Nobody = ""
  Hosts <- MCHosts
  LocalGhosts <- MCLocalGhosts
  Preloads <- MCPreloads
  Spawners = {"ghost admin", "embedder"}
  AdminConns = {1, 2}
  IntentIDs = {1, 2}
  MaxMoves = 1
  MaxRequests = 2
  InstallSpecs <- MCInstallSpecs
  BootPlans <- MCBootPlans
  Refused <- MCRefused
  Destinations = {"d", "c"}
  Repos = {"r1", "r2"}
  Branches = {"m", "x", "y"}
  DefaultBranch = "m"
  Files = {"f", "g"}
  Packages = {"p"}
  Unset = ""
  MaxVersion = 1
  MaxPushed = 2
  MaxBoots = 2
  SeedLists <- MCSeedLists
  PathNode <- MCPathNode
  ParentNode <- MCParentNode
  NoNode = "out"
  Keys = {"", "k"}
  BlankKey = ""
  Contents = {"u", "v"}
  MaxOps = 6
  MaxReboots = 1
INVARIANTS
  TypeOK
  IndexesAgree
  AtMostOneRunPerLife
  EventMeansComplete
  CallInv
  RouteAgrees
  InstalledAsAsked
  DeclaredIdempotent
PROPERTIES
  AcceptedCompletes
CHECK_DEADLOCK FALSE
