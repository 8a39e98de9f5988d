SPECIFICATION FairSpec
CONSTANTS
  Intents <- MCIntents
  Seeds <- MCSeeds
  Workers = {w1, w2}
  Plans <- TwoSteps
  SanitizeID <- OwnID
  SeedLockKey <- MCSeedLockKey
  MaxIssues = 2
  SerialClients = FALSE
  TheGhost = "g"
  MaxSteps = 2
  Requests = {p1, p2}
  MaxLosses = 1
  MaxRestarts = 1
  None = None
INVARIANTS
  DispatchInv
  ObservedRan
  RefusedMeansKnown
  KnownIsAccounted
PROPERTIES
  ImplementsSides
  SettlesWithoutLoss
CHECK_DEADLOCK FALSE
