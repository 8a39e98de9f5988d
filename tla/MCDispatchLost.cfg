SPECIFICATION FairSpec
CONSTANTS
  Intents <- MCIntents
  Seeds <- MCSeeds
  Workers = {w1}
  Plans <- TwoSteps
  SanitizeID <- OwnID
  SeedLockKey <- MCSeedLockKey
  MaxIssues = 1
  SerialClients = TRUE
  TheGhost = "g"
  MaxSteps = 2
  Requests = {p1, p2}
  MaxLosses = 1
  MaxRestarts = 0
  None = None
PROPERTIES
  RetriesSettle
CHECK_DEADLOCK FALSE
