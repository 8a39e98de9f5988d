SPECIFICATION FairSpec
CONSTANTS
  Intents <- MCIntents
  Ghosts <- MCGhosts
  Seeds <- MCSeeds
  Workers = {w1, w2}
  Plans <- LongPlan
  SanitizeID <- SameID
  SeedLockKey <- MCSeedLockKey
  MaxIssues = 1
  SerialClients = FALSE
  SessionEvents = TRUE
  None = None
INVARIANTS
  DispatchOrder
  LockOwnerPending
PROPERTIES
  EventuallySettled
CHECK_DEADLOCK FALSE
