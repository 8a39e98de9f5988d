SPECIFICATION FairSpec
CONSTANTS
  Intents <- MCIntents
  Ghosts <- MCGhosts
  Seeds <- MCSeeds
  Workers = {w1, w2}
  Plans <- PlansWithRevision
  SanitizeID <- SameID
  SeedLockKey <- MCSeedLockKey
  MaxIssues = 2
  SerialClients = TRUE
  SessionEvents = FALSE
  None = None
INVARIANTS
  TypeOK
  ObservedWasDispatched
  SatisfiedMeansDone
  LockExclusion
  SerialInv
PROPERTIES
  ImplementsProgress
CHECK_DEADLOCK FALSE
