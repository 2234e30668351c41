SPECIFICATION FairSpec
CONSTANTS
  writer = writer
  reader = reader
  Callers <- MCThreads
  Slots = 1
  SitesOf <- MCSites
  Updates <- MCUpdates
  Queries <- MCQueries
  Retries <- MCRetries
  Threads <- MCThreads
  d1 = d1
  d2 = d2
  Databases = {d1, d2}
  MaxEntries = 1
  TTL = 1
  Life = 2
  Latency = 1
  MaxTime = 2
  MaxAsks = 3
  MaxDropped = 1
CONSTRAINT Apart
INVARIANTS WritesLandOnce OutcomeHonest
PROPERTIES CallersEnd ServesLiveTokens
CHECK_DEADLOCK FALSE
