SPECIFICATION FairSpec
CONSTANTS
  CHUNK_SIZE = 1
  CONCURRENCY = 2
  MAX_RETRIES = 1
  MAX = 2
  Batches <- MCBatches
  MaxRows = 3
  MaxRuns = 2
  MaxMounts = 2
  MaxFailures = 1
INVARIANTS WorkersAreApart SaidDoneMeansDone
PROPERTIES EveryRunEnds
CHECK_DEADLOCK FALSE
