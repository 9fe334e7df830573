SPECIFICATION FairScreens
CONSTANTS
  CHUNK_SIZE = 2
  CONCURRENCY = 2
  MAX_RETRIES = 1
  MAX = 2
  Batches <- MCLongBatches
  MaxRows = 5
  MaxRuns = 1
  MaxMounts = 1
  MaxFailures = 1
  Files = {f1}
  Previewable = {f1}
  Thumbnailed = {f1}
  Matching = {}
  TTL = 0
  UrlLife = 1
  MaxNow = 2
  MaxLists = 2
  MaxLate = 1
  Sent = Sent
  Error = Error
  None = None
INVARIANTS
  ThumbnailsSayWhatIsAsked CacheServesWorkingUrls DeletedFilesShownOnlyOutdated
  MispairedOnlyAfterShortAnswer SaidDoneMeansDone
PROPERTIES ScreenSettles
CHECK_DEADLOCK FALSE
