SPECIFICATION FairUrls
CONSTANTS
  Files = {f1}
  Previewable = {f1}
  Thumbnailed = {f1}
  Matching = {}
  TTL = 0
  UrlLife = 1
  MaxNow = 2
  MaxLists = 2
  MaxLate = 1
  Sent = Sent
  Error = Error
  None = None
INVARIANT RetryFetchesAgain
CHECK_DEADLOCK FALSE
