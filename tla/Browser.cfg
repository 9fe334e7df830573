SPECIFICATION BrowserSpec
CONSTANTS
  Emails = {e1, e2}
  Null = Null
  Guest = Guest
  Wrong = Wrong
  MAX_ATTEMPTS = 1
  PRODUCTION = TRUE
  MaxActs = 5
  Cards = {c1, c2}
  Transfers = {t1, t2}
  None = None
  Failed = Failed
  Pending = Pending
  MaxOpens = 2
  MaxMoves = 2
  MaxReloads = 1
  MaxShares = 1
  Partners = {a, b}
  MaxChecks = 1
  MaxFetches = 2
  MaxFileShares = 1
  MaxEvents = 1
  MaxInFlight = 3
  Sent = Sent
  Refused = Refused
  NoOne = NoOne
SYMMETRY Symmetric
INVARIANTS
  SignedInIsShown CodesAreForOne BackClosesModals ShownIsNewest
  RequestsAgree PanelIsOfItsSession
PROPERTIES TerminateHidesSession
CHECK_DEADLOCK FALSE
