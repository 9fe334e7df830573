SPECIFICATION Spec
CONSTANTS
  t0 = t0
  t1 = t1
  Texts = {t0, t1}
  Blank = Blank
  Original = t0
  Pending = Pending
  Failed = Failed
  Gone = Gone
  MAX_VERSIONS = 2
  MaxEdits = 1
  MaxWrites = 2
  MaxRetries = 1
  MaxAsks = 2
  w = w
  plain = plain
  big = big
  bigRed = bigRed
  Words = {w}
  EmptyText = EmptyText
  Styles = {big, bigRed}
  Plain = plain
  Written <- MCSizeOf
  Inherited <- MCSizeOf
  HISTORY = 2
  Documents <- MCDocuments
  MaxParas = 2
  MaxEditsDocx = 3
  MaxSaves = 2
INVARIANTS EditorsAgree TextIsKept
CHECK_DEADLOCK FALSE
