SPECIFICATION FairSpec
CONSTANTS
  p1 = p1
  p2 = p2
  c1 = c1
  PdfThumbs = {p1, p2}
  PdfCanvasThumbs = {c1}
  MAX_CONCURRENT = 1
  MaxMounts <- MCMaxMounts
INVARIANTS ShowsItsOwnRender
PROPERTIES ImplementsRenderLine SpinnerEnds
CHECK_DEADLOCK FALSE
