CONSTANTS
  p1 = p1  c1 = c1  k1 = k1
  Pushers = {p1, p2}
  Timers = {t1}
  Covers = {c1}
  Closers = {k1, k2}
  Sizes <- BulkAndControl
  Ceiling = 8
  Threshold = 7
  PadSizes = {}
  Header = 1
  CoverMin = 1
  CoverMax = 1
  BudgetCap = 0
  RatioNum = 0
  RatioDen = 2
  MaxFrames = 3
SPECIFICATION MCSpec
INVARIANTS TypeOK NoRecordDropped BufferSound
PROPERTIES ImplementsPipe EverythingLeaves
CHECK_DEADLOCK FALSE
