\* Two requests at once, or one at a time.  The system comes to rest when its
\* requests are spent.
CONSTANTS
  Workers = {w1,w2}
  ProductIds = {p1}
  Moments = {m1,m2}
  Amounts <- TheAmounts
  None = None
  MaxCalls = 4
SPECIFICATION MCSpec
SYMMETRY Symmetry
CHECK_DEADLOCK FALSE
INVARIANTS
  ConstraintNeverFires
  StockHasASource
  AnnouncedWasHeld
  ImageIsStored
PROPERTY AloneMovesByQuantity
