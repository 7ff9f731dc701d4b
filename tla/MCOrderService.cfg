\* Two requests at once, or one at a time, beside the two subscriptions.  The
\* system comes to rest when its requests and events are spent.
CONSTANTS
  Workers = {w1,w2}
  OrderIds = {o1}
  None = None
  MaxInputs = 4
  MaxEvents = 2
SPECIFICATION MCSpec
SYMMETRY Symmetry
CHECK_DEADLOCK FALSE
INVARIANTS
  LocksAreInUse
  HistoryExplainsRow
  FromWasHeld
  AnnouncedAreCommitted
  AppliedAtMostOnce
  AloneCancelsOnlyOpen
