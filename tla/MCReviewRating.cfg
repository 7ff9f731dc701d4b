\* Two requests at once, and everything may fail or nothing does; or one at a
\* time and nothing fails.  The system comes to rest when its requests are spent.
CONSTANTS
  Workers = {w1,w2}
  ReviewIds = {r1,r2}
  ProductIds = {p1,p2}
  Numbers = {0,1,5}
  Faults = {"redis","nats","postgres"}
  None = None
  MaxCalls = 3
SPECIFICATION MCSpec
CHECK_DEADLOCK FALSE
INVARIANTS
  RatingsWereTrue
  AloneCacheCatchesUp
  OnlyLateRatingsStay
PROPERTIES
  OnlyCreateAdds
