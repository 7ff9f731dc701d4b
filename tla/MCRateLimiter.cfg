\* Three requests at once, fair, everything may fail.
CONSTANTS
  Workers = {w1,w2,w3}
  Limit = 2
  Faults = {"redis","gateway"}
SPECIFICATION FairSpec
INVARIANTS
  AtMostLimit
PROPERTY ClientIsServed
