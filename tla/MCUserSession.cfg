\* Two requests at once, everything may fail; or one at a time and only the
\* process may die.  The system comes to rest when its requests are spent.
CONSTANTS
  Workers = {w1,w2}
  Users = {u1,u2}
  Emails = {e1}
  Pairs = {p1,p2,p3}
  Week = 2
  MaxAttempts = 0
  Faults = {"postgres","redis","nats","smtp","process"}
  None = None
  MaxCalls = 3
  MaxAlone = 4
SPECIFICATION MCSpec
CHECK_DEADLOCK FALSE
SYMMETRY Symmetry
INVARIANTS
  TriesBounded
  AloneRefreshBuysOnce
  AloneLogoutEndsSessions
PROPERTY RevokedStaysRevoked
