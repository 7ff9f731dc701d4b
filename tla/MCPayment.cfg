\* Three handlers at once, or one at a time, over two keys and two ids.
CONSTANTS
  Workers = {w1,w2,w3}
  Keys = {k1,k2}
  PaymentIds = {i1,i2}
  None = None
  MaxCalls = 3
  MaxAlone = 3
SPECIFICATION MCSpec
SYMMETRY Symmetry
INVARIANTS
  TypeOK
  ChargedOncePerKey
  EntryNamesOwnPayment
  EffectsInOrder
  RowExplainsStatus
  AloneSucceedsOnce
PROPERTIES
  NeverPendingAgain
  ChargesIdempotently
  AloneFollowsLifecycle
