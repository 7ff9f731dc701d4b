\* Two taps for one cart, and one failure.
CONSTANTS
  Customers = {c1}
  Workers = {w1,w2}
  OrderIds = {o1,o2}
  PaymentIds = {i1,i2}
  Polls = 2
  None = None
  MaxInputs = 2
  MaxVisits = 0
  MaxTroubles = 1
SPECIFICATION MCSpec
CHECK_DEADLOCK FALSE
INVARIANT
  ChargedOncePerCart
