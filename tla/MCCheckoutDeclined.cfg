\* One checkout; nothing fails but the provider may decline.
CONSTANTS
  Customers = {c1}
  Workers = {w1,w2}
  OrderIds = {o1,o2}
  PaymentIds = {i1,i2}
  Polls = 2
  None = None
  MaxInputs = 1
  MaxVisits = 0
  MaxTroubles = 0
SPECIFICATION MCSpec
CHECK_DEADLOCK FALSE
INVARIANT
  ReceiptWasSent
