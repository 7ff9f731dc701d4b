\* One browser: two checkouts, or one and a call of others or the provider,
\* with at most two failures or none.  The system comes to rest when its
\* inputs are spent.
CONSTANTS
  Customers = {c1}
  Workers = {w1,w2}
  OrderIds = {o1,o2}
  PaymentIds = {i1,i2}
  Polls = 2
  None = None
  MaxInputs = 2
  MaxVisits = 1
  MaxTroubles = 2
SPECIFICATION MCFairSpec
CHECK_DEADLOCK FALSE
INVARIANTS
  AcceptedWasAnnounced
  OwnSettlesOnce
PROPERTIES
  FollowsPurchase
  CheckoutEnds
  CalmSuccessIsPaid
