\* Two refunds of one payment at the same time.
CONSTANTS
  Workers = {w1,w2}
  Keys = {k1}
  PaymentIds = {i1}
  None = None
  MaxCalls = 3
  MaxAlone = 0
SPECIFICATION MCSpec
SYMMETRY Symmetry
INVARIANT
  RefundedOnce
