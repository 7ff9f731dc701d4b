\* A repeated Create whose Redis entry is gone.
CONSTANTS
  Workers = {w1}
  Keys = {k1}
  PaymentIds = {i1}
  None = None
  MaxCalls = 2
  MaxAlone = 0
SPECIFICATION MCSpec
SYMMETRY Symmetry
INVARIANT
  RepeatIsAnswered
