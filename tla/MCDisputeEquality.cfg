\* A withdrawal of all that is available is disputed.
SPECIFICATION Spec
CONSTANTS
  ClientId = {c1, c2}
  TransactionId = {t1, t2, t3}
  Amounts = {1, 2}
  MaxFractions = 3
  WithdrawalDisputePolicy = "IfMoreAvailableThanDisputed"
SYMMETRY Symmetry
PROPERTIES
  DisputedIsLessThanAvailable
