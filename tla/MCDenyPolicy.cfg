\* The service started with --deny-withdrawal-dispute.
SPECIFICATION Spec
CONSTANTS
  ClientId = {c1, c2}
  TransactionId = {t1, t2, t3}
  Amounts = {1, 2}
  MaxFractions = 3
  WithdrawalDisputePolicy = "Deny"
SYMMETRY Symmetry
PROPERTIES
  OnlyDepositsPayIn
