\* The service against the ledger of its transactions.
SPECIFICATION Spec
CONSTANTS
  ClientId = {c1, c2}
  TransactionId = {t1, t2, t3}
  Amounts = {1, 2}
  MaxFractions = 3
  WithdrawalDisputePolicy = "IfMoreAvailableThanDisputed"
SYMMETRY Symmetry
PROPERTIES
  ImplementsLedger
