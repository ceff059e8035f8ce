\* Longer histories of one account, with zero amounts and one that fills it.
SPECIFICATION Spec
CONSTANTS
  ClientId = {c1}
  TransactionId = {t1, t2, t3, t4}
  Amounts = {0, 1, 3}
  MaxFractions = 4
  WithdrawalDisputePolicy = "IfMoreAvailableThanDisputed"
SYMMETRY Symmetry
INVARIANTS
  BalanceIsLedger
PROPERTIES
  OverflowOnlyWhenFull
