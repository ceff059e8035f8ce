\* Blank lines between the rows.
SPECIFICATION RunSpec
CONSTANTS
  ClientId = {1, 2}
  TransactionId = {t1, t2}
  Amounts = {1}
  MaxFractions = 1
  WithdrawalDisputePolicy = "IfMoreAvailableThanDisputed"
  Rows <- Faulty
  MaxRows = 3
  MaxBlank = 1
  LineLength = 2
  MayFail = {}
INVARIANTS
  MessageNamesLine
CHECK_DEADLOCK FALSE
