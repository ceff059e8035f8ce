\* Longer inputs, with streams that work.
SPECIFICATION RunSpec
CONSTANTS
  ClientId = {1, 2}
  TransactionId = {t1, t2}
  Amounts = {1, 2}
  MaxFractions = 2
  WithdrawalDisputePolicy = "IfMoreAvailableThanDisputed"
  Rows <- History
  MaxRows = 4
  MaxBlank = 0
  LineLength = 2
  MayFail = {}
SYMMETRY Symmetry
INVARIANTS
  LinesAreClients
  LockedHasHistory
  TotalsArePaidIn
  SilentRowsAreRecorded
  OnlyStreamsFail
CHECK_DEADLOCK FALSE
