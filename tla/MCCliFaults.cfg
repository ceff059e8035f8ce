\* Any three rows, while stdout and stderr may fail at every call.
SPECIFICATION RunSpec
CONSTANTS
  ClientId = {1, 2}
  TransactionId = {t1, t2}
  Amounts = {1}
  MaxFractions = 1
  WithdrawalDisputePolicy = "IfMoreAvailableThanDisputed"
  Rows <- Faulty
  MaxRows = 3
  MaxBlank = 0
  LineLength = 3
  MayFail = {"stdout", "stderr"}
INVARIANTS
  RunTypeOK
  CompleteWhenOk
  PrintedIsLedger
  EveryFailureIsReported
PROPERTIES
  Termination
CHECK_DEADLOCK FALSE
