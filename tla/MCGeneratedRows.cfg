\* As MCTxGenerator, for the rows of the file.
SPECIFICATION Spec
CONSTANTS
  ClientId = {0, 1}
  TransactionId = {0, 1, 2, 3}
  Amounts = {1}
  MaxFractions = 1
  CMD_COUNT = 4
  TX_COUNT = 2
INVARIANTS
  WrittenIsGenerated
CHECK_DEADLOCK FALSE
