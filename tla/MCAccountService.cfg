\* Any command of two clients about three transactions, in any order.
SPECIFICATION Spec
CONSTANTS
  ClientId = {c1, c2}
  TransactionId = {t1, t2, t3}
  Amounts = {1, 2}
  MaxFractions = 3
  WithdrawalDisputePolicy = "IfMoreAvailableThanDisputed"
SYMMETRY Symmetry
INVARIANTS
  TypeOK
  BalanceIsLedger
  OkMeansRecorded
PROPERTIES
  OverflowOnlyWhenFull
  FailuresMoveNothing
  OnlyOwnerMoves
  LockedFrozen
  TransactionLifecycle
  ChargebackLocks
  RedeliveryIdempotent
  DisputesCostNothing
