\* A client is mentioned without getting an account.
SPECIFICATION Spec
CONSTANTS
  ClientId = {c1, c2}
  TransactionId = {t1, t2, t3}
  Amounts = {1, 2}
  MaxFractions = 3
  WithdrawalDisputePolicy = "IfMoreAvailableThanDisputed"
SYMMETRY Symmetry
INVARIANTS
  MentionedHaveAccounts
