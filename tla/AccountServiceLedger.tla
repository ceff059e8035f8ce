------------------------ MODULE AccountServiceLedger ------------------------
(***************************************************************************)
(* Why the service makes the changes that it makes: what a repeated        *)
(* command, a claim and a full account can do, and that the service        *)
(* implements the ledger of its transactions.                              *)
(***************************************************************************)
EXTENDS AccountServiceBalances

-----------------------------------------------------------------------------
(* A command that was answered moves nothing if it comes again. *)

Spent(cmd) ==
  /\ cmd \in Transaction => cmd.id \in DOMAIN transactions /\ cmd.client \in DOMAIN accounts
  /\ cmd \in Claim /\ Due(cmd) => NewBalances(cmd) = {}

LastIsSpent == Spent(reply.cmd)

LEMMA NextSpends ==
  ASSUME TypeOK, Next
  PROVE  LastIsSpent'
<1>1. ASSUME NEW cmd \in Command, NEW result \in Result, Quiet(cmd, result)
      PROVE  LastIsSpent'
  <2>1. reply'.cmd = cmd /\ transactions' = transactions
    BY <1>1, ReturnTyped DEF Quiet
  <2>2. CASE cmd \in Transaction
    <3>1. cmd.client \in ClientId
      BY <2>2 DEF Transaction
    <3>2. cmd.id \in DOMAIN transactions /\ accounts' = UpsertAccount(cmd.client)
      BY <1>1, <2>2 DEF Quiet
    <3>3. cmd.client \in DOMAIN accounts'
      BY <3>1, <3>2, UpsertAccountFacts DEF TypeOK
    <3>4. QED
      BY <2>1, <2>2, <3>2, <3>3, ClaimIsNoTransaction DEF LastIsSpent, Spent
  <2>3. CASE cmd \in Claim
    <3>1. accounts' = accounts /\ (Due(cmd) => NewBalances(cmd) = {})
      BY <1>1, <2>3 DEF Quiet
    <3>2. Due(cmd)' <=> Due(cmd)
      BY <2>1, <3>1 DEF Due, Admissible, StateOf, ClaimedTx, Coverable, OwnerOf,
                        AccountOf, UpsertAccount, PolicyAllows
    <3>3. NewBalances(cmd)' = NewBalances(cmd)
      BY <2>1, <3>1 DEF NewBalances, ClaimedTx, OwnerOf, AccountOf, UpsertAccount
    <3>4. QED
      BY <2>1, <2>3, <3>1, <3>2, <3>3, ClaimIsNoTransaction DEF LastIsSpent, Spent
  <2>4. QED
    BY <2>2, <2>3 DEF Command
<1>2. ASSUME NEW tx \in Transaction, NEW error \in Result, Refused(tx, error)
      PROVE  LastIsSpent'
  <2>1. tx.id \in DOMAIN transactions' /\ reply'.cmd = tx
    BY <1>2, RefusedFrame DEF TransactionsKept
  <2>2. tx.client \in ClientId
    BY DEF Transaction
  <2>3. tx.client \in DOMAIN accounts'
    BY <1>2, <2>2, UpsertAccountFacts DEF TypeOK, Refused, Reject
  <2>4. QED
    BY <2>1, <2>3, ClaimIsNoTransaction DEF LastIsSpent, Spent
<1>3. ASSUME NEW tx \in Transaction, NEW balance \in Balance, Accepted(tx, balance)
      PROVE  LastIsSpent'
  <2>1. tx.id \in DOMAIN transactions' /\ reply'.cmd = tx
    BY <1>3, AcceptedFrame DEF TransactionsKept
  <2>2. tx.client \in DOMAIN accounts'
    BY <1>3, AcceptedAccounts
  <2>3. QED
    BY <2>1, <2>2, ClaimIsNoTransaction DEF LastIsSpent, Spent
<1>4. ASSUME NEW claim \in Claim, NEW balance \in Balance, NEW to \in TransactionState,
             Settled(claim, balance, to)
      PROVE  LastIsSpent'
  <2>1. reply'.cmd = claim /\ transactions'[claim.tx].state = to
    BY <1>4, SettledFrame
  <2>2. <<claim.type, to>> \in
          {<<"Dispute", "Disputed">>, <<"Resolve", "Valid">>, <<"Chargeback", "Rejected">>}
    BY <1>4 DEF Settled
  <2>3. ~Due(claim)'
    BY <2>1, <2>2 DEF Due, StateOf
  <2>4. QED
    BY <2>1, <2>3, ClaimIsNoTransaction DEF LastIsSpent, Spent
<1>5. QED
  BY <1>1, <1>2, <1>3, <1>4, NextEffect DEF Effect

LEMMA SpentMovesNothing ==
  ASSUME TypeOK, LastIsSpent, Next
  PROVE  RedeliveryStep
<1>1. ASSUME NEW cmd \in Command, NEW result \in Result, Quiet(cmd, result),
             reply.cmd = cmd
      PROVE  UNCHANGED <<transactions, accounts>>
  <2>1. CASE cmd \in Transaction
    <3>1. cmd.client \in ClientId /\ cmd.client \in DOMAIN accounts
      BY <1>1, <2>1 DEF LastIsSpent, Spent, Transaction
    <3>2. UpsertAccount(cmd.client) = accounts
      BY <3>1, UpsertAccountFacts DEF TypeOK
    <3>3. QED
      BY <1>1, <2>1, <3>2 DEF Quiet
  <2>2. CASE cmd \in Claim
    BY <1>1, <2>2 DEF Quiet
  <2>3. QED
    BY <2>1, <2>2 DEF Command
<1>2. ASSUME NEW tx \in Transaction, tx.id \notin DOMAIN transactions
      PROVE  reply.cmd # tx
  BY <1>2 DEF LastIsSpent, Spent
<1>3. ASSUME NEW claim \in Claim, NEW balance, NEW to, Settled(claim, balance, to)
      PROVE  reply.cmd # claim
  BY <1>3 DEF LastIsSpent, Spent, Settled
<1>4. ASSUME NEW tx \in Transaction, NEW error \in Result, Refused(tx, error)
      PROVE  RedeliveryStep
  <2>1. reply'.cmd = tx /\ tx.id \notin DOMAIN transactions
    BY <1>4, RefusedFrame DEF TransactionsKept
  <2>2. QED
    BY <1>2, <2>1 DEF RedeliveryStep
<1>5. ASSUME NEW tx \in Transaction, NEW balance \in Balance, Accepted(tx, balance)
      PROVE  RedeliveryStep
  <2>1. reply'.cmd = tx /\ tx.id \notin DOMAIN transactions
    BY <1>5, AcceptedFrame DEF TransactionsKept
  <2>2. QED
    BY <1>2, <2>1 DEF RedeliveryStep
<1>6. ASSUME NEW claim \in Claim, NEW balance \in Balance, NEW to \in TransactionState,
             Settled(claim, balance, to)
      PROVE  RedeliveryStep
  <2>1. reply'.cmd = claim
    BY <1>6, SettledFrame
  <2>2. QED
    BY <1>3, <1>6, <2>1 DEF RedeliveryStep
<1>7. ASSUME NEW cmd \in Command, NEW result \in Result, Quiet(cmd, result)
      PROVE  RedeliveryStep
  BY <1>1, <1>7, QuietFrame DEF RedeliveryStep
<1>8. QED
  BY <1>4, <1>5, <1>6, <1>7, NextEffect DEF Effect

(* A command delivered twice in a row has the effect of one. *)
THEOREM RetriesAreHarmless == Spec => RedeliveryIdempotent
<1>1. Init => LastIsSpent
  BY DEF Init, LastIsSpent, Spent, NoCommand, Transaction, Claim
<1>2. TypeOK /\ LastIsSpent /\ [Next]_vars => LastIsSpent'
  <2>1. TypeOK /\ Next => LastIsSpent'
    BY NextSpends
  <2>2. LastIsSpent /\ UNCHANGED vars => LastIsSpent'
    BY DEF vars, LastIsSpent, Spent, Due, Admissible, StateOf, ClaimedTx, Coverable,
           OwnerOf, AccountOf, UpsertAccount, PolicyAllows, NewBalances
  <2>3. QED
    BY <2>1, <2>2
<1>3. TypeOK /\ LastIsSpent /\ [Next]_vars => [RedeliveryStep]_vars
  BY SpentMovesNothing
<1>4. QED
  BY <1>1, <1>2, <1>3, TypeCorrect, PTL DEF Spec, RedeliveryIdempotent

-----------------------------------------------------------------------------
(* What moves a total. *)

(* The accounts of a step that is not a settled claim keep their totals,   *)
(* except that of the client of an accepted transaction.                   *)
LEMMA KeptTotals ==
  ASSUME TypeOK, AccountsKept
  PROVE  \A client \in DOMAIN accounts :
           /\ Total(accounts'[client].balance) = Total(accounts[client].balance)
           /\ accounts'[client].locked = accounts[client].locked
BY DEF AccountsKept

(* A total is not greater than itself. *)
LEMMA TotalsAreCounts ==
  ASSUME TypeOK
  PROVE  \A client \in DOMAIN accounts :
           ~(Total(accounts[client].balance) > Total(accounts[client].balance))
<1> SUFFICES ASSUME NEW client \in DOMAIN accounts
             PROVE  ~(Total(accounts[client].balance) > Total(accounts[client].balance))
  OBVIOUS
<1>1. Total(accounts[client].balance) \in AssetCount
  BY DEF TypeOK, AreAccounts
<1>2. Total(accounts[client].balance) \in Int
  BY <1>1, MaxFractionsAssumption DEF AssetCount
<1>3. QED
  BY <1>2

(* A settled claim moves the total of its client by the sum of its two     *)
(* changes.                                                                *)
LEMMA SettledTotals ==
  ASSUME TypeOK, NEW claim \in Claim, NEW balance, NEW to \in TransactionState,
         Settled(claim, balance, to)
  PROVE  LET tx == transactions[claim.tx].tx IN
         /\ tx \in Transaction /\ tx.amount \in Nat
         /\ accounts[claim.client].locked = FALSE
         /\ Total(accounts[claim.client].balance) \in Int
         /\ Total(accounts'[claim.client].balance) =
              Total(accounts[claim.client].balance)
                + (IF to = "Rejected"
                   THEN IF tx.type = "Deposit" THEN 0 - tx.amount ELSE tx.amount
                   ELSE 0)
         /\ \A client \in DOMAIN accounts :
              client # claim.client => accounts'[client] = accounts[client]
<1> DEFINE tx == transactions[claim.tx].tx
           old == accounts[claim.client].balance
           new == accounts'[claim.client].balance
<1>1. /\ claim.tx \in DOMAIN transactions /\ claim.client \in DOMAIN accounts
      /\ \A client \in DOMAIN accounts :
           client # claim.client => accounts'[client] = accounts[client]
      /\ accounts[claim.client].locked = FALSE
  <2>1. /\ claim.tx \in DOMAIN transactions /\ claim.client \in DOMAIN accounts
        /\ ~accounts[claim.client].locked
        /\ \A client \in DOMAIN accounts :
             client # claim.client => accounts'[client] = accounts[client]
    BY SettledFrame
  <2>2. accounts[claim.client].locked \in BOOLEAN
    BY <2>1 DEF TypeOK, AreAccounts, MemAccount
  <2>3. QED
    BY <2>1, <2>2
<1>2. tx \in Transaction /\ tx.amount \in Nat
  <2>1. tx \in Transaction
    BY <1>1 DEF TypeOK, IsTable, TransactionWithState
  <2>2. QED
    BY <2>1, AmountFacts, MaxFractionsAssumption DEF AssetCount
<1>3. /\ new.held = old.held + HeldChange(tx, to)
      /\ new.available = old.available + AvailableChange(tx, to)
  <2>1. new = balance
    BY SettledAccounts
  <2>2. QED
    BY <2>1 DEF Settled
<1>4. old.held \in Int /\ old.available \in Int
  <2>1. old \in Balance
    BY <1>1 DEF TypeOK, AreAccounts, MemAccount
  <2>2. QED
    BY <2>1, MaxFractionsAssumption DEF Balance, AssetCount
<1> HIDE DEF tx, old, new
<1>5. /\ Total(old) \in Int
      /\ Total(new) = Total(old) + (HeldChange(tx, to) + AvailableChange(tx, to))
  <2>1. HeldChange(tx, to) \in Int /\ AvailableChange(tx, to) \in Int
    BY <1>2 DEF HeldChange, AvailableChange
  <2>2. QED
    BY <1>3, <1>4, <2>1 DEF Total
<1>6. HeldChange(tx, to) + AvailableChange(tx, to) =
        IF to = "Rejected" THEN IF tx.type = "Deposit" THEN 0 - tx.amount ELSE tx.amount
        ELSE 0
  <2>1. to = "Valid" \/ to = "Disputed" \/ to = "Rejected"
    BY DEF TransactionState
  <2>2. QED
    BY <1>2, <2>1 DEF HeldChange, AvailableChange
<1>7. QED
  BY <1>1, <1>2, <1>5, <1>6 DEF tx, old, new

LEMMA NextDisputes ==
  ASSUME TypeOK, Next
  PROVE  DisputeStep
<1>1. ASSUME NEW cmd \in Command, NEW result \in Result, Quiet(cmd, result)
      PROVE  DisputeStep
  BY <1>1, QuietFrame, KeptTotals DEF DisputeStep
<1>2. ASSUME NEW tx \in Transaction, reply'.cmd = tx
      PROVE  DisputeStep
  BY <1>2 DEF DisputeStep, Transaction
<1>3. ASSUME NEW claim \in Claim, NEW balance \in Balance, NEW to \in TransactionState,
             Settled(claim, balance, to)
      PROVE  DisputeStep
  <2>1. CASE to = "Rejected"
    <3>1. claim.type = "Chargeback" /\ reply'.cmd = claim
      BY <1>3, <2>1, SettledFrame DEF Settled
    <3>2. QED
      BY <3>1 DEF DisputeStep
  <2>2. CASE to # "Rejected"
    <3>1. accounts'[claim.client].locked = FALSE
      <4>1. accounts'[claim.client].locked = (to = "Rejected")
        BY <1>3, SettledAccounts
      <4>2. QED
        BY <2>2, <4>1
    <3> DEFINE old == Total(accounts[claim.client].balance)
               new == Total(accounts'[claim.client].balance)
    <3>2. /\ old \in Int /\ new = old + 0
          /\ accounts[claim.client].locked = FALSE
          /\ \A client \in DOMAIN accounts :
               client # claim.client => accounts'[client] = accounts[client]
      BY <1>3, <2>2, SettledTotals
    <3> HIDE DEF old, new
    <3>3. new = old
      BY <3>2
    <3>4. QED
      BY <3>1, <3>2, <3>3 DEF DisputeStep, old, new
  <2>3. QED
    BY <2>1, <2>2
<1>4. QED
  BY <1>1, <1>2, <1>3, NextEffect, RefusedFrame, AcceptedFrame DEF Effect

(* However often disputes and resolutions come, no total changes and no    *)
(* account is locked.                                                      *)
THEOREM DisputesAreFree == Spec => DisputesCostNothing
<1>1. TypeOK /\ [Next]_vars => [DisputeStep]_vars
  BY NextDisputes
<1>2. QED
  BY <1>1, TypeCorrect, PTL DEF Spec, DisputesCostNothing

-----------------------------------------------------------------------------
(* The policy that denies the disputes of withdrawals. *)

(* No withdrawal is ever disputed. *)
WithdrawalsStand ==
  WithdrawalDisputePolicy = "Deny" =>
    \A id \in DOMAIN transactions :
      transactions[id].tx.type = "Withdrawal" => transactions[id].state # "Disputed"

LEMMA NextStands ==
  ASSUME TypeOK, WithdrawalsStand, Next
  PROVE  WithdrawalsStand'
<1> SUFFICES ASSUME WithdrawalDisputePolicy = "Deny"
             PROVE  \A id \in DOMAIN transactions' :
                      transactions'[id].tx.type = "Withdrawal" =>
                        transactions'[id].state # "Disputed"
  BY DEF WithdrawalsStand
<1>1. \A id \in DOMAIN transactions :
        transactions[id].tx.type = "Withdrawal" => transactions[id].state # "Disputed"
  BY DEF WithdrawalsStand
<1>2. ASSUME NEW one, NEW state, TransactionsKept(one, state), state # "Disputed"
      PROVE  \A id \in DOMAIN transactions' :
               transactions'[id].tx.type = "Withdrawal" =>
                 transactions'[id].state # "Disputed"
  BY <1>1, <1>2 DEF TransactionsKept
<1>3. ASSUME NEW claim \in Claim, NEW balance \in Balance, NEW to \in TransactionState,
             Settled(claim, balance, to)
      PROVE  \A id \in DOMAIN transactions' :
               transactions'[id].tx.type = "Withdrawal" =>
                 transactions'[id].state # "Disputed"
  <2>1. /\ DOMAIN transactions' = DOMAIN transactions
        /\ transactions'[claim.tx].tx = transactions[claim.tx].tx
        /\ transactions'[claim.tx].state = to
        /\ \A id \in DOMAIN transactions :
             id # claim.tx => transactions'[id] = transactions[id]
    BY <1>3, SettledFrame
  <2>2. to = "Disputed" => transactions[claim.tx].tx.type # "Withdrawal"
    <3>1. to = "Disputed" => claim.type = "Dispute" /\ Due(claim)
      BY <1>3 DEF Settled
    <3>2. QED
      BY <3>1 DEF Due, PolicyAllows, ClaimedTx
  <2>3. QED
    BY <1>1, <2>1, <2>2
<1>4. ASSUME NEW cmd \in Command, NEW result \in Result, Quiet(cmd, result)
      PROVE  transactions' = transactions
  BY <1>4, QuietFrame
<1>5. QED
  BY <1>1, <1>2, <1>3, <1>4, NextEffect, RefusedFrame, AcceptedFrame DEF Effect

LEMMA NextPayIn ==
  ASSUME TypeOK, WithdrawalsStand, Next, WithdrawalDisputePolicy = "Deny"
  PROVE  PayInStep
<1>1. ASSUME NEW cmd \in Command, NEW result \in Result, Quiet(cmd, result)
      PROVE  PayInStep
  <2>1. AccountsKept
    BY <1>1, QuietFrame
  <2>2. QED
    BY <2>1, TotalsAreCounts DEF PayInStep, AccountsKept
<1>2. ASSUME NEW tx \in Transaction, NEW error \in Result, Refused(tx, error)
      PROVE  PayInStep
  <2>1. AccountsKept
    BY <1>2, RefusedFrame
  <2>2. QED
    BY <2>1, TotalsAreCounts DEF PayInStep, AccountsKept
<1>3. ASSUME NEW tx \in Transaction, NEW balance \in Balance, Accepted(tx, balance)
      PROVE  PayInStep
  <2>1. /\ reply'.cmd = tx
        /\ \A client \in DOMAIN accounts :
             client # tx.client => accounts'[client] = accounts[client]
    BY <1>3, AcceptedFrame
  <2>2. CASE tx.type = "Deposit"
    BY <2>1, <2>2 DEF PayInStep
  <2>3. CASE tx.type # "Deposit"
    <3>1. ASSUME tx.client \in DOMAIN accounts
          PROVE  ~(Total(accounts'[tx.client].balance) > Total(accounts[tx.client].balance))
      <4> DEFINE old == accounts[tx.client].balance
      <4>1. old = AccountOf(tx.client).balance /\ Sound(old)
        BY <3>1, UpsertAccountFacts DEF TypeOK, Transaction
      <4>2. /\ accounts'[tx.client].balance = balance
            /\ balance.held = old.held /\ balance.available = old.available - tx.amount
        BY <1>3, <2>3, <4>1, AcceptedAccounts DEF Accepted
      <4>3. old.held \in Int /\ old.available \in Int /\ tx.amount \in Nat
        BY <4>1, AmountFacts, MaxFractionsAssumption DEF Sound, Balance, AssetCount
      <4> HIDE DEF old
      <4>4. ~(Total(balance) > Total(old))
        BY <4>2, <4>3 DEF Total
      <4>5. QED
        BY <4>2, <4>4 DEF old
    <3>2. QED
      BY <2>1, <3>1, TotalsAreCounts DEF PayInStep
  <2>4. QED
    BY <2>2, <2>3
<1>4. ASSUME NEW claim \in Claim, NEW balance \in Balance, NEW to \in TransactionState,
             Settled(claim, balance, to)
      PROVE  PayInStep
  <2> DEFINE tx == transactions[claim.tx].tx
             old == Total(accounts[claim.client].balance)
             new == Total(accounts'[claim.client].balance)
  <2>1. /\ tx \in Transaction /\ tx.amount \in Nat /\ old \in Int
        /\ new = old + (IF to = "Rejected"
                        THEN IF tx.type = "Deposit" THEN 0 - tx.amount ELSE tx.amount
                        ELSE 0)
        /\ \A client \in DOMAIN accounts :
             client # claim.client => accounts'[client] = accounts[client]
    BY <1>4, SettledTotals
  <2>2. to = "Rejected" => tx.type = "Deposit"
    <3>1. /\ claim.tx \in DOMAIN transactions
          /\ to = "Rejected" => transactions[claim.tx].state = "Disputed"
      BY <1>4 DEF Settled
    <3>2. tx.type \in {"Deposit", "Withdrawal"}
      BY <2>1 DEF Transaction
    <3>3. QED
      BY <3>1, <3>2 DEF WithdrawalsStand
  <2> HIDE DEF tx, old, new
  <2>3. ~(new > old)
    BY <2>1, <2>2
  <2>4. QED
    BY <2>1, <2>3, TotalsAreCounts DEF PayInStep, old, new
<1>5. QED
  BY <1>1, <1>2, <1>3, <1>4, NextEffect DEF Effect

(* With --deny-withdrawal-dispute only a deposit makes an account richer.  *)
THEOREM DenyingIsSafe ==
  ASSUME WithdrawalDisputePolicy = "Deny"
  PROVE  Spec => OnlyDepositsPayIn
<1>1. Init => WithdrawalsStand
  BY DEF Init, WithdrawalsStand
<1>2. TypeOK /\ WithdrawalsStand /\ [Next]_vars => WithdrawalsStand'
  <2>1. TypeOK /\ WithdrawalsStand /\ Next => WithdrawalsStand'
    BY NextStands
  <2>2. WithdrawalsStand /\ UNCHANGED vars => WithdrawalsStand'
    BY DEF vars, WithdrawalsStand
  <2>3. QED
    BY <2>1, <2>2
<1>3. TypeOK /\ WithdrawalsStand /\ [Next]_vars => [PayInStep]_vars
  BY NextPayIn
<1>4. QED
  BY <1>1, <1>2, <1>3, TypeCorrect, PTL DEF Spec, OnlyDepositsPayIn

-----------------------------------------------------------------------------
(* When a balance update fails. *)

(* The amount of a disputed transaction is part of what is held. *)
LEMMA DisputedIsHeld ==
  ASSUME NEW txs, IsTable(txs), NEW one \in DOMAIN txs, txs[one].state = "Disputed"
  PROVE  txs[one].tx.amount <= HeldAssets(txs, txs[one].tx.client)
<1> DEFINE tx == txs[one].tx
           held == InState(txs, tx.client, {"Deposit", "Withdrawal"}, {"Disputed"})
           ids == held \ {one}
<1>1. tx.type \in {"Deposit", "Withdrawal"}
  BY DEF IsTable, TransactionWithState, Transaction
<1>2. held = ids \cup {one} /\ ids \in SUBSET DOMAIN txs /\ one \notin ids
  BY <1>1 DEF InState
<1>3. HeldAssets(txs, tx.client) = SumOfAmounts(txs, held)
  BY DEF HeldAssets
<1> HIDE DEF held, ids
<1>4. /\ SumOfAmounts(txs, ids \cup {one}) = SumOfAmounts(txs, ids) + txs[one].tx.amount
      /\ SumOfAmounts(txs, ids) \in Nat /\ txs[one].tx.amount \in Nat
  BY <1>2, OneMoreInSum
<1>5. QED
  BY <1>2, <1>3, <1>4

(* A claim that is due cannot be met only if it is the chargeback of a     *)
(* withdrawal that does not fit beside what the client owns.               *)
LEMMA UnmetClaim ==
  ASSUME TypeOK, BalanceIsLedger, NEW claim \in Claim,
         Due(claim), NewBalances(claim) = {}
  PROVE  LET tx == transactions[claim.tx].tx IN
         /\ claim.type = "Chargeback"
         /\ tx.type = "Withdrawal"
         /\ OwnedAssets(transactions, tx.client) + tx.amount > MaxFractions
<1> DEFINE tx == transactions[claim.tx].tx
           old == OwnerOf(claim).balance
<1>1. claim.tx \in DOMAIN transactions
  BY DEF Due, Admissible
<1>2. /\ tx = ClaimedTx(claim) /\ tx \in Transaction /\ tx.amount \in AssetCount
      /\ Sound(old)
  BY <1>1, OwnerFacts, AmountFacts DEF ClaimedTx
<1>3. /\ old.held = HeldAssets(transactions, tx.client)
      /\ Total(old) = OwnedAssets(transactions, tx.client)
  BY <1>1, <1>2, OwnerFacts DEF BalanceIsLedger
<1>4. /\ old.available \in Int /\ old.held \in Int /\ tx.amount \in Int /\ Total(old) \in Int
  BY <1>2, MaxFractionsAssumption DEF Sound, Balance, AssetCount
<1>5. claim.type # "Dispute"
  <2>1. ASSUME claim.type = "Dispute"
        PROVE  old.available >= tx.amount /\ MoveAvailableToHeld(old, tx.amount) = {}
    BY <1>2, <2>1 DEF Due, Coverable, NewBalances
  <2>2. claim.type = "Dispute" => tx.amount <= old.available
    BY <1>4, <2>1
  <2>3. QED
    BY <1>2, <2>1, <2>2, MutatorsFit
<1>6. tx.amount <= old.held
  <2>1. transactions[claim.tx].state = "Disputed"
    BY <1>5 DEF Due, StateOf
  <2>2. IsTable(transactions)
    BY DEF TypeOK
  <2>3. QED
    BY <1>1, <1>3, <2>1, <2>2, DisputedIsHeld
<1>7. claim.type # "Resolve"
  <2>1. MoveHeldToAvailable(old, tx.amount) # {}
    BY <1>2, <1>6, MutatorsFit
  <2>2. QED
    BY <1>2, <2>1 DEF NewBalances
<1>8. claim.type = "Chargeback" /\ Revert(old, tx) = {}
  BY <1>2, <1>5, <1>7 DEF Claim, NewBalances
<1> HIDE DEF old, tx
<1>9. tx.type # "Deposit" /\ ~(Total(old) + tx.amount <= MaxFractions)
  BY <1>2, <1>6, <1>8, RevertFits
<1>10. tx.type = "Withdrawal"
  BY <1>2, <1>9 DEF Transaction
<1>11. Total(old) + tx.amount > MaxFractions
  BY <1>4, <1>9, MaxFractionsAssumption
<1>12. QED
  BY <1>3, <1>8, <1>10, <1>11 DEF tx

LEMMA NextOverflow ==
  ASSUME TypeOK, BalanceIsLedger, Next
  PROVE  OverflowStep
<1>1. ASSUME NEW cmd \in Command, NEW result \in Result, Quiet(cmd, result)
      PROVE  OverflowStep
  <2> SUFFICES ASSUME reply'.result = "BalanceUpdateError" PROVE OverflowStep
    BY DEF OverflowStep
  <2>1. reply'.cmd = cmd /\ reply'.result = result
    BY <1>1, ReturnTyped DEF Quiet
  <2>2. cmd \notin Transaction /\ cmd \in Claim
    BY <1>1, <2>1 DEF Quiet, Command
  <2>3. Due(cmd) /\ NewBalances(cmd) = {}
    BY <1>1, <2>1, <2>2 DEF Quiet
  <2>4. /\ cmd.type = "Chargeback"
        /\ transactions[cmd.tx].tx.type = "Withdrawal"
        /\ OwnedAssets(transactions, transactions[cmd.tx].tx.client)
             + transactions[cmd.tx].tx.amount > MaxFractions
    BY <2>2, <2>3, UnmetClaim
  <2>5. QED
    BY <2>1, <2>4 DEF OverflowStep
<1>2. ASSUME NEW tx \in Transaction, NEW error \in Result, Refused(tx, error)
      PROVE  OverflowStep
  <2> SUFFICES ASSUME reply'.result = "BalanceUpdateError" PROVE OverflowStep
    BY DEF OverflowStep
  <2>1. tx \in Command /\ tx.client \in ClientId
    BY DEF Command, Transaction
  <2>2. reply'.cmd = tx /\ error = "BalanceUpdateError"
    BY <1>2, <2>1, ReturnTyped DEF Refused, Reject
  <2>3. tx.type = "Deposit" /\ Total(AccountOf(tx.client).balance) + tx.amount > MaxFractions
    BY <1>2, <2>2 DEF Refused, Unfit
  <2>4. Total(AccountOf(tx.client).balance) = OwnedAssets(transactions, tx.client)
    BY <2>1, AccountOfAgrees DEF Agrees
  <2>5. QED
    BY <2>2, <2>3, <2>4 DEF OverflowStep
<1>3. ASSUME reply'.result = "Ok"
      PROVE  OverflowStep
  BY <1>3 DEF OverflowStep
<1>4. QED
  BY <1>1, <1>2, <1>3, NextEffect, AcceptedFrame, SettledFrame DEF Effect

(* Only a deposit, or the refund of a withdrawal, that does not fit makes  *)
(* a balance update fail: every other error path of the updates is dead.   *)
THEOREM OnlyFullAccountsOverflow == Spec => OverflowOnlyWhenFull
<1>1. TypeOK /\ BalanceIsLedger /\ [Next]_vars => [OverflowStep]_vars
  BY NextOverflow
<1>2. QED
  BY <1>1, TypeCorrect, BalancesAreSums, PTL DEF Spec, OverflowOnlyWhenFull

-----------------------------------------------------------------------------
(* The service implements the ledger. *)

(* The ledger's operators on tables are those of the service. *)
LEMMA SameOperators ==
  /\ TheLedger!Transaction = Transaction
  /\ \A map, key, value : TheLedger!Put(map, key, value) = Put(map, key, value)
  /\ \A txs, client : TheLedger!HeldAssets(txs, client) = HeldAssets(txs, client)
  /\ \A txs, client : TheLedger!OwnedAssets(txs, client) = OwnedAssets(txs, client)
<1>1. TheLedger!Transaction = Transaction
  BY DEF TheLedger!Transaction, Transaction
<1>2. \A map, key, value : TheLedger!Put(map, key, value) = Put(map, key, value)
  BY DEF TheLedger!Put, Put
<1>3. ASSUME NEW f, NEW S
      PROVE  TheLedger!SumFunctionOnSet(f, S) = SumFunctionOnSet(f, S)
  BY DEF TheLedger!SumFunctionOnSet, TheLedger!FoldFunctionOnSet, TheLedger!MapThenFoldSet,
         SumFunctionOnSet, FoldFunctionOnSet, MapThenFoldSet
<1>4. \A txs, ids : TheLedger!SumOfAmounts(txs, ids) = SumOfAmounts(txs, ids)
  BY <1>3 DEF TheLedger!SumOfAmounts, SumOfAmounts
<1>5. \A txs, client, types, states :
        TheLedger!InState(txs, client, types, states) = InState(txs, client, types, states)
  BY DEF TheLedger!InState, InState
<1>6. \A txs, client :
        /\ TheLedger!HeldAssets(txs, client) = HeldAssets(txs, client)
        /\ TheLedger!Deposited(txs, client) = Deposited(txs, client)
        /\ TheLedger!Withdrawn(txs, client) = Withdrawn(txs, client)
  BY <1>4, <1>5 DEF TheLedger!HeldAssets, TheLedger!Deposited, TheLedger!Withdrawn,
                    HeldAssets, Deposited, Withdrawn
<1>7. QED
  BY <1>1, <1>2, <1>6 DEF TheLedger!OwnedAssets, OwnedAssets

(* The balance of a client, once it is the sum over the table, shows that  *)
(* the client is solvent.                                                  *)
LEMMA SoundIsSolvent ==
  ASSUME NEW balance, Sound(balance), NEW txs, NEW client, Agrees(balance, txs, client)
  PROVE  TheLedger!Solvent(txs, client)
<1>1. balance.available \in Nat /\ balance.held \in Nat /\ Total(balance) <= MaxFractions
  BY MaxFractionsAssumption DEF Sound, Balance, AssetCount
<1>2. balance.held <= Total(balance)
  BY <1>1 DEF Total
<1>3. QED
  BY <1>1, <1>2, SameOperators DEF Agrees, TheLedger!Solvent

(* New accounts are not locked. *)
LEMMA KeptLocks ==
  ASSUME TypeOK, AccountsKept
  PROVE  LockedClients' = LockedClients
BY DEF AccountsKept, LockedClients, NewAccount

LEMMA RefusedImplements ==
  ASSUME TypeOK, BalanceIsLedger, NEW tx \in Transaction, NEW error \in Result,
         Refused(tx, error)
  PROVE  TheLedger!Reject(tx)
<1> DEFINE new == TheLedger!With(tx, "Valid")
           old == AccountOf(tx.client).balance
<1>1. tx.client \in ClientId /\ tx.amount \in Nat /\ tx.amount \in Int
  BY AmountFacts, MaxFractionsAssumption DEF Transaction, AssetCount
<1>2. tx.id \notin DOMAIN transactions /\ transactions' = TheLedger!With(tx, "Rejected")
  BY SameOperators DEF Refused, IsNew, Reject, Insert, TheLedger!With
<1>3. LockedClients' = LockedClients
  BY RefusedFrame, KeptLocks
<1>4. ASSUME ~AccountOf(tx.client).locked
      PROVE  ~TheLedger!Solvent(new, tx.client)
  <2>1. Agrees(old, transactions, tx.client) /\ Sound(old)
    BY <1>1, AccountOfAgrees, UpsertAccountFacts DEF TypeOK
  <2>2. /\ DOMAIN new = DOMAIN transactions \cup {tx.id}
        /\ new[tx.id] = [tx |-> tx, state |-> "Valid"]
        /\ \A id \in DOMAIN transactions : new[id] = transactions[id]
    BY <1>2, SameOperators DEF TheLedger!With, Put
  <2> HIDE DEF new
  <2>3. new[tx.id].tx = tx /\ new[tx.id].state = "Valid"
    BY <2>2
  <2>4. IsTable(transactions) /\ IsTable(new)
    <3>1. IsTable(transactions)
      BY DEF TypeOK
    <3>2. tx.id \in TransactionId /\ [tx |-> tx, state |-> "Valid"] \in TransactionWithState
      BY DEF Transaction, TransactionWithState, TransactionState
    <3>3. QED
      BY <2>2, <2>3, <3>1, <3>2 DEF IsTable
  <2>5. /\ HeldAssets(new, tx.client) = HeldAssets(transactions, tx.client)
        /\ OwnedAssets(new, tx.client) = OwnedAssets(transactions, tx.client)
             + (IF tx.type = "Deposit" THEN tx.amount ELSE 0 - tx.amount)
    BY <1>2, <2>2, <2>3, <2>4, AcceptedSums
  <2>6. \/ tx.type = "Deposit" /\ Total(old) + tx.amount > MaxFractions
        \/ tx.type = "Withdrawal" /\ old.available < tx.amount
    BY <1>4 DEF Refused, Unfit
  <2>7. old.held \in Int /\ old.available \in Int /\ Total(old) = old.available + old.held
    BY <2>1, MaxFractionsAssumption DEF Sound, Balance, AssetCount, Total
  <2> HIDE DEF old
  <2>8. CASE tx.type = "Deposit" /\ Total(old) + tx.amount > MaxFractions
    <3>1. OwnedAssets(new, tx.client) > MaxFractions
      BY <2>1, <2>5, <2>8 DEF Agrees
    <3>2. OwnedAssets(new, tx.client) \in Int
      BY <2>4, BalancesAreNat
    <3>3. ~(OwnedAssets(new, tx.client) <= MaxFractions)
      BY <3>1, <3>2, MaxFractionsAssumption
    <3>4. QED
      BY <3>3, SameOperators DEF TheLedger!Solvent
  <2>9. CASE tx.type = "Withdrawal" /\ old.available < tx.amount
    <3>1. /\ HeldAssets(new, tx.client) = old.held
          /\ OwnedAssets(new, tx.client) = Total(old) + (0 - tx.amount)
      BY <2>1, <2>5, <2>9 DEF Agrees
    <3>2. ~(HeldAssets(new, tx.client) <= OwnedAssets(new, tx.client))
      BY <1>1, <2>7, <2>9, <3>1
    <3>3. QED
      BY <3>2, SameOperators DEF TheLedger!Solvent
  <2>10. QED
    BY <2>6, <2>8, <2>9
<1>5. AccountOf(tx.client).locked => tx.client \in LockedClients
  <2>1. ~NewAccount(tx.client).locked
    BY DEF NewAccount
  <2>2. QED
    BY <1>1, <2>1, UpsertAccountFacts DEF TypeOK, LockedClients
<1>6. QED
  BY <1>2, <1>3, <1>4, <1>5 DEF TheLedger!Reject

LEMMA AcceptedImplements ==
  ASSUME TypeOK, BalanceIsLedger, NEW tx \in Transaction, NEW balance,
         Accepted(tx, balance)
  PROVE  TheLedger!Accept(tx)
<1>1. tx.id \notin DOMAIN transactions /\ transactions' = TheLedger!With(tx, "Valid")
  BY SameOperators DEF Accepted, IsNew, Insert, TheLedger!With
<1>2. tx.client \notin LockedClients
  <2>1. \A client \in DOMAIN accounts : accounts[client].locked => client # tx.client
    BY AcceptedFrame
  <2>2. QED
    BY <2>1 DEF LockedClients
<1>3. LockedClients' = LockedClients
  BY <1>2, AcceptedFrame, AcceptedAccounts DEF LockedClients
<1>4. TheLedger!Solvent(transactions', tx.client)
  <2>1. BalanceIsLedger'
    BY AcceptedAgrees
  <2>2. tx.client \in DOMAIN accounts' /\ accounts'[tx.client].balance = balance
    BY AcceptedAccounts
  <2>3. Agrees(balance, transactions', tx.client)
    BY <2>1, <2>2 DEF BalanceIsLedger, Agrees
  <2>4. QED
    BY <2>3, SoundIsSolvent DEF Accepted
<1>5. QED
  BY <1>1, <1>2, <1>3, <1>4 DEF TheLedger!Accept

LEMMA SettledImplements ==
  ASSUME TypeOK, BalanceIsLedger, NEW claim \in Claim, NEW balance,
         NEW to \in TransactionState, Settled(claim, balance, to)
  PROVE  /\ claim.tx \in DOMAIN transactions
         /\ \/ TheLedger!Dispute(claim.tx)
            \/ TheLedger!Resolve(claim.tx)
            \/ TheLedger!Chargeback(claim.tx)
<1> DEFINE from == transactions[claim.tx].state
<1>1. /\ claim.tx \in DOMAIN transactions
      /\ transactions[claim.tx].tx.client = claim.client
      /\ claim.client \in DOMAIN accounts
      /\ ~accounts[claim.client].locked
      /\ accounts'[claim.client].locked = (to = "Rejected")
      /\ \A client \in DOMAIN accounts :
           client # claim.client => accounts'[client] = accounts[client]
      /\ <<from, to>> \in
           {<<"Valid", "Disputed">>, <<"Disputed", "Valid">>, <<"Disputed", "Rejected">>}
  BY SettledFrame
<1>2. /\ DOMAIN accounts' = DOMAIN accounts
      /\ accounts'[claim.client].balance = balance
  BY SettledAccounts
<1>3. transactions' = [transactions EXCEPT ![claim.tx].state = to] /\ Sound(balance)
  BY DEF Settled
<1>4. TheLedger!Owner(claim.tx) = claim.client
  BY <1>1 DEF TheLedger!Owner
<1>5. TheLedger!Solvent(transactions', claim.client)
  <2>1. BalanceIsLedger'
    BY SettledAgrees
  <2>2. Agrees(balance, transactions', claim.client)
    BY <1>1, <1>2, <2>1 DEF BalanceIsLedger, Agrees
  <2>3. QED
    BY <1>3, <2>2, SoundIsSolvent
<1>6. claim.client \notin LockedClients
  BY <1>1 DEF LockedClients
<1>7. TheLedger!Become(claim.tx, from, to)
  BY <1>3, <1>4, <1>5, <1>6 DEF TheLedger!Become
<1>8. CASE to = "Rejected"
  <2>1. LockedClients' = LockedClients \cup {claim.client}
    BY <1>1, <1>2, <1>8 DEF LockedClients
  <2>2. from = "Disputed"
    BY <1>1, <1>8
  <2>3. QED
    BY <1>1, <1>4, <1>7, <1>8, <2>1, <2>2 DEF TheLedger!Chargeback
<1>9. CASE to # "Rejected"
  <2>1. LockedClients' = LockedClients
    BY <1>1, <1>2, <1>9 DEF LockedClients
  <2>2. \/ from = "Valid" /\ to = "Disputed"
        \/ from = "Disputed" /\ to = "Valid"
    BY <1>1, <1>9
  <2>3. QED
    BY <1>1, <1>7, <2>1, <2>2 DEF TheLedger!Dispute, TheLedger!Resolve
<1>10. QED
  BY <1>1, <1>8, <1>9

LEMMA NextImplements ==
  ASSUME TypeOK, BalanceIsLedger, [Next]_vars
  PROVE  [TheLedger!Next]_(TheLedger!ledger)
<1>1. ASSUME NEW cmd \in Command, NEW result \in Result, Quiet(cmd, result)
      PROVE  UNCHANGED TheLedger!ledger
  BY <1>1, QuietFrame, KeptLocks DEF TheLedger!ledger
<1>2. ASSUME UNCHANGED vars
      PROVE  UNCHANGED TheLedger!ledger
  BY <1>2 DEF TheLedger!ledger, vars, LockedClients
<1>3. QED
  BY <1>1, <1>2, NextEffect, RefusedImplements, AcceptedImplements, SettledImplements,
     SameOperators DEF Effect, TheLedger!Next

(* The service implements the ledger: it accepts exactly the transactions  *)
(* that leave their client solvent by the sums over the table, and locks a *)
(* client with the chargeback of one of its transactions only.             *)
THEOREM ServiceImplementsLedger == Spec => ImplementsLedger
<1>1. Init => TheLedger!Init
  BY DEF Init, TheLedger!Init, LockedClients
<1>2. TypeOK /\ BalanceIsLedger /\ [Next]_vars => [TheLedger!Next]_(TheLedger!ledger)
  BY NextImplements
<1>3. QED
  BY <1>1, <1>2, TypeCorrect, BalancesAreSums, PTL
     DEF Spec, ImplementsLedger, TheLedger!Spec
=============================================================================
