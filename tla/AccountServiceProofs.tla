------------------------ MODULE AccountServiceProofs ------------------------
(***************************************************************************)
(* The effects of the commands of the account service, its types, and what *)
(* a command may never do; for every set of clients, finite set of         *)
(* transaction ids, set of amounts, largest count and policy.              *)
(***************************************************************************)
EXTENDS AccountService, SumTheorems

-----------------------------------------------------------------------------
(* Balances. *)

Sound(balance) == balance \in Balance /\ Total(balance) \in AssetCount

(* Update stores what it is given, if the total fits. *)
LEMMA UpdateSound ==
  ASSUME NEW available \in AssetCount, NEW held \in AssetCount,
         NEW balance \in Update(available, held)
  PROVE  /\ Sound(balance)
         /\ balance.available = available
         /\ balance.held = held
BY MaxFractionsAssumption
   DEF Sound, Update, CheckedAdd, AssetCount, Balance, Total

(* Each mutator changes the balance by the amount, within the bounds. *)
LEMMA MutatorsSound ==
  ASSUME NEW balance, Sound(balance), NEW amount \in AssetCount
  PROVE  /\ \A b \in IncAvailable(balance, amount) :
              /\ Sound(b)
              /\ b.available = balance.available + amount /\ b.held = balance.held
         /\ \A b \in DecAvailable(balance, amount) :
              /\ Sound(b)
              /\ b.available = balance.available - amount /\ b.held = balance.held
         /\ \A b \in MoveAvailableToHeld(balance, amount) :
              /\ Sound(b)
              /\ b.available = balance.available - amount
              /\ b.held = balance.held + amount
         /\ \A b \in MoveHeldToAvailable(balance, amount) :
              /\ Sound(b)
              /\ b.available = balance.available + amount
              /\ b.held = balance.held - amount
<1>1. balance.available \in AssetCount /\ balance.held \in AssetCount
  BY DEF Sound, Balance
<1>2. ASSUME NEW a \in Int, NEW b \in Int, NEW c
      PROVE  /\ c \in CheckedAdd(a, b) => c \in AssetCount /\ c = a + b
             /\ c \in CheckedSub(a, b) => c \in AssetCount /\ c = a - b
  BY DEF CheckedAdd, CheckedSub
<1>3. amount \in Int /\ balance.available \in Int /\ balance.held \in Int
  BY <1>1 DEF AssetCount
<1>4. QED
  BY <1>1, <1>2, <1>3, UpdateSound
     DEF IncAvailable, DecAvailable, MoveAvailableToHeld, MoveHeldToAvailable

(* A chargeback takes the amount of a deposit out of the held assets, and  *)
(* pays that of a withdrawal twice into the available ones: released, and  *)
(* refunded.                                                               *)
LEMMA RevertSound ==
  ASSUME NEW balance, Sound(balance), NEW tx \in Transaction,
         NEW b \in Revert(balance, tx)
  PROVE  /\ Sound(b)
         /\ b.held = balance.held - tx.amount
         /\ b.available = IF tx.type = "Deposit" THEN balance.available
                          ELSE balance.available + tx.amount + tx.amount
<1>1. /\ balance.available \in AssetCount /\ balance.held \in AssetCount
      /\ tx.amount \in AssetCount
  BY AmountsAssumption DEF Sound, Balance, Transaction
<1>2. ASSUME NEW x \in Int, NEW y \in Int, NEW c
      PROVE  /\ c \in CheckedAdd(x, y) => c \in AssetCount /\ c = x + y
             /\ c \in CheckedSub(x, y) => c \in AssetCount /\ c = x - y
  BY DEF CheckedAdd, CheckedSub
<1>3. AssetCount \subseteq Int
  BY DEF AssetCount
<1>4. CASE tx.type = "Deposit"
  BY <1>1, <1>2, <1>3, <1>4, UpdateSound DEF Revert
<1>5. CASE tx.type # "Deposit"
  <2>1. PICK held, released, refunded :
          /\ held \in CheckedSub(balance.held, tx.amount)
          /\ released \in CheckedAdd(balance.available, tx.amount)
          /\ refunded \in CheckedAdd(released, tx.amount)
          /\ b \in Update(refunded, held)
    BY <1>5 DEF Revert
  <2>2. /\ held \in AssetCount /\ held = balance.held - tx.amount
        /\ released \in AssetCount /\ released = balance.available + tx.amount
    BY <1>1, <1>2, <1>3, <2>1
  <2>3. refunded \in AssetCount /\ refunded = released + tx.amount
    BY <1>1, <1>2, <1>3, <2>1, <2>2
  <2>4. QED
    BY <1>5, <2>1, <2>2, <2>3, UpdateSound
<1>6. QED
  BY <1>4, <1>5

(* Update succeeds whenever the total fits. *)
LEMMA UpdateFits ==
  ASSUME NEW available \in AssetCount, NEW held \in AssetCount,
         available + held <= MaxFractions
  PROVE  Update(available, held) # {}
<1>1. available + held \in AssetCount
  BY MaxFractionsAssumption DEF AssetCount
<1>2. available + held \in CheckedAdd(available, held)
  BY <1>1 DEF CheckedAdd
<1>3. [available |-> available, held |-> held] \in Update(available, held)
  BY <1>2 DEF Update
<1>4. QED
  BY <1>3

(* When each mutator succeeds: moving assets within an account can only    *)
(* fail for want of the assets, and never by an overflow.                  *)
LEMMA MutatorsFit ==
  ASSUME NEW balance, Sound(balance), NEW amount \in AssetCount
  PROVE  /\ Total(balance) + amount <= MaxFractions => IncAvailable(balance, amount) # {}
         /\ amount <= balance.available => DecAvailable(balance, amount) # {}
         /\ amount <= balance.available => MoveAvailableToHeld(balance, amount) # {}
         /\ amount <= balance.held => MoveHeldToAvailable(balance, amount) # {}
<1> DEFINE a == balance.available
           h == balance.held
<1>1. /\ a \in AssetCount /\ h \in AssetCount
      /\ a \in Nat /\ h \in Nat /\ amount \in Nat /\ a + h <= MaxFractions
      /\ Total(balance) = a + h
  BY MaxFractionsAssumption DEF Sound, Balance, AssetCount, Total
<1> HIDE DEF a, h
<1>2. ASSUME NEW x \in Int, NEW y \in Int, 0 <= x + y, x + y <= MaxFractions
      PROVE  x + y \in AssetCount /\ x + y \in CheckedAdd(x, y)
  BY <1>2, MaxFractionsAssumption DEF AssetCount, CheckedAdd
<1>3. ASSUME NEW x \in Int, NEW y \in Int, 0 <= x - y, x - y <= MaxFractions
      PROVE  x - y \in AssetCount /\ x - y \in CheckedSub(x, y)
  BY <1>3, MaxFractionsAssumption DEF AssetCount, CheckedSub
<1>4. ASSUME a + h + amount <= MaxFractions
      PROVE  IncAvailable(balance, amount) # {}
  <2>1. a + amount \in AssetCount /\ a + amount \in CheckedAdd(a, amount)
    BY <1>1, <1>2, <1>4, MaxFractionsAssumption
  <2>2. Update(a + amount, h) # {}
    BY <1>1, <1>4, <2>1, MaxFractionsAssumption, UpdateFits
  <2>3. QED
    BY <2>1, <2>2 DEF IncAvailable, a, h
<1>5. ASSUME amount <= a
      PROVE  /\ DecAvailable(balance, amount) # {}
             /\ MoveAvailableToHeld(balance, amount) # {}
  <2>1. a - amount \in AssetCount /\ a - amount \in CheckedSub(a, amount)
    BY <1>1, <1>3, <1>5, MaxFractionsAssumption
  <2>2. h + amount \in AssetCount /\ h + amount \in CheckedAdd(h, amount)
    BY <1>1, <1>2, <1>5, MaxFractionsAssumption
  <2>3. Update(a - amount, h) # {} /\ Update(a - amount, h + amount) # {}
    BY <1>1, <1>5, <2>1, <2>2, MaxFractionsAssumption, UpdateFits
  <2>4. DecAvailable(balance, amount) # {}
    BY <2>1, <2>3 DEF DecAvailable, a, h
  <2>5. QED
    BY <2>1, <2>2, <2>3, <2>4 DEF MoveAvailableToHeld, a, h
<1>6. ASSUME amount <= h
      PROVE  MoveHeldToAvailable(balance, amount) # {}
  <2>1. h - amount \in AssetCount /\ h - amount \in CheckedSub(h, amount)
    BY <1>1, <1>3, <1>6, MaxFractionsAssumption
  <2>2. a + amount \in AssetCount /\ a + amount \in CheckedAdd(a, amount)
    BY <1>1, <1>2, <1>6, MaxFractionsAssumption
  <2>3. Update(a + amount, h - amount) # {}
    BY <1>1, <1>6, <2>1, <2>2, MaxFractionsAssumption, UpdateFits
  <2>4. QED
    BY <2>1, <2>2, <2>3 DEF MoveHeldToAvailable, a, h
<1>7. QED
  BY <1>1, <1>4, <1>5, <1>6 DEF a, h

(* A chargeback of held assets succeeds, that of a withdrawal if its       *)
(* refund fits beside what the account holds.                              *)
LEMMA RevertFits ==
  ASSUME NEW balance, Sound(balance), NEW tx \in Transaction,
         tx.amount <= balance.held,
         tx.type = "Deposit" \/ Total(balance) + tx.amount <= MaxFractions
  PROVE  Revert(balance, tx) # {}
<1> DEFINE a == balance.available
           h == balance.held
           amount == tx.amount
<1>1. /\ a \in AssetCount /\ h \in AssetCount /\ amount \in AssetCount
      /\ a \in Nat /\ h \in Nat /\ amount \in Nat /\ a + h <= MaxFractions
      /\ Total(balance) = a + h /\ amount <= h
  <2>1. amount \in AssetCount
    BY AmountsAssumption DEF Transaction
  <2> HIDE DEF amount
  <2>2. a \in AssetCount /\ h \in AssetCount /\ Total(balance) = a + h /\ a + h \in AssetCount
    BY DEF Sound, Balance, Total
  <2>3. amount <= h
    BY DEF amount
  <2> HIDE DEF a, h
  <2>4. QED
    BY <2>1, <2>2, <2>3, MaxFractionsAssumption DEF AssetCount
<1> HIDE DEF a, h, amount
<1>2. h - amount \in AssetCount /\ h - amount \in CheckedSub(h, amount)
  BY <1>1, MaxFractionsAssumption DEF AssetCount, CheckedSub
<1>3. CASE tx.type = "Deposit"
  <2>1. Update(a, h - amount) # {}
    BY <1>1, <1>2, MaxFractionsAssumption, UpdateFits
  <2>2. QED
    BY <1>2, <1>3, <2>1 DEF Revert, a, h, amount
<1>4. CASE tx.type # "Deposit"
  <2>1. a + h + amount <= MaxFractions
    BY <1>1, <1>4 DEF amount
  <2>2. a + amount \in AssetCount /\ a + amount \in CheckedAdd(a, amount)
    BY <1>1, <2>1, MaxFractionsAssumption DEF AssetCount, CheckedAdd
  <2>3. /\ (a + amount) + amount \in AssetCount
        /\ (a + amount) + amount \in CheckedAdd(a + amount, amount)
    BY <1>1, <2>1, MaxFractionsAssumption DEF AssetCount, CheckedAdd
  <2>4. Update((a + amount) + amount, h - amount) # {}
    BY <1>1, <1>2, <2>1, <2>3, MaxFractionsAssumption, UpdateFits
  <2>5. (a + amount) + amount \in UNION {CheckedAdd(released, amount) :
                                          released \in CheckedAdd(a, amount)}
    BY <2>2, <2>3
  <2>6. QED
    BY <1>2, <1>4, <2>4, <2>5 DEF Revert, a, h, amount
<1>5. QED
  BY <1>3, <1>4

-----------------------------------------------------------------------------
(* The account that a command works on. *)

LEMMA NewAccountSound ==
  ASSUME NEW client \in ClientId
  PROVE  NewAccount(client) \in MemAccount /\ Sound(NewAccount(client).balance)
BY MaxFractionsAssumption
   DEF NewAccount, MemAccount, NewBalance, Sound, Balance, AssetCount, Total

LEMMA UpsertAccountFacts ==
  ASSUME AreAccounts(accounts), NEW client \in ClientId
  PROVE  /\ AreAccounts(UpsertAccount(client))
         /\ DOMAIN UpsertAccount(client) = DOMAIN accounts \cup {client}
         /\ client \in DOMAIN accounts =>
              UpsertAccount(client) = accounts /\ AccountOf(client) = accounts[client]
         /\ client \notin DOMAIN accounts => AccountOf(client) = NewAccount(client)
         /\ \A other \in DOMAIN accounts : UpsertAccount(client)[other] = accounts[other]
         /\ AccountOf(client) \in MemAccount
         /\ AccountOf(client).id = client
         /\ Sound(AccountOf(client).balance)
<1>1. CASE client \in DOMAIN accounts
  BY <1>1 DEF UpsertAccount, AccountOf, AreAccounts, MemAccount, Sound
<1>2. CASE client \notin DOMAIN accounts
  <2>1. UpsertAccount(client) = Put(accounts, client, NewAccount(client))
    BY <1>2 DEF UpsertAccount
  <2>2. /\ DOMAIN UpsertAccount(client) = DOMAIN accounts \cup {client}
        /\ AccountOf(client) = NewAccount(client)
        /\ \A other \in DOMAIN accounts : UpsertAccount(client)[other] = accounts[other]
    BY <1>2, <2>1 DEF Put, AccountOf
  <2>3. /\ NewAccount(client) \in MemAccount
        /\ NewAccount(client).id = client
        /\ Sound(NewAccount(client).balance)
    BY NewAccountSound DEF NewAccount
  <2>4. AreAccounts(UpsertAccount(client))
    BY <2>2, <2>3 DEF AreAccounts, AccountOf, Sound
  <2>5. QED
    BY <1>2, <2>2, <2>3, <2>4
<1>3. QED
  BY <1>1, <1>2

-----------------------------------------------------------------------------
(* The four effects that a command can have: it moves nothing, it records  *)
(* a transaction as rejected or as valid, or it changes the state of one.  *)

(* The claim passes every check of its handler, so that a change of the    *)
(* balance is all that is left to do.                                      *)
Due(claim) ==
  /\ Admissible(claim)
  /\ \/ /\ claim.type = "Dispute"
        /\ StateOf(claim) = "Valid"
        /\ PolicyAllows(ClaimedTx(claim))
        /\ Coverable(claim)
     \/ claim.type \in {"Resolve", "Chargeback"} /\ StateOf(claim) = "Disputed"

(* The balances that it may change to: none if the update fails. *)
NewBalances(claim) ==
  LET old == OwnerOf(claim).balance
      tx == ClaimedTx(claim)
  IN  CASE claim.type = "Dispute" -> MoveAvailableToHeld(old, tx.amount)
        [] claim.type = "Resolve" -> MoveHeldToAvailable(old, tx.amount)
        [] OTHER -> Revert(old, tx)

(* The id is known, or the claim is not due or cannot be met. *)
Quiet(cmd, result) ==
  /\ Return(cmd, result)
  /\ UNCHANGED transactions
  /\ cmd \in Transaction =>
       /\ cmd.id \in DOMAIN transactions
       /\ accounts' = UpsertAccount(cmd.client)
       /\ result = IF transactions[cmd.id].tx = cmd THEN "Ok" ELSE "TransactionIdConflict"
  /\ cmd \in Claim =>
       /\ accounts' = accounts
       /\ Due(cmd) <=> result = "BalanceUpdateError"
       /\ Due(cmd) => NewBalances(cmd) = {}

(* Why a new transaction is refused: the only balance update to fail is a  *)
(* deposit that does not fit.                                              *)
Unfit(tx, error) ==
  LET account == AccountOf(tx.client) IN
  \/ error = "Locked" /\ account.locked
  \/ /\ error = "InsufficientAssets"
     /\ tx.type = "Withdrawal"
     /\ account.balance.available < tx.amount
  \/ /\ error = "BalanceUpdateError"
     /\ tx.type = "Deposit"
     /\ Total(account.balance) + tx.amount > MaxFractions

Refused(tx, error) == IsNew(tx) /\ Unfit(tx, error) /\ Reject(tx, error)

Accepted(tx, balance) ==
  /\ IsNew(tx)
  /\ ~AccountOf(tx.client).locked
  /\ Sound(balance)
  /\ balance.held = AccountOf(tx.client).balance.held
  /\ balance.available = IF tx.type = "Deposit"
                         THEN AccountOf(tx.client).balance.available + tx.amount
                         ELSE AccountOf(tx.client).balance.available - tx.amount
  /\ Insert(tx, "Valid")
  /\ accounts' = [UpsertAccount(tx.client) EXCEPT ![tx.client].balance = balance]
  /\ Return(tx, "Ok")

(* How far a change of state moves the held and the available assets. *)
HeldChange(tx, to) == IF to = "Disputed" THEN tx.amount ELSE 0 - tx.amount

AvailableChange(tx, to) ==
  IF to = "Disputed" THEN 0 - tx.amount
  ELSE IF to = "Valid" THEN tx.amount
  ELSE IF tx.type = "Deposit" THEN 0
  ELSE tx.amount + tx.amount

Settled(claim, balance, to) ==
  LET tx == transactions[claim.tx].tx
      account == accounts[claim.client]
  IN
  /\ claim.tx \in DOMAIN transactions
  /\ tx.client = claim.client
  /\ ~account.locked
  /\ Due(claim)
  /\ balance \in NewBalances(claim)
  /\ <<claim.type, to>> \in
       {<<"Dispute", "Disputed">>, <<"Resolve", "Valid">>, <<"Chargeback", "Rejected">>}
  /\ <<transactions[claim.tx].state, to>> \in
       {<<"Valid", "Disputed">>, <<"Disputed", "Valid">>, <<"Disputed", "Rejected">>}
  /\ Sound(balance)
  /\ balance.held = account.balance.held + HeldChange(tx, to)
  /\ balance.available = account.balance.available + AvailableChange(tx, to)
  /\ transactions' = [transactions EXCEPT ![claim.tx].state = to]
  /\ accounts' = [accounts EXCEPT ![claim.client].balance = balance,
                                  ![claim.client].locked = (to = "Rejected")]
  /\ Return(claim, "Ok")

Effect ==
  \/ \E cmd \in Command, result \in Result : Quiet(cmd, result)
  \/ \E tx \in Transaction, error \in Result : Refused(tx, error)
  \/ \E tx \in Transaction, balance \in Balance : Accepted(tx, balance)
  \/ \E claim \in Claim, balance \in Balance, to \in TransactionState :
       Settled(claim, balance, to)

(* A transaction and a claim are told apart by their type. *)
LEMMA ClaimIsNoTransaction ==
  ASSUME NEW claim \in Claim
  PROVE  claim \in Command /\ claim \notin Transaction
BY DEF Claim, Transaction, Command

LEMMA RepeatEffect ==
  ASSUME NEW tx \in Transaction, Repeat(tx)
  PROVE  Effect
<1> DEFINE result == IF transactions[tx.id].tx = tx THEN "Ok" ELSE "TransactionIdConflict"
<1>1. Quiet(tx, result)
  BY ClaimIsNoTransaction DEF Repeat, Quiet
<1>2. result \in Result
  BY DEF Result
<1>3. tx \in Command
  BY DEF Command
<1>4. QED
  BY <1>1, <1>2, <1>3 DEF Effect

LEMMA RejectEffect ==
  ASSUME NEW tx \in Transaction, IsNew(tx), NEW error \in Result, Unfit(tx, error),
         Reject(tx, error)
  PROVE  Effect
BY DEF Refused, Effect

LEMMA DepositEffect ==
  ASSUME TypeOK, NEW tx \in Transaction, SubmitDeposit(tx)
  PROVE  Effect
<1> DEFINE account == AccountOf(tx.client)
<1>1. tx.client \in ClientId /\ tx.amount \in AssetCount /\ tx.type = "Deposit"
  BY AmountsAssumption DEF Transaction, SubmitDeposit
<1>2. Sound(account.balance)
  BY <1>1, UpsertAccountFacts DEF TypeOK
<1>3. CASE Repeat(tx)
  BY <1>3, RepeatEffect
<1>4. CASE IsNew(tx) /\ account.locked /\ Reject(tx, "Locked")
  BY <1>4, RejectEffect DEF Result, Unfit
<1>5. CASE IsNew(tx) /\ ~account.locked /\ Post(tx, IncAvailable(account.balance, tx.amount))
  <2>1. CASE /\ IncAvailable(account.balance, tx.amount) = {}
             /\ Reject(tx, "BalanceUpdateError")
    <3>1. ~(Total(account.balance) + tx.amount <= MaxFractions)
      BY <1>1, <1>2, <2>1, MutatorsFit
    <3>2. Total(account.balance) + tx.amount > MaxFractions
      BY <1>1, <1>2, <3>1, MaxFractionsAssumption DEF Sound, AssetCount
    <3>3. Unfit(tx, "BalanceUpdateError")
      BY <1>1, <3>2 DEF Unfit
    <3>4. QED
      BY <1>5, <2>1, <3>3, RejectEffect DEF Result
  <2>2. CASE ~(/\ IncAvailable(account.balance, tx.amount) = {}
               /\ Reject(tx, "BalanceUpdateError"))
    <3>1. PICK balance \in IncAvailable(account.balance, tx.amount) :
            /\ Insert(tx, "Valid")
            /\ accounts' = [UpsertAccount(tx.client) EXCEPT ![tx.client].balance = balance]
            /\ Return(tx, "Ok")
      BY <1>5, <2>2 DEF Post
    <3>2. Accepted(tx, balance)
      BY <1>1, <1>2, <1>5, <3>1, MutatorsSound DEF Accepted
    <3>3. balance \in Balance
      BY <3>2 DEF Accepted, Sound
    <3>4. QED
      BY <3>2, <3>3 DEF Effect
  <2>3. QED
    BY <2>1, <2>2
<1>6. QED
  BY <1>3, <1>4, <1>5 DEF SubmitDeposit

LEMMA WithdrawalEffect ==
  ASSUME TypeOK, NEW tx \in Transaction, SubmitWithdrawal(tx)
  PROVE  Effect
<1> DEFINE account == AccountOf(tx.client)
<1>1. tx.client \in ClientId /\ tx.amount \in AssetCount /\ tx.type = "Withdrawal"
  BY AmountsAssumption DEF Transaction, SubmitWithdrawal
<1>2. Sound(account.balance)
  BY <1>1, UpsertAccountFacts DEF TypeOK
<1>3. account.balance.available \in Int /\ tx.amount \in Int
  BY <1>1, <1>2, MaxFractionsAssumption DEF Sound, Balance, AssetCount
<1>4. CASE Repeat(tx)
  BY <1>4, RepeatEffect
<1>5. CASE IsNew(tx) /\ account.locked /\ Reject(tx, "Locked")
  BY <1>5, RejectEffect DEF Result, Unfit
<1>6. CASE /\ IsNew(tx) /\ ~account.locked /\ ~(account.balance.available >= tx.amount)
           /\ Reject(tx, "InsufficientAssets")
  <2>1. account.balance.available < tx.amount
    BY <1>3, <1>6
  <2>2. Unfit(tx, "InsufficientAssets")
    BY <1>1, <2>1 DEF Unfit
  <2>3. QED
    BY <1>6, <2>2, RejectEffect DEF Result
<1>7. CASE /\ IsNew(tx) /\ ~account.locked /\ account.balance.available >= tx.amount
           /\ Post(tx, DecAvailable(account.balance, tx.amount))
  <2>1. tx.amount <= account.balance.available
    BY <1>3, <1>7
  <2>2. DecAvailable(account.balance, tx.amount) # {}
    BY <1>1, <1>2, <2>1, MutatorsFit
  <2>3. PICK balance \in DecAvailable(account.balance, tx.amount) :
          /\ Insert(tx, "Valid")
          /\ accounts' = [UpsertAccount(tx.client) EXCEPT ![tx.client].balance = balance]
          /\ Return(tx, "Ok")
    BY <1>7, <2>2 DEF Post
  <2>4. Accepted(tx, balance)
    BY <1>1, <1>2, <1>7, <2>3, MutatorsSound DEF Accepted
  <2>5. balance \in Balance
    BY <2>4 DEF Accepted, Sound
  <2>6. QED
    BY <2>4, <2>5 DEF Effect
<1>8. QED
  BY <1>4, <1>5, <1>6, <1>7 DEF SubmitWithdrawal

LEMMA AmountFacts ==
  ASSUME NEW tx \in Transaction
  PROVE  tx.amount \in AssetCount /\ tx.amount \in Int
<1>1. tx.amount \in AssetCount
  BY AmountsAssumption DEF Transaction
<1>2. QED
  BY <1>1, MaxFractionsAssumption DEF AssetCount

(* The owner of a recorded transaction has an account already. *)
LEMMA OwnerFacts ==
  ASSUME TypeOK, NEW claim \in Claim, claim.tx \in DOMAIN transactions
  PROVE  /\ ClaimedTx(claim) \in Transaction
         /\ ClaimedTx(claim).client \in DOMAIN accounts
         /\ ClaimedTx(claim).client \in ClientId
         /\ UpsertAccount(ClaimedTx(claim).client) = accounts
         /\ OwnerOf(claim) = accounts[ClaimedTx(claim).client]
         /\ OwnerOf(claim).id = ClaimedTx(claim).client
         /\ OwnerOf(claim) \in MemAccount
         /\ Sound(OwnerOf(claim).balance)
<1>1. /\ ClaimedTx(claim) \in Transaction
      /\ ClaimedTx(claim).client \in DOMAIN accounts
  BY DEF TypeOK, IsTable, TransactionWithState, ClaimedTx
<1>2. ClaimedTx(claim).client \in ClientId
  BY <1>1 DEF Transaction
<1>3. QED
  BY <1>1, <1>2, UpsertAccountFacts DEF TypeOK, OwnerOf

LEMMA AnswerEffect ==
  ASSUME TypeOK, NEW claim \in Claim, claim.tx \in DOMAIN transactions,
         NEW result \in Result, Answer(claim, result),
         Due(claim) <=> result = "BalanceUpdateError",
         Due(claim) => NewBalances(claim) = {}
  PROVE  Effect
<1>1. Quiet(claim, result)
  BY OwnerFacts, ClaimIsNoTransaction DEF Answer, Quiet
<1>2. QED
  BY <1>1, ClaimIsNoTransaction DEF Effect

LEMMA RefuseEffect ==
  ASSUME TypeOK, NEW claim \in Claim, Refuse(claim)
  PROVE  Effect
<1>1. CASE claim.tx \notin DOMAIN transactions
  <2>1. Quiet(claim, "NotFound")
    BY <1>1, ClaimIsNoTransaction DEF Refuse, Quiet, Due, Admissible
  <2>2. "NotFound" \in Result
    BY DEF Result
  <2>3. QED
    BY <2>1, <2>2, ClaimIsNoTransaction DEF Effect
<1>2. CASE claim.tx \in DOMAIN transactions
  <2>1. Answer(claim, "InvalidClaimant") \/ Answer(claim, "Locked")
    BY <1>2 DEF Refuse
  <2>2. ~Due(claim)
    BY <1>2 DEF Refuse, Due, Admissible
  <2>3. QED
    BY <1>2, <2>1, <2>2, AnswerEffect DEF Result
<1>3. QED
  BY <1>1, <1>2

(* A claim that ends with a balance update, once the new balances are known. *)
LEMMA SettleEffect ==
  ASSUME TypeOK, NEW claim \in Claim, Due(claim),
         NEW newBalance, newBalance = NewBalances(claim),
         NEW to \in TransactionState, NEW locks \in BOOLEAN,
         Settle(claim, newBalance, to, locks),
         locks <=> to = "Rejected",
         <<claim.type, to>> \in
           {<<"Dispute", "Disputed">>, <<"Resolve", "Valid">>, <<"Chargeback", "Rejected">>},
         <<StateOf(claim), to>> \in
           {<<"Valid", "Disputed">>, <<"Disputed", "Valid">>, <<"Disputed", "Rejected">>},
         \A b \in newBalance :
           LET old == OwnerOf(claim).balance IN
           /\ Sound(b)
           /\ b.held = old.held + HeldChange(ClaimedTx(claim), to)
           /\ b.available = old.available + AvailableChange(ClaimedTx(claim), to)
  PROVE  Effect
<1>1. claim.tx \in DOMAIN transactions /\ ~OwnerOf(claim).locked
  BY DEF Due, Admissible
<1>2. claim.client = ClaimedTx(claim).client
  BY <1>1, OwnerFacts DEF Due, Admissible
<1>3. CASE newBalance = {} /\ Answer(claim, "BalanceUpdateError")
  BY <1>1, <1>3, AnswerEffect DEF Result
<1>4. CASE ~(newBalance = {} /\ Answer(claim, "BalanceUpdateError"))
  <2>1. PICK balance \in newBalance : Apply(claim, balance, to, locks)
    BY <1>4 DEF Settle
  <2>2. /\ Return(claim, "Ok")
        /\ transactions' = [transactions EXCEPT ![claim.tx].state = to]
    BY <2>1 DEF Apply
  <2>3. accounts' = [accounts EXCEPT ![claim.client].balance = balance,
                                     ![claim.client].locked = (to = "Rejected")]
    <3>1. accounts' = [accounts EXCEPT ![claim.client].balance = balance,
                                       ![claim.client].locked = @ \/ locks]
      BY <1>1, <1>2, <2>1, OwnerFacts DEF Apply
    <3>2. accounts[claim.client] \in MemAccount /\ accounts[claim.client].locked = FALSE
      BY <1>1, <1>2, OwnerFacts DEF MemAccount
    <3>3. (accounts[claim.client].locked \/ locks) = (to = "Rejected")
      BY <3>2
    <3>4. QED
      BY <3>1, <3>2, <3>3 DEF MemAccount
  <2>4. OwnerOf(claim) = accounts[claim.client]
    BY <1>1, <1>2, OwnerFacts
  <2>5. Settled(claim, balance, to)
    BY <1>1, <1>2, <2>1, <2>2, <2>3, <2>4 DEF Settled, ClaimedTx, StateOf
  <2>6. balance \in Balance
    BY <2>1 DEF Sound
  <2>7. QED
    BY <2>5, <2>6 DEF Effect
<1>5. QED
  BY <1>3, <1>4

LEMMA DisputeEffect ==
  ASSUME TypeOK, NEW claim \in Claim, SubmitDispute(claim)
  PROVE  Effect
<1> DEFINE new == MoveAvailableToHeld(OwnerOf(claim).balance, ClaimedTx(claim).amount)
<1>1. CASE Refuse(claim)
  BY <1>1, RefuseEffect
<1>2. CASE Admissible(claim)
  <2>1. claim.tx \in DOMAIN transactions
    BY <1>2 DEF Admissible
  <2>2. CASE \E result \in Result : Answer(claim, result) /\ result # "BalanceUpdateError" /\ ~Due(claim)
    BY <2>1, <2>2, AnswerEffect
  <2>3. CASE Due(claim) /\ StateOf(claim) = "Valid" /\ Settle(claim, new, "Disputed", FALSE)
    <3>1. \A b \in new :
            /\ Sound(b)
            /\ b.held = OwnerOf(claim).balance.held + HeldChange(ClaimedTx(claim), "Disputed")
            /\ b.available = OwnerOf(claim).balance.available
                             + AvailableChange(ClaimedTx(claim), "Disputed")
      <4>1. ClaimedTx(claim).amount \in AssetCount /\ ClaimedTx(claim).amount \in Int
        BY <2>1, OwnerFacts, AmountFacts
      <4>2. OwnerOf(claim).balance.available \in Int
        BY <2>1, OwnerFacts DEF Sound, Balance, AssetCount
      <4>3. \A b \in new :
              /\ Sound(b)
              /\ b.held = OwnerOf(claim).balance.held + ClaimedTx(claim).amount
              /\ b.available = OwnerOf(claim).balance.available - ClaimedTx(claim).amount
        BY <2>1, <4>1, OwnerFacts, MutatorsSound
      <4>4. /\ HeldChange(ClaimedTx(claim), "Disputed") = ClaimedTx(claim).amount
            /\ AvailableChange(ClaimedTx(claim), "Disputed") = 0 - ClaimedTx(claim).amount
        BY DEF HeldChange, AvailableChange
      <4>5. QED
        BY <4>1, <4>2, <4>3, <4>4
    <3>2. new = NewBalances(claim) /\ claim.type = "Dispute"
      BY DEF NewBalances, SubmitDispute
    <3> HIDE DEF new
    <3>3. QED
      BY <2>3, <3>1, <3>2, SettleEffect DEF TransactionState
  <2>4. QED
    BY <1>1, <1>2, <2>2, <2>3 DEF SubmitDispute, DisputeValid, Result, Due
<1>3. QED
  BY <1>1, <1>2 DEF SubmitDispute

LEMMA ResolveEffect ==
  ASSUME TypeOK, NEW claim \in Claim, SubmitResolve(claim)
  PROVE  Effect
<1> DEFINE new == MoveHeldToAvailable(OwnerOf(claim).balance, ClaimedTx(claim).amount)
<1>1. CASE Refuse(claim)
  BY <1>1, RefuseEffect
<1>2. CASE Admissible(claim)
  <2>1. claim.tx \in DOMAIN transactions
    BY <1>2 DEF Admissible
  <2>2. CASE \E result \in Result : Answer(claim, result) /\ result # "BalanceUpdateError" /\ ~Due(claim)
    BY <2>1, <2>2, AnswerEffect
  <2>3. CASE Due(claim) /\ StateOf(claim) = "Disputed" /\ Settle(claim, new, "Valid", FALSE)
    <3>1. \A b \in new :
            /\ Sound(b)
            /\ b.held = OwnerOf(claim).balance.held + HeldChange(ClaimedTx(claim), "Valid")
            /\ b.available = OwnerOf(claim).balance.available
                             + AvailableChange(ClaimedTx(claim), "Valid")
      <4>1. ClaimedTx(claim).amount \in AssetCount /\ ClaimedTx(claim).amount \in Int
        BY <2>1, OwnerFacts, AmountFacts
      <4>2. OwnerOf(claim).balance.held \in Int
        BY <2>1, OwnerFacts DEF Sound, Balance, AssetCount
      <4>3. \A b \in new :
              /\ Sound(b)
              /\ b.held = OwnerOf(claim).balance.held - ClaimedTx(claim).amount
              /\ b.available = OwnerOf(claim).balance.available + ClaimedTx(claim).amount
        BY <2>1, <4>1, OwnerFacts, MutatorsSound
      <4>4. /\ HeldChange(ClaimedTx(claim), "Valid") = 0 - ClaimedTx(claim).amount
            /\ AvailableChange(ClaimedTx(claim), "Valid") = ClaimedTx(claim).amount
        BY DEF HeldChange, AvailableChange
      <4>5. QED
        BY <4>1, <4>2, <4>3, <4>4
    <3>2. new = NewBalances(claim) /\ claim.type = "Resolve"
      BY DEF NewBalances, SubmitResolve
    <3> HIDE DEF new
    <3>3. QED
      BY <2>3, <3>1, <3>2, SettleEffect DEF TransactionState
  <2>4. QED
    BY <1>1, <1>2, <2>2, <2>3 DEF SubmitResolve, Result, Due
<1>3. QED
  BY <1>1, <1>2 DEF SubmitResolve

LEMMA ChargebackEffect ==
  ASSUME TypeOK, NEW claim \in Claim, SubmitChargeback(claim)
  PROVE  Effect
<1> DEFINE new == Revert(OwnerOf(claim).balance, ClaimedTx(claim))
<1>1. CASE Refuse(claim)
  BY <1>1, RefuseEffect
<1>2. CASE Admissible(claim)
  <2>1. claim.tx \in DOMAIN transactions
    BY <1>2 DEF Admissible
  <2>2. CASE \E result \in Result : Answer(claim, result) /\ result # "BalanceUpdateError" /\ ~Due(claim)
    BY <2>1, <2>2, AnswerEffect
  <2>3. CASE Due(claim) /\ StateOf(claim) = "Disputed" /\ Settle(claim, new, "Rejected", TRUE)
    <3>1. \A b \in new :
            /\ Sound(b)
            /\ b.held = OwnerOf(claim).balance.held + HeldChange(ClaimedTx(claim), "Rejected")
            /\ b.available = OwnerOf(claim).balance.available
                             + AvailableChange(ClaimedTx(claim), "Rejected")
      <4>1. ClaimedTx(claim).amount \in Int
        BY <2>1, OwnerFacts, AmountFacts
      <4>2. /\ OwnerOf(claim).balance.held \in Int
            /\ OwnerOf(claim).balance.available \in Int
        BY <2>1, OwnerFacts DEF Sound, Balance, AssetCount
      <4>3. \A b \in new :
              /\ Sound(b)
              /\ b.held = OwnerOf(claim).balance.held - ClaimedTx(claim).amount
              /\ b.available = IF ClaimedTx(claim).type = "Deposit"
                               THEN OwnerOf(claim).balance.available
                               ELSE OwnerOf(claim).balance.available
                                    + ClaimedTx(claim).amount + ClaimedTx(claim).amount
        BY <2>1, OwnerFacts, RevertSound
      <4>4. /\ HeldChange(ClaimedTx(claim), "Rejected") = 0 - ClaimedTx(claim).amount
            /\ AvailableChange(ClaimedTx(claim), "Rejected") =
                 IF ClaimedTx(claim).type = "Deposit" THEN 0
                 ELSE ClaimedTx(claim).amount + ClaimedTx(claim).amount
        BY DEF HeldChange, AvailableChange
      <4>5. QED
        BY <4>1, <4>2, <4>3, <4>4
    <3>2. new = NewBalances(claim) /\ claim.type = "Chargeback"
      BY DEF NewBalances, SubmitChargeback
    <3> HIDE DEF new
    <3>3. QED
      BY <2>3, <3>1, <3>2, SettleEffect DEF TransactionState
  <2>4. QED
    BY <1>1, <1>2, <2>2, <2>3 DEF SubmitChargeback, Result, Due
<1>3. QED
  BY <1>1, <1>2 DEF SubmitChargeback

(* Every command of the service has one of the four effects. *)
LEMMA NextEffect ==
  ASSUME TypeOK, Next
  PROVE  Effect
BY DepositEffect, WithdrawalEffect, DisputeEffect, ResolveEffect, ChargebackEffect DEF Next

-----------------------------------------------------------------------------
(* Type correctness. *)

LEMMA InsertKeepsTable ==
  ASSUME IsTable(transactions), NEW tx \in Transaction, IsNew(tx),
         NEW state \in TransactionState, Insert(tx, state)
  PROVE  /\ IsTable(transactions')
         /\ DOMAIN transactions' = DOMAIN transactions \cup {tx.id}
         /\ tx.id \notin DOMAIN transactions
         /\ transactions'[tx.id] = [tx |-> tx, state |-> state]
         /\ \A id \in DOMAIN transactions : transactions'[id] = transactions[id]
<1>1. /\ DOMAIN transactions' = DOMAIN transactions \cup {tx.id}
      /\ tx.id \notin DOMAIN transactions
      /\ transactions'[tx.id] = [tx |-> tx, state |-> state]
      /\ \A id \in DOMAIN transactions : transactions'[id] = transactions[id]
  BY DEF Insert, IsNew, Put
<1>2. tx.id \in TransactionId
  BY DEF Transaction
<1>3. [tx |-> tx, state |-> state] \in TransactionWithState
  BY DEF TransactionWithState
<1>4. QED
  BY <1>1, <1>2, <1>3 DEF IsTable

LEMMA StateChangeKeepsTable ==
  ASSUME IsTable(transactions), NEW id \in DOMAIN transactions,
         NEW to \in TransactionState,
         transactions' = [transactions EXCEPT ![id].state = to]
  PROVE  /\ IsTable(transactions')
         /\ DOMAIN transactions' = DOMAIN transactions
         /\ transactions'[id].tx = transactions[id].tx
         /\ transactions'[id].state = to
         /\ \A other \in DOMAIN transactions : other # id =>
              transactions'[other] = transactions[other]
<1>1. transactions[id] \in TransactionWithState
  BY DEF IsTable
<1>2. transactions'[id] \in TransactionWithState
  BY <1>1 DEF TransactionWithState
<1>3. /\ DOMAIN transactions' = DOMAIN transactions
      /\ \A other \in DOMAIN transactions : other # id =>
           transactions'[other] = transactions[other]
  OBVIOUS
<1>4. transactions'[id].tx = transactions[id].tx /\ transactions'[id].state = to
  BY <1>1 DEF TransactionWithState
<1>5. QED
  BY <1>2, <1>3, <1>4 DEF IsTable

LEMMA BalanceChangeKeepsAccounts ==
  ASSUME NEW map, AreAccounts(map), NEW client \in DOMAIN map,
         NEW balance, Sound(balance)
  PROVE  LET new == [map EXCEPT ![client].balance = balance] IN
         /\ AreAccounts(new)
         /\ DOMAIN new = DOMAIN map
         /\ new[client].balance = balance
         /\ new[client].locked = map[client].locked
         /\ \A other \in DOMAIN map : other # client => new[other] = map[other]
<1> DEFINE new == [map EXCEPT ![client].balance = balance]
<1>1. map[client] \in MemAccount /\ map[client].id = client
  BY DEF AreAccounts
<1>2. /\ new[client] \in MemAccount
      /\ new[client].id = client
      /\ new[client].balance = balance
      /\ new[client].locked = map[client].locked
  BY <1>1 DEF MemAccount, Sound
<1>3. DOMAIN new = DOMAIN map /\ \A other \in DOMAIN map : other # client => new[other] = map[other]
  OBVIOUS
<1>4. QED
  BY <1>2, <1>3 DEF AreAccounts, Sound

LEMMA SettledAccounts ==
  ASSUME TypeOK, NEW claim \in Claim, NEW balance, NEW to, Settled(claim, balance, to)
  PROVE  /\ AreAccounts(accounts')
         /\ claim.client \in DOMAIN accounts
         /\ DOMAIN accounts' = DOMAIN accounts
         /\ accounts'[claim.client].balance = balance
         /\ accounts'[claim.client].locked = (to = "Rejected")
         /\ \A other \in DOMAIN accounts :
              other # claim.client => accounts'[other] = accounts[other]
<1>1. claim.client \in DOMAIN accounts /\ Sound(balance)
  BY DEF Settled, TypeOK
<1>2. accounts[claim.client] \in MemAccount /\ accounts[claim.client].id = claim.client
  BY <1>1 DEF TypeOK, AreAccounts
<1>3. accounts' = [accounts EXCEPT ![claim.client].balance = balance,
                                   ![claim.client].locked = (to = "Rejected")]
  BY DEF Settled
<1>4. /\ accounts'[claim.client] \in MemAccount
      /\ accounts'[claim.client].id = claim.client
      /\ accounts'[claim.client].balance = balance
      /\ accounts'[claim.client].locked = (to = "Rejected")
  BY <1>1, <1>2, <1>3 DEF MemAccount, Sound
<1>5. /\ DOMAIN accounts' = DOMAIN accounts
      /\ \A other \in DOMAIN accounts :
           other # claim.client => accounts'[other] = accounts[other]
  BY <1>3
<1>6. QED
  BY <1>1, <1>4, <1>5 DEF AreAccounts, Sound, TypeOK

LEMMA ReturnTyped ==
  ASSUME NEW cmd \in Command, NEW result \in Result, Return(cmd, result)
  PROVE  /\ reply' \in [cmd : Command \cup {NoCommand}, result : Result]
         /\ reply'.cmd = cmd /\ reply'.result = result
BY DEF Return

LEMMA QuietKeepsTypes ==
  ASSUME TypeOK, NEW cmd \in Command, NEW result \in Result, Quiet(cmd, result)
  PROVE  TypeOK'
<1>1. transactions' = transactions
  BY DEF Quiet
<1>2. AreAccounts(accounts') /\ DOMAIN accounts \subseteq DOMAIN accounts'
  <2>1. CASE accounts' = accounts
    BY <2>1 DEF TypeOK
  <2>2. CASE cmd \in Transaction /\ accounts' = UpsertAccount(cmd.client)
    <3>1. cmd.client \in ClientId
      BY <2>2 DEF Transaction
    <3>2. QED
      BY <2>2, <3>1, UpsertAccountFacts DEF TypeOK
  <2>3. QED
    BY <2>1, <2>2 DEF Quiet, Command
<1>3. reply' \in [cmd : Command \cup {NoCommand}, result : Result]
  BY ReturnTyped DEF Quiet
<1>4. QED
  BY <1>1, <1>2, <1>3 DEF TypeOK

LEMMA RefusedKeepsTypes ==
  ASSUME TypeOK, NEW tx \in Transaction, NEW error \in Result, Refused(tx, error)
  PROVE  TypeOK'
<1>1. tx.client \in ClientId /\ tx \in Command
  BY DEF Transaction, Command
<1>2. AreAccounts(accounts') /\ DOMAIN accounts' = DOMAIN accounts \cup {tx.client}
  BY <1>1, UpsertAccountFacts DEF TypeOK, Refused, Reject
<1>3. /\ IsTable(transactions')
      /\ DOMAIN transactions' = DOMAIN transactions \cup {tx.id}
      /\ transactions'[tx.id].tx = tx
      /\ \A id \in DOMAIN transactions : transactions'[id] = transactions[id]
  <2>1. PICK state \in TransactionState : Insert(tx, state)
    BY DEF Refused, Reject, TransactionState
  <2>2. [tx |-> tx, state |-> state].tx = tx
    OBVIOUS
  <2>3. QED
    BY <2>1, <2>2, InsertKeepsTable DEF TypeOK, Refused
<1>4. reply' \in [cmd : Command \cup {NoCommand}, result : Result]
  BY <1>1, ReturnTyped DEF Refused, Reject
<1>5. QED
  BY <1>2, <1>3, <1>4 DEF TypeOK

LEMMA AcceptedAccounts ==
  ASSUME TypeOK, NEW tx \in Transaction, NEW balance, Accepted(tx, balance)
  PROVE  /\ AreAccounts(accounts')
         /\ DOMAIN accounts' = DOMAIN accounts \cup {tx.client}
         /\ accounts'[tx.client].balance = balance
         /\ accounts'[tx.client].locked = FALSE
         /\ \A other \in DOMAIN accounts :
              other # tx.client => accounts'[other] = accounts[other]
<1> DEFINE map == UpsertAccount(tx.client)
<1>1. tx.client \in ClientId
  BY DEF Transaction
<1>2. /\ AreAccounts(map) /\ DOMAIN map = DOMAIN accounts \cup {tx.client}
      /\ \A other \in DOMAIN accounts : map[other] = accounts[other]
      /\ map[tx.client] \in MemAccount
  BY <1>1, UpsertAccountFacts DEF TypeOK, AccountOf
<1>3. map[tx.client].locked = FALSE
  BY <1>2 DEF Accepted, AccountOf, MemAccount
<1>4. accounts' = [map EXCEPT ![tx.client].balance = balance] /\ Sound(balance)
  BY DEF Accepted
<1> HIDE DEF map
<1>5. tx.client \in DOMAIN map
  BY <1>2
<1> DEFINE new == [map EXCEPT ![tx.client].balance = balance]
<1>6. /\ AreAccounts(new)
      /\ DOMAIN new = DOMAIN map
      /\ new[tx.client].balance = balance
      /\ new[tx.client].locked = map[tx.client].locked
      /\ \A other \in DOMAIN map : other # tx.client => new[other] = map[other]
  BY <1>2, <1>4, <1>5, BalanceChangeKeepsAccounts
<1>7. accounts' = new
  BY <1>4
<1> HIDE DEF new
<1>8. QED
  BY <1>2, <1>3, <1>6, <1>7

LEMMA AcceptedKeepsTypes ==
  ASSUME TypeOK, NEW tx \in Transaction, NEW balance, Accepted(tx, balance)
  PROVE  TypeOK'
<1>1. tx \in Command
  BY DEF Command
<1>2. AreAccounts(accounts') /\ DOMAIN accounts' = DOMAIN accounts \cup {tx.client}
  BY AcceptedAccounts
<1>3. /\ IsTable(transactions')
      /\ DOMAIN transactions' = DOMAIN transactions \cup {tx.id}
      /\ transactions'[tx.id].tx = tx
      /\ \A id \in DOMAIN transactions : transactions'[id] = transactions[id]
  <2>1. PICK state \in TransactionState : Insert(tx, state)
    BY DEF Accepted, TransactionState
  <2>2. [tx |-> tx, state |-> state].tx = tx
    OBVIOUS
  <2>3. QED
    BY <2>1, <2>2, InsertKeepsTable DEF TypeOK, Accepted
<1>4. reply' \in [cmd : Command \cup {NoCommand}, result : Result]
  BY <1>1, ReturnTyped DEF Accepted, Result
<1>5. QED
  BY <1>2, <1>3, <1>4 DEF TypeOK

LEMMA SettledKeepsTypes ==
  ASSUME TypeOK, NEW claim \in Claim, NEW balance, NEW to \in TransactionState,
         Settled(claim, balance, to)
  PROVE  TypeOK'
<1>1. AreAccounts(accounts') /\ DOMAIN accounts' = DOMAIN accounts
  BY SettledAccounts
<1>2. /\ IsTable(transactions')
      /\ DOMAIN transactions' = DOMAIN transactions
      /\ transactions'[claim.tx].tx = transactions[claim.tx].tx
      /\ \A id \in DOMAIN transactions : id # claim.tx => transactions'[id] = transactions[id]
  BY StateChangeKeepsTable DEF TypeOK, Settled
<1>3. reply' \in [cmd : Command \cup {NoCommand}, result : Result]
  BY ClaimIsNoTransaction, ReturnTyped DEF Settled, Result
<1>4. QED
  BY <1>1, <1>2, <1>3 DEF TypeOK

LEMMA InitTypes == Init => TypeOK
BY DEF Init, TypeOK, IsTable, AreAccounts, Result

LEMMA NextTypes ==
  ASSUME TypeOK, [Next]_vars
  PROVE  TypeOK'
<1>1. CASE Next
  BY <1>1, NextEffect, QuietKeepsTypes, RefusedKeepsTypes, AcceptedKeepsTypes,
     SettledKeepsTypes DEF Effect
<1>2. CASE UNCHANGED vars
  BY <1>2 DEF vars, TypeOK
<1>3. QED
  BY <1>1, <1>2

(* The maps of the service are well formed at all times: keys match ids,   *)
(* no total overflows, the owner of every transaction has an account.      *)
THEOREM TypeCorrect == Spec => []TypeOK
<1>1. Init => TypeOK
  BY InitTypes
<1>2. TypeOK /\ [Next]_vars => TypeOK'
  BY NextTypes
<1>3. QED
  BY <1>1, <1>2, PTL DEF Spec

-----------------------------------------------------------------------------
(* What each effect leaves alone. *)

(* At most new, empty accounts appear. *)
AccountsKept ==
  /\ DOMAIN accounts \subseteq DOMAIN accounts'
  /\ \A client \in DOMAIN accounts : accounts'[client] = accounts[client]
  /\ \A client \in DOMAIN accounts' :
       client \notin DOMAIN accounts => accounts'[client] = NewAccount(client)

(* At most one new transaction appears, in the state. *)
TransactionsKept(id, state) ==
  /\ DOMAIN transactions' = DOMAIN transactions \cup {id}
  /\ id \notin DOMAIN transactions
  /\ transactions'[id].state = state
  /\ \A other \in DOMAIN transactions : transactions'[other] = transactions[other]

LEMMA UpsertKeepsAccounts ==
  ASSUME TypeOK, NEW client \in ClientId, accounts' = UpsertAccount(client)
  PROVE  AccountsKept
<1>1. /\ DOMAIN accounts' = DOMAIN accounts \cup {client}
      /\ \A other \in DOMAIN accounts : accounts'[other] = accounts[other]
  BY UpsertAccountFacts DEF TypeOK
<1>2. client \notin DOMAIN accounts => accounts'[client] = NewAccount(client)
  BY UpsertAccountFacts DEF TypeOK, AccountOf
<1>3. QED
  BY <1>1, <1>2 DEF AccountsKept

LEMMA QuietFrame ==
  ASSUME TypeOK, NEW cmd \in Command, NEW result \in Result, Quiet(cmd, result)
  PROVE  AccountsKept /\ transactions' = transactions /\ reply'.cmd = cmd
<1>1. AccountsKept
  <2>1. CASE accounts' = accounts
    BY <2>1 DEF AccountsKept
  <2>2. CASE cmd \in Transaction /\ accounts' = UpsertAccount(cmd.client)
    BY <2>2, UpsertKeepsAccounts DEF Transaction
  <2>3. QED
    BY <2>1, <2>2 DEF Quiet, Command
<1>2. QED
  BY <1>1, ReturnTyped DEF Quiet

LEMMA RefusedFrame ==
  ASSUME TypeOK, NEW tx \in Transaction, NEW error \in Result, Refused(tx, error)
  PROVE  /\ AccountsKept
         /\ TransactionsKept(tx.id, "Rejected")
         /\ reply'.cmd = tx /\ reply'.result # "Ok"
<1>1. tx.client \in ClientId /\ tx \in Command
  BY DEF Transaction, Command
<1>2. AccountsKept
  BY <1>1, UpsertKeepsAccounts DEF Refused, Reject
<1>3. TransactionsKept(tx.id, "Rejected")
  BY DEF Refused, Reject, Insert, IsNew, Put, TransactionsKept
<1>4. QED
  BY <1>1, <1>2, <1>3, ReturnTyped DEF Refused, Reject, Unfit

LEMMA AcceptedFrame ==
  ASSUME TypeOK, NEW tx \in Transaction, NEW balance, Accepted(tx, balance)
  PROVE  /\ DOMAIN accounts \subseteq DOMAIN accounts'
         /\ \A client \in DOMAIN accounts :
              /\ accounts'[client].locked = accounts[client].locked
              /\ client # tx.client => accounts'[client] = accounts[client]
              /\ accounts[client].locked => client # tx.client
         /\ TransactionsKept(tx.id, "Valid")
         /\ transactions'[tx.id].tx = tx
         /\ reply'.cmd = tx /\ reply'.result = "Ok"
<1>1. tx.client \in ClientId /\ tx \in Command
  BY DEF Transaction, Command
<1>2. TransactionsKept(tx.id, "Valid") /\ transactions'[tx.id].tx = tx
  BY DEF Accepted, Insert, IsNew, Put, TransactionsKept
<1>3. \A client \in DOMAIN accounts : accounts[client].locked => client # tx.client
  <2>1. tx.client \in DOMAIN accounts => AccountOf(tx.client) = accounts[tx.client]
    BY <1>1, UpsertAccountFacts DEF TypeOK
  <2>2. ~AccountOf(tx.client).locked
    BY DEF Accepted
  <2>3. QED
    BY <2>1, <2>2
<1>4. tx.client \in DOMAIN accounts => accounts[tx.client].locked = FALSE
  BY <1>3 DEF TypeOK, AreAccounts, MemAccount
<1>5. reply'.cmd = tx /\ reply'.result = "Ok"
  BY <1>1, ReturnTyped DEF Accepted, Result
<1>6. QED
  BY <1>2, <1>3, <1>4, <1>5, AcceptedAccounts

LEMMA SettledFrame ==
  ASSUME TypeOK, NEW claim \in Claim, NEW balance, NEW to \in TransactionState,
         Settled(claim, balance, to)
  PROVE  /\ claim.tx \in DOMAIN transactions
         /\ transactions[claim.tx].tx.client = claim.client
         /\ <<transactions[claim.tx].state, to>> \in
              {<<"Valid", "Disputed">>, <<"Disputed", "Valid">>, <<"Disputed", "Rejected">>}
         /\ DOMAIN transactions' = DOMAIN transactions
         /\ transactions'[claim.tx].tx = transactions[claim.tx].tx
         /\ transactions'[claim.tx].state = to
         /\ \A id \in DOMAIN transactions :
              id # claim.tx => transactions'[id] = transactions[id]
         /\ claim.client \in DOMAIN accounts
         /\ ~accounts[claim.client].locked
         /\ accounts'[claim.client].locked = (to = "Rejected")
         /\ \A client \in DOMAIN accounts :
              client # claim.client => accounts'[client] = accounts[client]
         /\ reply'.cmd = claim /\ reply'.result = "Ok"
<1>1. reply'.cmd = claim /\ reply'.result = "Ok"
  BY ClaimIsNoTransaction, ReturnTyped DEF Settled, Result
<1>2. /\ claim.tx \in DOMAIN transactions
      /\ transactions[claim.tx].tx.client = claim.client
      /\ <<transactions[claim.tx].state, to>> \in
           {<<"Valid", "Disputed">>, <<"Disputed", "Valid">>, <<"Disputed", "Rejected">>}
      /\ transactions' = [transactions EXCEPT ![claim.tx].state = to]
      /\ ~accounts[claim.client].locked
  BY DEF Settled
<1>3. /\ DOMAIN transactions' = DOMAIN transactions
      /\ transactions'[claim.tx].tx = transactions[claim.tx].tx
      /\ transactions'[claim.tx].state = to
      /\ \A id \in DOMAIN transactions :
           id # claim.tx => transactions'[id] = transactions[id]
  BY <1>2, StateChangeKeepsTable DEF TypeOK
<1>4. QED
  BY <1>1, <1>2, <1>3, SettledAccounts

-----------------------------------------------------------------------------
(* The action properties, effect by effect. *)

LEMMA QuietSafe ==
  ASSUME TypeOK, NEW cmd \in Command, NEW result \in Result, Quiet(cmd, result)
  PROVE  FailureStep /\ OwnerStep /\ FrozenStep /\ LifecycleStep /\ LockStep
<1>1. AccountsKept /\ transactions' = transactions
  BY QuietFrame
<1>2. FailureStep
  BY <1>1 DEF FailureStep, AccountsKept
<1>3. OwnerStep /\ FrozenStep
  BY <1>1 DEF OwnerStep, FrozenStep, AccountsKept
<1>4. LifecycleStep
  BY <1>1 DEF LifecycleStep
<1>5. LockStep
  BY <1>1 DEF LockStep, AccountsKept
<1>6. QED
  BY <1>2, <1>3, <1>4, <1>5

LEMMA RefusedSafe ==
  ASSUME TypeOK, NEW tx \in Transaction, NEW error \in Result, Refused(tx, error)
  PROVE  FailureStep /\ OwnerStep /\ FrozenStep /\ LifecycleStep /\ LockStep
<1>1. AccountsKept /\ TransactionsKept(tx.id, "Rejected")
  BY RefusedFrame
<1>2. FailureStep
  BY <1>1 DEF FailureStep, AccountsKept, TransactionsKept
<1>3. OwnerStep /\ FrozenStep
  BY <1>1 DEF OwnerStep, FrozenStep, AccountsKept, TransactionsKept
<1>4. LifecycleStep
  BY <1>1 DEF LifecycleStep, TransactionsKept
<1>5. LockStep
  BY <1>1 DEF LockStep, AccountsKept, TransactionsKept
<1>6. QED
  BY <1>2, <1>3, <1>4, <1>5

LEMMA AcceptedSafe ==
  ASSUME TypeOK, NEW tx \in Transaction, NEW balance, Accepted(tx, balance)
  PROVE  FailureStep /\ OwnerStep /\ FrozenStep /\ LifecycleStep /\ LockStep
<1>1. /\ \A client \in DOMAIN accounts :
           /\ accounts'[client].locked = accounts[client].locked
           /\ client # tx.client => accounts'[client] = accounts[client]
           /\ accounts[client].locked => client # tx.client
      /\ TransactionsKept(tx.id, "Valid")
      /\ reply'.cmd = tx /\ reply'.result = "Ok"
  BY AcceptedFrame
<1>2. FailureStep
  BY <1>1 DEF FailureStep
<1>3. OwnerStep
  BY <1>1 DEF OwnerStep, TransactionsKept
<1>4. FrozenStep
  BY <1>1 DEF FrozenStep, TransactionsKept
<1>5. LifecycleStep
  BY <1>1 DEF LifecycleStep, TransactionsKept
<1>6. LockStep
  BY <1>1 DEF LockStep, TransactionsKept
<1>7. QED
  BY <1>2, <1>3, <1>4, <1>5, <1>6

LEMMA SettledSafe ==
  ASSUME TypeOK, NEW claim \in Claim, NEW balance, NEW to \in TransactionState,
         Settled(claim, balance, to)
  PROVE  FailureStep /\ OwnerStep /\ FrozenStep /\ LifecycleStep /\ LockStep
<1>1. FailureStep
  BY SettledFrame DEF FailureStep
<1>2. OwnerStep
  BY SettledFrame DEF OwnerStep
<1>3. FrozenStep
  BY SettledFrame DEF FrozenStep
<1>4. LifecycleStep
  BY SettledFrame DEF LifecycleStep
<1>5. LockStep
  <2> SUFFICES ASSUME NEW client \in DOMAIN accounts
               PROVE  (~accounts[client].locked /\ accounts'[client].locked) <=>
                        \E id \in DOMAIN transactions :
                          /\ transactions[id].tx.client = client
                          /\ transactions[id].state = "Disputed"
                          /\ transactions'[id].state = "Rejected"
    BY DEF LockStep
  <2>1. CASE client = claim.client /\ to = "Rejected"
    <3>1. accounts'[client].locked /\ ~accounts[client].locked
      <4>1. /\ accounts'[claim.client].locked = (to = "Rejected")
            /\ ~accounts[claim.client].locked
        BY SettledFrame
      <4>2. QED
        BY <2>1, <4>1
    <3>2. /\ claim.tx \in DOMAIN transactions
          /\ transactions[claim.tx].tx.client = client
          /\ transactions[claim.tx].state = "Disputed"
          /\ transactions'[claim.tx].state = "Rejected"
      BY <2>1, SettledFrame
    <3>3. QED
      BY <3>1, <3>2
  <2>2. CASE client # claim.client \/ to # "Rejected"
    <3>1. ~(~accounts[client].locked /\ accounts'[client].locked)
      <4>1. CASE client # claim.client
        BY <4>1, SettledFrame
      <4>2. CASE client = claim.client /\ to # "Rejected"
        <5>1. accounts'[claim.client].locked = (to = "Rejected")
          BY SettledFrame
        <5>2. QED
          BY <4>2, <5>1
      <4>3. QED
        BY <2>2, <4>1, <4>2
    <3>2. \A id \in DOMAIN transactions :
            /\ transactions[id].tx.client = client
            /\ transactions[id].state = "Disputed"
            => transactions'[id].state # "Rejected"
      BY <2>2, SettledFrame
    <3>3. QED
      BY <3>1, <3>2
  <2>3. QED
    BY <2>1, <2>2
<1>6. QED
  BY <1>1, <1>2, <1>3, <1>4, <1>5

LEMMA NextSafe ==
  ASSUME TypeOK, Next
  PROVE  FailureStep /\ OwnerStep /\ FrozenStep /\ LifecycleStep /\ LockStep
BY NextEffect, QuietSafe, RefusedSafe, AcceptedSafe, SettledSafe DEF Effect

(* The error paths of the five handlers leave no trace: a command that     *)
(* fails moves no money and changes no recorded transaction.               *)
THEOREM FailuresAreHarmless == Spec => FailuresMoveNothing
<1>1. TypeOK /\ [Next]_vars => [FailureStep]_vars
  BY NextSafe
<1>2. QED
  BY <1>1, TypeCorrect, PTL DEF Spec, FailuresMoveNothing

(* Nobody's account or transactions change by the command of another.      *)
THEOREM ClientsAreIsolated == Spec => OnlyOwnerMoves
<1>1. TypeOK /\ [Next]_vars => [OwnerStep]_vars
  BY NextSafe
<1>2. QED
  BY <1>1, TypeCorrect, PTL DEF Spec, OnlyOwnerMoves

(* A locked account and its transactions never change again.               *)
THEOREM LockIsForever == Spec => LockedFrozen
<1>1. TypeOK /\ [Next]_vars => [FrozenStep]_vars
  BY NextSafe
<1>2. QED
  BY <1>1, TypeCorrect, PTL DEF Spec, LockedFrozen

(* Transactions are never rewritten and follow their life cycle.           *)
THEOREM LifecycleIsFollowed == Spec => TransactionLifecycle
<1>1. TypeOK /\ [Next]_vars => [LifecycleStep]_vars
  BY NextSafe
<1>2. QED
  BY <1>1, TypeCorrect, PTL DEF Spec, TransactionLifecycle

(* Charging back a transaction and locking its account are one step.       *)
THEOREM ChargebackAndLockAreOne == Spec => ChargebackLocks
<1>1. TypeOK /\ [Next]_vars => [LockStep]_vars
  BY NextSafe
<1>2. QED
  BY <1>1, TypeCorrect, PTL DEF Spec, ChargebackLocks

-----------------------------------------------------------------------------
(* What was answered with Ok stays on record. *)

LEMMA NextRecorded ==
  ASSUME TypeOK, Next
  PROVE  OkMeansRecorded'
<1>1. ASSUME NEW cmd \in Command, NEW result \in Result, Quiet(cmd, result)
      PROVE  OkMeansRecorded'
  <2>1. /\ transactions' = transactions
        /\ cmd \in Transaction /\ result = "Ok" =>
             cmd.id \in DOMAIN transactions /\ transactions[cmd.id].tx = cmd
        /\ reply'.cmd = cmd /\ reply'.result = result
    BY <1>1, ReturnTyped DEF Quiet
  <2>2. QED
    BY <2>1 DEF OkMeansRecorded
<1>2. ASSUME NEW tx \in Transaction, NEW error \in Result, Refused(tx, error)
      PROVE  OkMeansRecorded'
  BY <1>2, RefusedFrame DEF OkMeansRecorded
<1>3. ASSUME NEW tx \in Transaction, NEW balance \in Balance, Accepted(tx, balance)
      PROVE  OkMeansRecorded'
  BY <1>3, AcceptedFrame DEF OkMeansRecorded, TransactionsKept
<1>4. ASSUME NEW claim \in Claim, NEW balance \in Balance, NEW to \in TransactionState,
             Settled(claim, balance, to)
      PROVE  OkMeansRecorded'
  BY <1>4, SettledFrame, ClaimIsNoTransaction DEF OkMeansRecorded
<1>5. QED
  BY <1>1, <1>2, <1>3, <1>4, NextEffect DEF Effect

(* A deposit or withdrawal answered with Ok is on record as submitted.     *)
THEOREM OkIsTruthful == Spec => []OkMeansRecorded
<1>1. Init => OkMeansRecorded
  BY DEF Init, OkMeansRecorded, NoCommand, Transaction
<1>2. TypeOK /\ OkMeansRecorded /\ [Next]_vars => OkMeansRecorded'
  <2>1. TypeOK /\ Next => OkMeansRecorded'
    BY NextRecorded
  <2>2. OkMeansRecorded /\ UNCHANGED vars => OkMeansRecorded'
    BY DEF OkMeansRecorded, vars
  <2>3. QED
    BY <2>1, <2>2
<1>3. QED
  BY <1>1, <1>2, TypeCorrect, PTL DEF Spec
=============================================================================
