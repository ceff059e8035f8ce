--------------------------- MODULE AccountService ---------------------------
(***************************************************************************)
(* MemAccountService (src/account_service.rs): the in-memory service that  *)
(* keeps every transaction it received and every account it created, and   *)
(* updates both as clients submit deposits, withdrawals, disputes,         *)
(* resolutions and chargebacks.                                            *)
(*                                                                         *)
(* The service is a sequential object: `submit' takes it by &mut self, so  *)
(* a step is one whole command.  What is not fixed is which command comes  *)
(* next: any client may submit any command about any transaction, again,   *)
(* late, or before the transaction it is about.                            *)
(***************************************************************************)
EXTENDS Transactions

CONSTANT WithdrawalDisputePolicy  \* Which disputes of withdrawals to admit

ASSUME PolicyAssumption ==
  WithdrawalDisputePolicy \in {"Deny", "IfMoreAvailableThanDisputed"}

VARIABLES
  transactions,  \* HashMap<TransactionId, TransactionWithState>
  accounts,      \* HashMap<ClientId, MemAccount>
  reply          \* The last command and what submit returned for it

vars == <<transactions, accounts, reply>>

-----------------------------------------------------------------------------
(* What submit returns: Ok, or one of the errors of the five handlers. *)
Result ==
  {"Ok", "Locked", "BalanceUpdateError", "InsufficientAssets", "TransactionIdConflict",
   "NotFound", "InvalidClaimant", "AlreadyRejected", "WithdrawalDisputeDenied", "NonDisputed"}

NoCommand == [type |-> "None"]  \* Nothing was submitted yet

MemAccount == [id : ClientId, locked : BOOLEAN, balance : Balance]

(* Maps of accounts: the id of an account is its key, and its total can be *)
(* computed (AccountBalance::total panics if not).                         *)
AreAccounts(map) ==
  /\ DOMAIN map \subseteq ClientId
  /\ \A client \in DOMAIN map :
       /\ map[client] \in MemAccount
       /\ map[client].id = client
       /\ Total(map[client].balance) \in AssetCount

NewAccount(client) == [id |-> client, locked |-> FALSE, balance |-> NewBalance]

-----------------------------------------------------------------------------
(* upsert_account: the accounts with that of the client in them. *)

UpsertAccount(client) ==
  IF client \in DOMAIN accounts THEN accounts
  ELSE Put(accounts, client, NewAccount(client))

AccountOf(client) == UpsertAccount(client)[client]

Return(cmd, result) == reply' = [cmd |-> cmd, result |-> result]

-----------------------------------------------------------------------------
(* upsert_tx: a transaction is recorded once, by the first command that    *)
(* carries its id, as valid if the handler applied it and as rejected if   *)
(* the handler failed.  The account exists from then on, in all cases.     *)

(* Fault: any transaction with a known id passes for a retry of it. *)
RepeatById(tx) ==
  /\ tx.id \in DOMAIN transactions
  /\ Return(tx, "Ok")
  /\ accounts' = UpsertAccount(tx.client)
  /\ UNCHANGED transactions

(* The id is known: the handler is not called. *)
Repeat(tx) ==
  /\ tx.id \in DOMAIN transactions
  /\ Return(tx, IF transactions[tx.id].tx = tx THEN "Ok" ELSE "TransactionIdConflict")
  /\ accounts' = UpsertAccount(tx.client)
  /\ UNCHANGED transactions

Insert(tx, state) ==
  transactions' = Put(transactions, tx.id, [tx |-> tx, state |-> state])

(* Faults: the handler runs again for a retry, or for one that was rejected. *)
IsNewAlways(tx) == TRUE
IsNewOrRejected(tx) ==
  tx.id \in DOMAIN transactions => transactions[tx.id].state = "Rejected"

IsNew(tx) == tx.id \notin DOMAIN transactions

(* The handler failed with the error. *)
Reject(tx, error) ==
  /\ Insert(tx, "Rejected")
  /\ accounts' = UpsertAccount(tx.client)
  /\ Return(tx, error)

(* The handler ends with a balance update, which may fail. *)
Post(tx, newBalance) ==
  \/ /\ newBalance = {}
     /\ Reject(tx, "BalanceUpdateError")
  \/ \E balance \in newBalance :
       /\ Insert(tx, "Valid")
       /\ accounts' = [UpsertAccount(tx.client) EXCEPT ![tx.client].balance = balance]
       /\ Return(tx, "Ok")

SubmitDeposit(tx) ==
  LET account == AccountOf(tx.client) IN
  /\ tx.type = "Deposit"
  /\ \/ Repeat(tx)
     \/ IsNew(tx) /\ account.locked /\ Reject(tx, "Locked")
     \/ IsNew(tx) /\ ~account.locked /\ Post(tx, IncAvailable(account.balance, tx.amount))

SubmitWithdrawal(tx) ==
  LET account == AccountOf(tx.client)
      covered == account.balance.available >= tx.amount
  IN
  /\ tx.type = "Withdrawal"
  /\ \/ Repeat(tx)
     \/ IsNew(tx) /\ account.locked /\ Reject(tx, "Locked")
     \/ IsNew(tx) /\ ~account.locked /\ ~covered /\ Reject(tx, "InsufficientAssets")
     \/ /\ IsNew(tx) /\ ~account.locked /\ covered
        /\ Post(tx, DecAvailable(account.balance, tx.amount))

-----------------------------------------------------------------------------
(* Claims on a recorded transaction. *)

ClaimedTx(claim) == transactions[claim.tx].tx

StateOf(claim) == transactions[claim.tx].state

OwnerOf(claim) == AccountOf(ClaimedTx(claim).client)

(* The claim ends with the result and moves nothing. *)
Answer(claim, result) ==
  /\ Return(claim, result)
  /\ accounts' = UpsertAccount(ClaimedTx(claim).client)
  /\ UNCHANGED transactions

(* The checks that the three claims begin with, in the code's order. *)
Refuse(claim) ==
  \/ /\ claim.tx \notin DOMAIN transactions
     /\ Return(claim, "NotFound")
     /\ UNCHANGED <<transactions, accounts>>
  \/ /\ claim.tx \in DOMAIN transactions
     /\ claim.client # OwnerOf(claim).id
     /\ Answer(claim, "InvalidClaimant")
  \/ /\ claim.tx \in DOMAIN transactions
     /\ claim.client = OwnerOf(claim).id
     /\ OwnerOf(claim).locked
     /\ Answer(claim, "Locked")

(* Faults: the claimant, or the lock, is not checked. *)
AdmissibleForAnyone(claim) ==
  claim.tx \in DOMAIN transactions /\ ~OwnerOf(claim).locked
AdmissibleWhenLocked(claim) ==
  claim.tx \in DOMAIN transactions /\ claim.client = OwnerOf(claim).id

Admissible(claim) ==
  /\ claim.tx \in DOMAIN transactions
  /\ claim.client = OwnerOf(claim).id
  /\ ~OwnerOf(claim).locked

(* Fault: the account is not locked. *)
ApplyUnlocked(claim, balance, state, locks) ==
  /\ Return(claim, "Ok")
  /\ transactions' = [transactions EXCEPT ![claim.tx].state = state]
  /\ accounts' = [UpsertAccount(ClaimedTx(claim).client) EXCEPT
                    ![ClaimedTx(claim).client].balance = balance]

(* The claim changes the balance, then the lock, then the transaction. *)
Apply(claim, balance, state, locks) ==
  /\ Return(claim, "Ok")
  /\ transactions' = [transactions EXCEPT ![claim.tx].state = state]
  /\ accounts' = [UpsertAccount(ClaimedTx(claim).client) EXCEPT
                    ![ClaimedTx(claim).client].balance = balance,
                    ![ClaimedTx(claim).client].locked = @ \/ locks]

(* Fault: the account is locked before the balance update that may fail. *)
SettleLocksFirst(claim, newBalance, state, locks) ==
  \/ /\ newBalance = {}
     /\ Return(claim, "BalanceUpdateError")
     /\ accounts' = [accounts EXCEPT ![claim.client].locked = @ \/ locks]
     /\ UNCHANGED transactions
  \/ \E balance \in newBalance : Apply(claim, balance, state, locks)

(* The claim ends with a balance update; if it fails, nothing else happens. *)
Settle(claim, newBalance, state, locks) ==
  \/ /\ newBalance = {}
     /\ Answer(claim, "BalanceUpdateError")
  \/ \E balance \in newBalance : Apply(claim, balance, state, locks)

-----------------------------------------------------------------------------
(* Fault: the policy is not consulted. *)
PolicyIgnored(tx) == TRUE

(* Whether the policy admits a dispute about the transaction at all. *)
PolicyAllows(tx) ==
  tx.type = "Deposit" \/ WithdrawalDisputePolicy = "IfMoreAvailableThanDisputed"

(* Fault: the dispute is not checked against the available assets. *)
CoverableAlways(claim) == TRUE

(* Enough is available to be held. *)
Coverable(claim) == OwnerOf(claim).balance.available >= ClaimedTx(claim).amount

DisputeValid(claim) ==
  \/ /\ ~PolicyAllows(ClaimedTx(claim))
     /\ Answer(claim, "WithdrawalDisputeDenied")
  \/ /\ PolicyAllows(ClaimedTx(claim))
     /\ ~Coverable(claim)
     /\ Answer(claim, "InsufficientAssets")
  \/ /\ PolicyAllows(ClaimedTx(claim))
     /\ Coverable(claim)
     /\ Settle(claim, MoveAvailableToHeld(OwnerOf(claim).balance, ClaimedTx(claim).amount),
               "Disputed", FALSE)

SubmitDispute(claim) ==
  /\ claim.type = "Dispute"
  /\ \/ Refuse(claim)
     \/ /\ Admissible(claim)
        /\ \/ StateOf(claim) = "Rejected" /\ Answer(claim, "AlreadyRejected")
           \/ StateOf(claim) = "Disputed" /\ Answer(claim, "Ok")
           \/ StateOf(claim) = "Valid" /\ DisputeValid(claim)

SubmitResolve(claim) ==
  /\ claim.type = "Resolve"
  /\ \/ Refuse(claim)
     \/ /\ Admissible(claim)
        /\ \/ StateOf(claim) = "Rejected" /\ Answer(claim, "AlreadyRejected")
           \/ StateOf(claim) = "Valid" /\ Answer(claim, "Ok")
           \/ /\ StateOf(claim) = "Disputed"
              /\ Settle(claim,
                        MoveHeldToAvailable(OwnerOf(claim).balance, ClaimedTx(claim).amount),
                        "Valid", FALSE)

(* Fault: the chargeback of a withdrawal is handled as that of a deposit. *)
RevertAsDeposit(balance, tx) ==
  UNION {Update(balance.available, held) : held \in CheckedSub(balance.held, tx.amount)}

(* The balance without the disputed transaction: the held assets are taken *)
(* back for a deposit; for a withdrawal they are released and the assets   *)
(* withdrawn are refunded on top of them.                                  *)
Revert(balance, tx) ==
  IF tx.type = "Deposit"
  THEN UNION {Update(balance.available, held) :
                held \in CheckedSub(balance.held, tx.amount)}
  ELSE UNION {Update(refunded, held) :
                held \in CheckedSub(balance.held, tx.amount),
                refunded \in UNION {CheckedAdd(released, tx.amount) :
                  released \in CheckedAdd(balance.available, tx.amount)}}

SubmitChargeback(claim) ==
  /\ claim.type = "Chargeback"
  /\ \/ Refuse(claim)
     \/ /\ Admissible(claim)
        /\ \/ StateOf(claim) = "Rejected" /\ Answer(claim, "Ok")
           \/ StateOf(claim) = "Valid" /\ Answer(claim, "NonDisputed")
           \/ /\ StateOf(claim) = "Disputed"
              /\ Settle(claim, Revert(OwnerOf(claim).balance, ClaimedTx(claim)),
                        "Rejected", TRUE)

-----------------------------------------------------------------------------
Init ==
  /\ transactions = <<>>
  /\ accounts = <<>>
  /\ reply = [cmd |-> NoCommand, result |-> "Ok"]

Next ==
  \/ \E tx \in Transaction : SubmitDeposit(tx) \/ SubmitWithdrawal(tx)
  \/ \E claim \in Claim :
       SubmitDispute(claim) \/ SubmitResolve(claim) \/ SubmitChargeback(claim)

Spec == Init /\ [][Next]_vars

-----------------------------------------------------------------------------
(* What the service guarantees. *)

(* The maps hold what their types say, under the keys that the comments of *)
(* MemAccountService promise, the total of every account can be computed,  *)
(* and the owner of every transaction has an account, so that a claim      *)
(* never creates one.                                                      *)
TypeOK ==
  /\ IsTable(transactions)
  /\ AreAccounts(accounts)
  /\ \A id \in DOMAIN transactions : transactions[id].tx.client \in DOMAIN accounts
  /\ reply \in [cmd : Command \cup {NoCommand}, result : Result]

(* The balances that the handlers update step by step are the ones that    *)
(* the transactions add up to, whatever was disputed, resolved, charged    *)
(* back, refused or repeated on the way: what is held is the sum of the    *)
(* open disputes, and the total the deposits less the withdrawals that     *)
(* were not rejected.                                                      *)
BalanceIsLedger ==
  \A client \in DOMAIN accounts :
    /\ accounts[client].balance.held = HeldAssets(transactions, client)
    /\ Total(accounts[client].balance) = OwnedAssets(transactions, client)

(* A balance update fails only where money enters an account that cannot   *)
(* hold it: a deposit, or the refund of a withdrawal charged back.  In     *)
(* withdrawals, disputes, resolutions and the chargeback of a deposit, the *)
(* error paths of the code are unreachable.                                *)
OverflowStep ==
  reply'.result = "BalanceUpdateError" =>
    LET cmd == reply'.cmd
        tx == IF cmd.type \in {"Deposit", "Withdrawal"} THEN cmd
              ELSE transactions[cmd.tx].tx
    IN  /\ <<cmd.type, tx.type>> \in
             {<<"Deposit", "Deposit">>, <<"Chargeback", "Withdrawal">>}
        /\ OwnedAssets(transactions, tx.client) + tx.amount > MaxFractions

OverflowOnlyWhenFull == [][OverflowStep]_vars

(* A command that fails moves nothing: accounts and transactions stay as   *)
(* they are, a new account is empty and a new transaction rejected.  No    *)
(* error path leaves a command half done.                                  *)
FailureStep ==
  reply'.result # "Ok" =>
    /\ \A client \in DOMAIN accounts' :
         accounts'[client] = IF client \in DOMAIN accounts
                             THEN accounts[client] ELSE NewAccount(client)
    /\ \A id \in DOMAIN transactions' :
         IF id \in DOMAIN transactions
         THEN transactions'[id] = transactions[id]
         ELSE transactions'[id].state = "Rejected"

FailuresMoveNothing == [][FailureStep]_vars

(* Only the client who submits a command can see its account change by it, *)
(* and only its own transactions: not even the dispute of a transaction by *)
(* another client, or the reuse of its id, reaches somebody else's money.  *)
OwnerStep ==
  /\ \A client \in DOMAIN accounts :
       client # reply'.cmd.client => accounts'[client] = accounts[client]
  /\ \A id \in DOMAIN transactions :
       transactions[id].tx.client # reply'.cmd.client =>
         transactions'[id] = transactions[id]

OnlyOwnerMoves == [][OwnerStep]_vars

(* "Locked forever and any modification to its state is prevented": the    *)
(* account and every transaction of a locked client stay as they are.      *)
FrozenStep ==
  \A client \in DOMAIN accounts : accounts[client].locked =>
    /\ accounts'[client] = accounts[client]
    /\ \A id \in DOMAIN transactions :
         transactions[id].tx.client = client =>
           transactions'[id] = transactions[id]

LockedFrozen == [][FrozenStep]_vars

(* A recorded transaction is never forgotten or rewritten, it can only be  *)
(* charged back while disputed, and it stays rejected once rejected.       *)
LifecycleStep ==
  \A id \in DOMAIN transactions :
    /\ id \in DOMAIN transactions'
    /\ transactions'[id].tx = transactions[id].tx
    /\ \/ transactions'[id].state = transactions[id].state
       \/ <<transactions[id].state, transactions'[id].state>> \in
            {<<"Valid", "Disputed">>, <<"Disputed", "Valid">>,
             <<"Disputed", "Rejected">>}

TransactionLifecycle == [][LifecycleStep]_vars

(* An account is locked by the step that charges back a transaction of its *)
(* client, and by no other: refund and lock are one step, also when the    *)
(* refund overflows and neither may happen.                                *)
LockStep ==
  \A client \in DOMAIN accounts :
    (~accounts[client].locked /\ accounts'[client].locked) <=>
      \E id \in DOMAIN transactions :
        /\ transactions[id].tx.client = client
        /\ transactions[id].state = "Disputed"
        /\ transactions'[id].state = "Rejected"

ChargebackLocks == [][LockStep]_vars

(* A command delivered twice in a row has the effect of one: nothing moves *)
(* the second time, whichever way the first ended.                         *)
RedeliveryStep ==
  reply'.cmd = reply.cmd => UNCHANGED <<transactions, accounts>>

RedeliveryIdempotent == [][RedeliveryStep]_vars

(* A deposit or withdrawal that was answered with Ok is on record as it    *)
(* was submitted: an id that another transaction holds is never accepted.  *)
OkMeansRecorded ==
  reply.cmd \in Transaction /\ reply.result = "Ok" =>
    /\ reply.cmd.id \in DOMAIN transactions
    /\ transactions[reply.cmd.id].tx = reply.cmd

(* Disputes and resolutions cost nothing, so that one which comes back     *)
(* late, when all was settled long ago, only freezes assets again: however *)
(* often they are submitted, no total changes and no account is locked.    *)
DisputeStep ==
  reply'.cmd.type \in {"Dispute", "Resolve"} =>
    \A client \in DOMAIN accounts :
      /\ Total(accounts'[client].balance) = Total(accounts[client].balance)
      /\ accounts'[client].locked = accounts[client].locked

DisputesCostNothing == [][DisputeStep]_vars

(* Under the policy that denies the disputes of withdrawals, no claim can  *)
(* make an account richer: only a deposit increases a total.               *)
PayInStep ==
  \A client \in DOMAIN accounts :
    Total(accounts'[client].balance) > Total(accounts[client].balance) =>
      reply'.cmd.type = "Deposit"

OnlyDepositsPayIn == [][PayInStep]_vars

(* "Clients are automatically created [...] the first time they are        *)
(* mentioned" (README.md:47): every client who submitted a command has an  *)
(* account.                                                                *)
MentionedHaveAccounts ==
  reply.cmd # NoCommand => reply.cmd.client \in DOMAIN accounts

(* "Allow the dispute only if the amount is less than the available        *)
(* assets" (account_service.rs:10).                                        *)
DisputedIsLessThanAvailable ==
  [][\A id \in DOMAIN transactions :
       LET tx == transactions[id].tx IN
       /\ tx.type = "Withdrawal"
       /\ transactions[id].state = "Valid"
       /\ transactions'[id].state = "Disputed"
       => tx.amount < accounts[tx.client].balance.available]_vars

LockedClients == {client \in DOMAIN accounts : accounts[client].locked}

TheLedger == INSTANCE Ledger WITH txs <- transactions, locked <- LockedClients

(* The service implements the ledger: it accepts a new transaction exactly *)
(* when its client stays solvent, and every change it makes to a recorded  *)
(* one leaves the client solvent by the sums over the transactions.        *)
ImplementsLedger == TheLedger!Spec
=============================================================================
