---------------------------- MODULE Transactions ----------------------------
(***************************************************************************)
(* Transactions and what a table of them says about each client: the       *)
(* Transaction of src/core.rs with the state that src/account_service.rs   *)
(* keeps beside it, and the balances that follow from a table by addition  *)
(* alone.  The program never computes those sums, it updates balances      *)
(* command by command: they are the reference it is compared with.         *)
(***************************************************************************)
EXTENDS AccountBalance, FiniteSets, Functions

CONSTANTS
  ClientId,       \* The clients (u16 in the program)
  TransactionId,  \* The transaction ids (u32 in the program)
  Amounts         \* The amounts that transactions are submitted with

ASSUME TransactionIdAssumption == IsFiniteSet(TransactionId)
ASSUME AmountsAssumption == Amounts \subseteq AssetCount

(* A deposit or withdrawal command carries exactly the transaction it asks *)
(* for (to_deposit_tx, to_withdrawal_tx), so one record stands for both.   *)
Transaction == [type : {"Deposit", "Withdrawal"}, id : TransactionId,
                client : ClientId, amount : Amounts]

(* Commands: a transaction to record, or a claim about one. *)
Claim == [type : {"Dispute", "Resolve", "Chargeback"}, client : ClientId,
          tx : TransactionId]

Command == Transaction \cup Claim

TransactionState == {"Valid", "Disputed", "Rejected"}

TransactionWithState == [tx : Transaction, state : TransactionState]

(* The map with the key bound to the value (the insert of a HashMap). *)
Put(map, key, value) ==
  [k \in DOMAIN map \cup {key} |-> IF k = key THEN value ELSE map[k]]

(* Tables of transactions: the id of a transaction is its key. *)
IsTable(txs) ==
  /\ DOMAIN txs \subseteq TransactionId
  /\ \A id \in DOMAIN txs : txs[id] \in TransactionWithState /\ txs[id].tx.id = id

-----------------------------------------------------------------------------
(* The reference balances. *)

SumOfAmounts(txs, ids) == SumFunctionOnSet([id \in ids |-> txs[id].tx.amount], ids)

InState(txs, client, types, states) ==
  {id \in DOMAIN txs : /\ txs[id].tx.client = client
                       /\ txs[id].tx.type \in types
                       /\ txs[id].state \in states}

Deposited(txs, client) ==
  SumOfAmounts(txs, InState(txs, client, {"Deposit"}, {"Valid", "Disputed"}))

Withdrawn(txs, client) ==
  SumOfAmounts(txs, InState(txs, client, {"Withdrawal"}, {"Valid", "Disputed"}))

(* What the client owns, and the part of it that open disputes freeze. *)
OwnedAssets(txs, client) == Deposited(txs, client) - Withdrawn(txs, client)

HeldAssets(txs, client) ==
  SumOfAmounts(txs, InState(txs, client, {"Deposit", "Withdrawal"}, {"Disputed"}))
=============================================================================
