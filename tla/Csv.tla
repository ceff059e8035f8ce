-------------------------------- MODULE Csv --------------------------------
(***************************************************************************)
(* The CSV layer, src/csv.rs: which rows of the input become commands and  *)
(* where the program believes they are, and what is written for each       *)
(* account.  The state of CsvCommandReader is its position; rows are cut   *)
(* and deserialised by the csv crate, which is modelled from how csv.rs    *)
(* uses it.                                                                *)
(***************************************************************************)
EXTENDS Transactions, Sequences

CommandType == {"Deposit", "Withdrawal", "Dispute", "Resolve", "Chargeback"}

(* The amount is an Option: dispute, resolve and chargeback need none. *)
CommandRecord == [type : CommandType, client : ClientId, tx : TransactionId,
                  amount : {{}} \cup {{amount} : amount \in Amounts}]

(* The rows that csv returns as errors: one that is no CommandRecord (its  *)
(* length, its type, a number out of range), and a failure to read more of *)
(* the input.                                                              *)
Malformed  == [type |-> "Malformed"]
Unreadable == [type |-> "Unreadable"]

Row == CommandRecord \cup {Malformed, Unreadable}

-----------------------------------------------------------------------------
(* From rows to commands. *)

(* Fault: an absent amount is read as zero. *)
DepositOrZero(record) ==
  {[type |-> record.type, id |-> record.tx, client |-> record.client, amount |-> amount] :
     amount \in IF record.amount = {} THEN {0} ELSE record.amount}

(* Deposits and withdrawals: an error if the amount is absent. *)
ToTransaction(record) ==
  {[type |-> record.type, id |-> record.tx, client |-> record.client, amount |-> amount] :
     amount \in record.amount}

(* Disputes, resolutions and chargebacks: an amount is ignored. *)
ToClaim(record) ==
  {[type |-> record.type, client |-> record.client, tx |-> record.tx]}

ToCommand(record) ==
  IF record.type \in {"Deposit", "Withdrawal"} THEN ToTransaction(record)
  ELSE ToClaim(record)

(* The record of a CsvRow: the command read, or the error. *)
CommandsIn(row) == IF row \in CommandRecord THEN ToCommand(row) ELSE {}

CsvRowError == {"Csv", "ValidationError"}

ErrorOf(row) == IF row \in CommandRecord THEN "ValidationError" ELSE "Csv"

-----------------------------------------------------------------------------
(* Positions: how many records were read, the header included, and the     *)
(* line that the reader has come to.                                       *)

Position == [record : Nat, line : Nat]

(* The header is read when the iterator is made. *)
FirstPosition == [record |-> 1, line |-> 2]

(* Behind a row that follows the blank lines.  Blank lines are skipped in  *)
(* the course of reading the row, and a failed read completes no record.   *)
Behind(position, blank, row) ==
  [record |-> IF row = Unreadable THEN position.record ELSE position.record + 1,
   line |-> position.line + blank + 1]

-----------------------------------------------------------------------------
(* From accounts to rows. *)

(* Fault: what is held is left out of the total. *)
RecordWithoutHeld(account) ==
  {[client |-> account.id, available |-> account.balance.available,
    held |-> account.balance.held, total |-> account.balance.available,
    locked |-> account.locked]}

(* An empty set for the panic of AccountBalance::total. *)
AccountRecord(account) ==
  {[client |-> account.id, available |-> account.balance.available,
    held |-> account.balance.held, total |-> total, locked |-> account.locked] :
     total \in CheckedAdd(account.balance.available, account.balance.held)}

Header == [columns |-> <<"client", "available", "held", "total", "locked">>]
=============================================================================
