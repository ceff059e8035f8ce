---------------------------- MODULE TxGenerator ----------------------------
(***************************************************************************)
(* The sample generator, txgenerator/src/main.rs: CommandGenerator draws   *)
(* random commands, most of them transactions, some of them claims about   *)
(* transactions that it remembers, and main writes them to a CSV file.     *)
(*                                                                         *)
(* Probabilities are left out: each draw may have every outcome that its   *)
(* distribution gives.  A Vec from which random elements are taken (and    *)
(* swapped out of their place) is a bag.                                   *)
(***************************************************************************)
EXTENDS Csv, BagsExt, Bags

CONSTANTS
  CMD_COUNT,  \* The number of commands to generate
  TX_COUNT    \* Ids that are not sequential are drawn below this one

ASSUME CountsAssumption ==
  /\ CMD_COUNT \in Nat /\ TX_COUNT \in Nat
  /\ 0 .. CMD_COUNT - 1 \subseteq TransactionId
  /\ 0 .. TX_COUNT - 1 \subseteq TransactionId
ASSUME ClientsAssumption == ClientId \subseteq Nat

VARIABLES
  next_tx,        \* The next sequential transaction id
  disputable_tx,  \* Vec<(ClientId, TransactionId)>: what may be disputed
  open_disputes,  \* Vec<(ClientId, TransactionId)>: what may be settled
  generated,      \* The commands generated so far (history)
  file            \* The rows of the file so far

vars == <<next_tx, disputable_tx, open_disputes, generated, file>>

RandomId == 0 .. TX_COUNT - 1

Target == ClientId \X TransactionId

-----------------------------------------------------------------------------
(* main: a row for each command. *)

(* The rows of claims have the client in the place of the id. *)
RowOf(cmd) ==
  IF cmd \in Transaction
  THEN [type |-> cmd.type, client |-> cmd.client, tx |-> cmd.id, amount |-> {cmd.amount}]
  ELSE [type |-> cmd.type, client |-> cmd.client, tx |-> cmd.client, amount |-> {}]

(* The generator never ends; main takes CMD_COUNT commands from it.  It    *)
(* panics if a row cannot be written, and the command stays without one.   *)
Write(cmd) ==
  /\ Len(generated) < CMD_COUNT
  /\ Len(file) = Len(generated)
  /\ generated' = Append(generated, cmd)
  /\ \/ file' = Append(file, RowOf(cmd))
     \/ UNCHANGED file

-----------------------------------------------------------------------------
GenTx(type, client, id, amount, remember) ==
  /\ \/ id = next_tx /\ next_tx' = next_tx + 1
     \/ id \in RandomId /\ UNCHANGED next_tx
  /\ disputable_tx' = IF remember THEN BagAdd(disputable_tx, <<client, id>>)
                      ELSE disputable_tx
  /\ Write([type |-> type, id |-> id, client |-> client, amount |-> amount])
  /\ UNCHANGED open_disputes

(* pick_dispute: the element picked, none if there is none, with what is   *)
(* left of the list; mostly, but not always, the element is removed.       *)
PickDispute(from) ==
  IF from = EmptyBag THEN {[base |-> {}, rest |-> from]}
  ELSE UNION {{[base |-> {pair}, rest |-> rest] : rest \in {from, BagRemove(from, pair)}} :
                pair \in BagToSet(from)}

(* derive_dispute: the client, the id or both may be replaced at random. *)
DeriveDispute(base) ==
  base \cup (ClientId \X {pair[2] : pair \in base})
       \cup ({pair[1] : pair \in base} \X RandomId)
       \cup (ClientId \X RandomId)

(* Fault: what was derived is remembered, whatever it was derived from. *)
AlwaysRemembered(to, pair, base) == {to, BagAdd(to, pair)}

(* The pair goes to the other list if it is the one picked, mostly. *)
Remembered(to, pair, base) ==
  IF base = {pair} THEN {to, BagAdd(to, pair)} ELSE {to}

GenDispute ==
  \E pick \in PickDispute(disputable_tx) :
    \E pair \in DeriveDispute(pick.base) :
      /\ disputable_tx' = pick.rest
      /\ open_disputes' \in Remembered(open_disputes, pair, pick.base)
      /\ Write([type |-> "Dispute", client |-> pair[1], tx |-> pair[2]])
      /\ UNCHANGED next_tx

(* gen_resolve and gen_chargeback: a settled dispute may be opened anew. *)
GenSettlement(type) ==
  \E pick \in PickDispute(open_disputes) :
    \E pair \in DeriveDispute(pick.base) :
      /\ open_disputes' = pick.rest
      /\ disputable_tx' \in Remembered(disputable_tx, pair, pick.base)
      /\ Write([type |-> type, client |-> pair[1], tx |-> pair[2]])
      /\ UNCHANGED next_tx

Init ==
  /\ next_tx = 0
  /\ disputable_tx = EmptyBag
  /\ open_disputes = EmptyBag
  /\ generated = <<>>
  /\ file = <<>>

Next ==
  \/ \E type \in {"Deposit", "Withdrawal"}, client \in ClientId,
        id \in TransactionId, amount \in Amounts, remember \in BOOLEAN :
       GenTx(type, client, id, amount, remember)
  \/ GenDispute
  \/ \E type \in {"Resolve", "Chargeback"} : GenSettlement(type)

Spec == Init /\ [][Next]_vars

-----------------------------------------------------------------------------
(* What the generator promises of its samples. *)

(* The commands of the type about the client's transaction. *)
About(types, pair) ==
  {i \in DOMAIN generated :
     LET cmd == generated[i] IN
     /\ cmd.type \in types
     /\ pair = <<cmd.client, IF cmd.type \in {"Deposit", "Withdrawal"} THEN cmd.id ELSE cmd.tx>>}

(* The lists that claims are drawn from follow the history: an open        *)
(* dispute was generated after its transaction and once for each of its    *)
(* entries, and a transaction becomes disputable once when it is generated *)
(* and once for each of its settlements.                                   *)
ListsFollowHistory ==
  /\ \A pair \in BagToSet(open_disputes) :
       /\ open_disputes[pair] <= Cardinality(About({"Dispute"}, pair))
       /\ \E i \in About({"Deposit", "Withdrawal"}, pair), j \in About({"Dispute"}, pair) :
            i < j
  /\ \A pair \in BagToSet(disputable_tx) :
       /\ About({"Deposit", "Withdrawal"}, pair) # {}
       /\ disputable_tx[pair] <=
            Cardinality(About({"Deposit", "Withdrawal", "Resolve", "Chargeback"}, pair))

(* "type, client, tx, amount" (main.rs:65): the rows of the file are read  *)
(* as the commands that were generated.                                    *)
WrittenIsGenerated ==
  \A i \in DOMAIN file : generated[i] \in ToCommand(file[i])
=============================================================================
