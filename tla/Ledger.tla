------------------------------- MODULE Ledger -------------------------------
(***************************************************************************)
(* What the account service promises, without balances and replies: a      *)
(* table of transactions whose states change one at a time, and the set of *)
(* clients locked so far.  A step is allowed exactly when the sums over    *)
(* the table leave the client solvent, so the ledger says which states of  *)
(* the transactions are reachable, and why each step is legal, in terms of *)
(* the transactions alone.                                                 *)
(***************************************************************************)
EXTENDS Transactions

VARIABLES
  txs,     \* The transactions received so far with their states
  locked   \* The clients whose account is locked

ledger == <<txs, locked>>

(* The client's assets cover what is withdrawn and what is held, and they  *)
(* fit in an asset count.                                                  *)
Solvent(table, client) ==
  HeldAssets(table, client) <= OwnedAssets(table, client)
    /\ OwnedAssets(table, client) <= MaxFractions

With(tx, state) == Put(txs, tx.id, [tx |-> tx, state |-> state])

Owner(id) == txs[id].tx.client

-----------------------------------------------------------------------------
(* A new transaction is accepted if it leaves its client solvent, and      *)
(* rejected for good otherwise.                                            *)
Accept(tx) ==
  /\ tx.id \notin DOMAIN txs
  /\ tx.client \notin locked
  /\ Solvent(With(tx, "Valid"), tx.client)
  /\ txs' = With(tx, "Valid")
  /\ UNCHANGED locked

Reject(tx) ==
  /\ tx.id \notin DOMAIN txs
  /\ tx.client \in locked \/ ~Solvent(With(tx, "Valid"), tx.client)
  /\ txs' = With(tx, "Rejected")
  /\ UNCHANGED locked

(* A recorded transaction of a client who is not locked changes its state. *)
Become(id, from, to) ==
  /\ txs[id].state = from
  /\ Owner(id) \notin locked
  /\ txs' = [txs EXCEPT ![id].state = to]
  /\ Solvent(txs', Owner(id))

Dispute(id) == Become(id, "Valid", "Disputed") /\ UNCHANGED locked

Resolve(id) == Become(id, "Disputed", "Valid") /\ UNCHANGED locked

Chargeback(id) ==
  /\ Become(id, "Disputed", "Rejected")
  /\ locked' = locked \cup {Owner(id)}

-----------------------------------------------------------------------------
Init == txs = <<>> /\ locked = {}

Next ==
  \/ \E tx \in Transaction : Accept(tx) \/ Reject(tx)
  \/ \E id \in DOMAIN txs : Dispute(id) \/ Resolve(id) \/ Chargeback(id)

Spec == Init /\ [][Next]_ledger
=============================================================================
