----------------------- MODULE AccountServiceBalances -----------------------
(***************************************************************************)
(* The balances that the handlers maintain step by step are the sums over  *)
(* the recorded transactions.                                              *)
(***************************************************************************)
EXTENDS AccountServiceProofs

-----------------------------------------------------------------------------
(* Sums of amounts over sets of recorded transactions. *)

LEMMA AmountsAreNat ==
  ASSUME NEW txs, IsTable(txs), NEW ids \in SUBSET DOMAIN txs
  PROVE  /\ IsFiniteSet(ids)
         /\ \A id \in ids : txs[id].tx.amount \in Nat
<1>1. ids \subseteq TransactionId
  BY DEF IsTable
<1>2. IsFiniteSet(ids)
  BY <1>1, TransactionIdAssumption, FS_Subset
<1>3. ASSUME NEW id \in ids PROVE txs[id].tx.amount \in Nat
  <2>1. txs[id].tx \in Transaction
    BY DEF IsTable, TransactionWithState
  <2>2. txs[id].tx.amount \in AssetCount
    BY <2>1, AmountFacts
  <2>3. QED
    BY <2>2, MaxFractionsAssumption DEF AssetCount
<1>4. QED
  BY <1>2, <1>3

(* The sum reads the amounts only. *)
LEMMA SameAmountsSameSum ==
  ASSUME NEW txs, IsTable(txs), NEW new, NEW ids \in SUBSET DOMAIN txs,
         \A id \in ids : new[id].tx.amount = txs[id].tx.amount
  PROVE  SumOfAmounts(new, ids) = SumOfAmounts(txs, ids)
<1> DEFINE f == [id \in ids |-> txs[id].tx.amount]
           g == [id \in ids |-> new[id].tx.amount]
<1>1. IsFiniteSet(ids)
  BY AmountsAreNat
<1>2. \A id \in ids : f[id] = g[id]
  OBVIOUS
<1> HIDE DEF f, g
<1>3. SumFunctionOnSet(f, ids) = SumFunctionOnSet(g, ids)
  BY <1>1, <1>2, SumCongruence
<1>4. QED
  BY <1>3 DEF SumOfAmounts, f, g

(* One more transaction adds its amount. *)
LEMMA OneMoreInSum ==
  ASSUME NEW txs, IsTable(txs), NEW ids \in SUBSET DOMAIN txs,
         NEW one \in DOMAIN txs, one \notin ids
  PROVE  /\ SumOfAmounts(txs, ids \cup {one}) = SumOfAmounts(txs, ids) + txs[one].tx.amount
         /\ SumOfAmounts(txs, ids) \in Nat
         /\ txs[one].tx.amount \in Nat
<1> DEFINE all == ids \cup {one}
           f == [id \in all |-> txs[id].tx.amount]
           g == [id \in ids |-> txs[id].tx.amount]
<1>1. all \in SUBSET DOMAIN txs
  OBVIOUS
<1>2. /\ IsFiniteSet(all) /\ IsFiniteSet(ids)
      /\ \A id \in all : txs[id].tx.amount \in Nat
  BY <1>1, AmountsAreNat
<1>3. /\ \A id \in all : f[id] \in Nat
      /\ \A id \in ids : g[id] \in Nat
      /\ \A id \in ids : f[id] = g[id]
      /\ f[one] = txs[one].tx.amount
      /\ one \in all /\ all \ {one} = ids
  BY <1>2
<1> HIDE DEF f, g
<1>4. SumFunctionOnSet(f, all) = f[one] + SumFunctionOnSet(f, all \ {one})
  <2> HIDE DEF all
  <2>1. QED
    BY <1>2, <1>3, SumRemove
<1>5. SumFunctionOnSet(f, ids) = SumFunctionOnSet(g, ids)
  BY <1>2, <1>3, SumCongruence
<1>6. SumFunctionOnSet(g, ids) \in Nat
  BY <1>2, <1>3, SumNat
<1>7. /\ SumOfAmounts(txs, all) = SumFunctionOnSet(f, all)
      /\ SumOfAmounts(txs, ids) = SumFunctionOnSet(g, ids)
  BY DEF SumOfAmounts, f, g
<1>8. SumFunctionOnSet(f, all) = txs[one].tx.amount + SumFunctionOnSet(g, ids)
  BY <1>3, <1>4, <1>5
<1>9. txs[one].tx.amount \in Nat
  BY <1>2
<1> HIDE DEF all
<1>10. SumOfAmounts(txs, all) = SumOfAmounts(txs, ids) + txs[one].tx.amount
  BY <1>6, <1>7, <1>8, <1>9
<1>11. QED
  BY <1>6, <1>7, <1>9, <1>10 DEF all

LEMMA SumIsNat ==
  ASSUME NEW txs, IsTable(txs), NEW ids \in SUBSET DOMAIN txs
  PROVE  SumOfAmounts(txs, ids) \in Nat
<1> DEFINE f == [id \in ids |-> txs[id].tx.amount]
<1>1. IsFiniteSet(ids) /\ \A id \in ids : f[id] \in Nat
  BY AmountsAreNat
<1> HIDE DEF f
<1>2. SumFunctionOnSet(f, ids) \in Nat
  BY <1>1, SumNat
<1>3. QED
  BY <1>2 DEF SumOfAmounts, f

(* The three reference balances are sums over sets of recorded ids. *)
LEMMA BalancesAreNat ==
  ASSUME NEW txs, IsTable(txs), NEW client
  PROVE  /\ Deposited(txs, client) \in Nat
         /\ Withdrawn(txs, client) \in Nat
         /\ HeldAssets(txs, client) \in Nat
         /\ OwnedAssets(txs, client) \in Int
<1>1. \A types, states : InState(txs, client, types, states) \in SUBSET DOMAIN txs
  BY DEF InState
<1>2. /\ Deposited(txs, client) \in Nat /\ Withdrawn(txs, client) \in Nat
      /\ HeldAssets(txs, client) \in Nat
  BY <1>1, SumIsNat DEF Deposited, Withdrawn, HeldAssets
<1>3. QED
  BY <1>2 DEF OwnedAssets

-----------------------------------------------------------------------------
(* How the reference balances of a client change with the table. *)

(* The sum over a set that gains a transaction, from one table to another. *)
LEMMA GainingSum ==
  ASSUME NEW txs, IsTable(txs), NEW new, IsTable(new),
         NEW ids \in SUBSET DOMAIN txs, ids \subseteq DOMAIN new,
         \A id \in ids : new[id].tx.amount = txs[id].tx.amount,
         NEW one \in DOMAIN new, one \notin ids
  PROVE  SumOfAmounts(new, ids \cup {one}) = SumOfAmounts(txs, ids) + new[one].tx.amount
<1>1. SumOfAmounts(new, ids) = SumOfAmounts(txs, ids)
  BY SameAmountsSameSum
<1>2. QED
  BY <1>1, OneMoreInSum

(* A client whose transactions stay as they are, rejected ones aside, has  *)
(* the balances it had.                                                    *)
LEMMA UntouchedClient ==
  ASSUME NEW txs, IsTable(txs), NEW new, NEW client,
         DOMAIN txs \subseteq DOMAIN new,
         \A id \in DOMAIN txs :
           /\ new[id].tx = txs[id].tx
           /\ txs[id].tx.client = client => new[id] = txs[id],
         \A id \in DOMAIN new \ DOMAIN txs :
           new[id].tx.client = client => new[id].state = "Rejected"
  PROVE  /\ HeldAssets(new, client) = HeldAssets(txs, client)
         /\ OwnedAssets(new, client) = OwnedAssets(txs, client)
<1>1. ASSUME NEW types, NEW states, "Rejected" \notin states
      PROVE  /\ InState(new, client, types, states) = InState(txs, client, types, states)
             /\ SumOfAmounts(new, InState(new, client, types, states)) =
                  SumOfAmounts(txs, InState(txs, client, types, states))
  <2> DEFINE ids == InState(txs, client, types, states)
  <2>1. InState(new, client, types, states) = ids
    BY <1>1 DEF InState
  <2>2. ids \in SUBSET DOMAIN txs /\ \A id \in ids : new[id].tx.amount = txs[id].tx.amount
    BY DEF InState
  <2> HIDE DEF ids
  <2>3. SumOfAmounts(new, ids) = SumOfAmounts(txs, ids)
    BY <2>2, SameAmountsSameSum
  <2>4. QED
    BY <2>1, <2>3 DEF ids
<1>2. HeldAssets(new, client) = HeldAssets(txs, client)
  BY <1>1 DEF HeldAssets
<1>3. /\ Deposited(new, client) = Deposited(txs, client)
      /\ Withdrawn(new, client) = Withdrawn(txs, client)
  BY <1>1 DEF Deposited, Withdrawn
<1>4. QED
  BY <1>2, <1>3 DEF OwnedAssets

(* A client none of whose transactions is recorded has nothing. *)
LEMMA UnknownClient ==
  ASSUME NEW txs, NEW client, \A id \in DOMAIN txs : txs[id].tx.client # client
  PROVE  HeldAssets(txs, client) = 0 /\ OwnedAssets(txs, client) = 0
<1>1. \A types, states : InState(txs, client, types, states) = {}
  BY DEF InState
<1>2. SumOfAmounts(txs, {}) = 0
  BY SumEmpty DEF SumOfAmounts
<1>3. QED
  BY <1>1, <1>2 DEF HeldAssets, OwnedAssets, Deposited, Withdrawn

(* A transaction recorded as valid pays in, or out. *)
LEMMA AcceptedSums ==
  ASSUME NEW txs, IsTable(txs), NEW new, IsTable(new),
         NEW one, one \notin DOMAIN txs, DOMAIN new = DOMAIN txs \cup {one},
         new[one].state = "Valid",
         \A id \in DOMAIN txs : new[id] = txs[id]
  PROVE  LET tx == new[one].tx IN
         /\ HeldAssets(new, tx.client) = HeldAssets(txs, tx.client)
         /\ OwnedAssets(new, tx.client) = OwnedAssets(txs, tx.client)
              + (IF tx.type = "Deposit" THEN tx.amount ELSE 0 - tx.amount)
<1> DEFINE tx == new[one].tx
           client == tx.client
           In(table, types, states) == InState(table, client, types, states)
           Counted == {"Valid", "Disputed"}
<1>1. tx \in Transaction /\ tx.amount \in Int
  <2>1. tx \in Transaction
    BY DEF IsTable, TransactionWithState
  <2>2. QED
    BY <2>1, AmountFacts
<1>2. ASSUME NEW types, NEW states, ~("Valid" \in states /\ tx.type \in types)
      PROVE  SumOfAmounts(new, In(new, types, states)) = SumOfAmounts(txs, In(txs, types, states))
  <2>1. In(new, types, states) = In(txs, types, states)
    BY <1>2 DEF InState
  <2>2. /\ In(txs, types, states) \in SUBSET DOMAIN txs
        /\ \A id \in In(txs, types, states) : new[id].tx.amount = txs[id].tx.amount
    BY DEF InState
  <2>3. QED
    BY <2>1, <2>2, SameAmountsSameSum
<1>3. ASSUME NEW types, NEW states, "Valid" \in states, tx.type \in types
      PROVE  SumOfAmounts(new, In(new, types, states)) =
               SumOfAmounts(txs, In(txs, types, states)) + tx.amount
  <2> DEFINE ids == In(txs, types, states)
  <2>1. In(new, types, states) = ids \cup {one}
    BY <1>3 DEF InState
  <2>2. /\ ids \in SUBSET DOMAIN txs /\ ids \subseteq DOMAIN new /\ one \notin ids
        /\ \A id \in ids : new[id].tx.amount = txs[id].tx.amount
    BY DEF InState
  <2> HIDE DEF ids
  <2>3. SumOfAmounts(new, ids \cup {one}) = SumOfAmounts(txs, ids) + tx.amount
    BY <2>2, GainingSum
  <2>4. QED
    BY <2>1, <2>3 DEF ids
<1>4. HeldAssets(new, client) = HeldAssets(txs, client)
  BY <1>2 DEF HeldAssets
<1>5. CASE tx.type = "Deposit"
  <2>1. Deposited(new, client) = Deposited(txs, client) + tx.amount
    BY <1>3, <1>5 DEF Deposited
  <2>2. Withdrawn(new, client) = Withdrawn(txs, client)
    BY <1>2, <1>5 DEF Withdrawn
  <2>3. QED
    BY <1>1, <1>4, <1>5, <2>1, <2>2, BalancesAreNat DEF OwnedAssets
<1>6. CASE tx.type = "Withdrawal"
  <2>1. Deposited(new, client) = Deposited(txs, client)
    BY <1>2, <1>6 DEF Deposited
  <2>2. Withdrawn(new, client) = Withdrawn(txs, client) + tx.amount
    BY <1>3, <1>6 DEF Withdrawn
  <2>3. QED
    BY <1>1, <1>4, <1>6, <2>1, <2>2, BalancesAreNat DEF OwnedAssets
<1>7. QED
  BY <1>1, <1>5, <1>6 DEF Transaction

(* A sum of the client over some types and states, when one transaction    *)
(* changes its state: it keeps, gains or loses the amount.                 *)
LEMMA StateChangeSum ==
  ASSUME NEW txs, IsTable(txs), NEW new, IsTable(new),
         NEW one \in DOMAIN txs, DOMAIN new = DOMAIN txs,
         new[one].tx = txs[one].tx,
         \A id \in DOMAIN txs : id # one => new[id] = txs[id],
         NEW types, NEW states
  PROVE  LET tx == txs[one].tx
             before == InState(txs, tx.client, types, states)
             after == InState(new, tx.client, types, states)
         IN  SumOfAmounts(new, after) =
               IF tx.type \in types /\ txs[one].state \notin states /\ new[one].state \in states
               THEN SumOfAmounts(txs, before) + tx.amount
               ELSE IF tx.type \in types /\ txs[one].state \in states /\ new[one].state \notin states
               THEN SumOfAmounts(txs, before) - tx.amount
               ELSE SumOfAmounts(txs, before)
<1> DEFINE tx == txs[one].tx
           before == InState(txs, tx.client, types, states)
           after == InState(new, tx.client, types, states)
           ids == before \ {one}
<1>1. /\ ids \in SUBSET DOMAIN txs /\ ids \in SUBSET DOMAIN new /\ one \notin ids
      /\ before \in SUBSET DOMAIN txs
      /\ \A id \in DOMAIN txs : new[id].tx.amount = txs[id].tx.amount
  BY DEF InState
<1>2. /\ before = IF tx.type \in types /\ txs[one].state \in states THEN ids \cup {one} ELSE ids
      /\ after = IF tx.type \in types /\ new[one].state \in states THEN ids \cup {one} ELSE ids
  BY DEF InState
<1> HIDE DEF before, after, ids
<1>3. SumOfAmounts(new, ids) = SumOfAmounts(txs, ids)
  BY <1>1, SameAmountsSameSum
<1>4. /\ SumOfAmounts(txs, ids \cup {one}) = SumOfAmounts(txs, ids) + tx.amount
      /\ SumOfAmounts(new, ids \cup {one}) = SumOfAmounts(new, ids) + tx.amount
      /\ SumOfAmounts(txs, ids) \in Nat /\ tx.amount \in Nat
  <2>1. one \in DOMAIN new /\ new[one].tx.amount = tx.amount
    OBVIOUS
  <2>2. SumOfAmounts(new, ids \cup {one}) = SumOfAmounts(new, ids) + new[one].tx.amount
    BY <1>1, <2>1, OneMoreInSum
  <2>3. /\ SumOfAmounts(txs, ids \cup {one}) = SumOfAmounts(txs, ids) + txs[one].tx.amount
        /\ SumOfAmounts(txs, ids) \in Nat /\ txs[one].tx.amount \in Nat
    BY <1>1, OneMoreInSum
  <2>4. QED
    BY <2>1, <2>2, <2>3
<1>5. CASE tx.type \in types /\ txs[one].state \notin states /\ new[one].state \in states
  BY <1>2, <1>3, <1>4, <1>5 DEF before, after
<1>6. CASE tx.type \in types /\ txs[one].state \in states /\ new[one].state \notin states
  <2>1. before = ids \cup {one} /\ after = ids
    BY <1>2, <1>6
  <2>2. SumOfAmounts(txs, before) - tx.amount = SumOfAmounts(txs, ids)
    BY <1>4, <2>1
  <2>3. QED
    BY <1>3, <1>6, <2>1, <2>2 DEF before, after
<1>7. CASE /\ ~(tx.type \in types /\ txs[one].state \notin states /\ new[one].state \in states)
           /\ ~(tx.type \in types /\ txs[one].state \in states /\ new[one].state \notin states)
  <2>1. before = after /\ (before = ids \/ before = ids \cup {one})
    BY <1>2, <1>7
  <2>2. SumOfAmounts(new, after) = SumOfAmounts(txs, before)
    BY <1>3, <1>4, <2>1
  <2>3. QED
    BY <1>7, <2>2 DEF before, after
<1>8. QED
  BY <1>5, <1>6, <1>7

(* A settled claim moves the reference balances as the handlers move the   *)
(* balance.                                                                *)
LEMMA SettledSums ==
  ASSUME NEW txs, IsTable(txs), NEW new, IsTable(new),
         NEW one \in DOMAIN txs, DOMAIN new = DOMAIN txs,
         new[one].tx = txs[one].tx,
         \A id \in DOMAIN txs : id # one => new[id] = txs[id],
         <<txs[one].state, new[one].state>> \in
           {<<"Valid", "Disputed">>, <<"Disputed", "Valid">>, <<"Disputed", "Rejected">>}
  PROVE  LET tx == txs[one].tx
             to == new[one].state
         IN
         /\ HeldAssets(new, tx.client) = HeldAssets(txs, tx.client) + HeldChange(tx, to)
         /\ OwnedAssets(new, tx.client) = OwnedAssets(txs, tx.client)
              + (HeldChange(tx, to) + AvailableChange(tx, to))
<1> DEFINE tx == txs[one].tx
           client == tx.client
           to == new[one].state
<1>1. tx \in Transaction /\ tx.amount \in Int
  <2>1. tx \in Transaction
    BY DEF IsTable, TransactionWithState
  <2>2. QED
    BY <2>1, AmountFacts
<1>2. tx.type = "Deposit" \/ tx.type = "Withdrawal"
  BY <1>1 DEF Transaction
<1>3. /\ Deposited(txs, client) \in Int /\ Withdrawn(txs, client) \in Int
      /\ HeldAssets(txs, client) \in Int
  BY BalancesAreNat
<1>4. HeldAssets(new, client) = IF to = "Disputed" THEN HeldAssets(txs, client) + tx.amount
                                ELSE HeldAssets(txs, client) - tx.amount
  BY <1>2, StateChangeSum DEF HeldAssets
<1>5. Deposited(new, client) = IF to = "Rejected" /\ tx.type = "Deposit"
                               THEN Deposited(txs, client) - tx.amount
                               ELSE Deposited(txs, client)
  BY StateChangeSum DEF Deposited
<1>6. Withdrawn(new, client) = IF to = "Rejected" /\ tx.type = "Withdrawal"
                               THEN Withdrawn(txs, client) - tx.amount
                               ELSE Withdrawn(txs, client)
  BY StateChangeSum DEF Withdrawn
<1>7. to = "Disputed" \/ to = "Valid" \/ to = "Rejected"
  OBVIOUS
<1> HIDE DEF tx, client, to
<1>8. HeldAssets(new, client) = HeldAssets(txs, client) + HeldChange(tx, to)
  BY <1>1, <1>3, <1>4 DEF HeldChange
<1>9. OwnedAssets(new, client) = OwnedAssets(txs, client)
        + (HeldChange(tx, to) + AvailableChange(tx, to))
  <2>1. CASE to = "Disputed" \/ to = "Valid"
    BY <1>1, <1>3, <1>5, <1>6, <2>1 DEF OwnedAssets, HeldChange, AvailableChange
  <2>2. CASE to = "Rejected" /\ tx.type = "Deposit"
    BY <1>1, <1>3, <1>5, <1>6, <2>2 DEF OwnedAssets, HeldChange, AvailableChange
  <2>3. CASE to = "Rejected" /\ tx.type = "Withdrawal"
    BY <1>1, <1>3, <1>5, <1>6, <2>3 DEF OwnedAssets, HeldChange, AvailableChange
  <2>4. QED
    BY <1>2, <1>7, <2>1, <2>2, <2>3
<1>10. QED
  BY <1>8, <1>9 DEF tx, client, to

-----------------------------------------------------------------------------
(* The invariant, effect by effect. *)

Agrees(balance, txs, client) ==
  balance.held = HeldAssets(txs, client) /\ Total(balance) = OwnedAssets(txs, client)

LEMMA NewAccountAgrees ==
  ASSUME TypeOK, NEW client, client \notin DOMAIN accounts
  PROVE  Agrees(NewAccount(client).balance, transactions, client)
<1>1. \A id \in DOMAIN transactions : transactions[id].tx.client # client
  BY DEF TypeOK
<1>2. /\ HeldAssets(transactions, client) = 0
      /\ OwnedAssets(transactions, client) = 0
  BY <1>1, UnknownClient
<1>3. QED
  BY <1>2 DEF Agrees, NewAccount, NewBalance, Total

LEMMA AccountOfAgrees ==
  ASSUME TypeOK, BalanceIsLedger, NEW client \in ClientId
  PROVE  Agrees(AccountOf(client).balance, transactions, client)
<1>1. CASE client \in DOMAIN accounts
  BY <1>1, UpsertAccountFacts DEF TypeOK, BalanceIsLedger, Agrees
<1>2. CASE client \notin DOMAIN accounts
  BY <1>2, UpsertAccountFacts, NewAccountAgrees DEF TypeOK
<1>3. QED
  BY <1>1, <1>2

(* Accounts that at most gain new ones agree with any table in which no    *)
(* counted transaction has changed.                                        *)
LEMMA KeptAccountsAgree ==
  ASSUME TypeOK, BalanceIsLedger, AccountsKept,
         \/ transactions' = transactions
         \/ \E id : TransactionsKept(id, "Rejected")
  PROVE  BalanceIsLedger'
<1> SUFFICES ASSUME NEW client \in DOMAIN accounts'
             PROVE  Agrees(accounts'[client].balance, transactions', client)
  BY DEF BalanceIsLedger, Agrees
<1>1. Agrees(accounts'[client].balance, transactions, client)
  <2>1. CASE client \in DOMAIN accounts
    BY <2>1 DEF AccountsKept, BalanceIsLedger, Agrees
  <2>2. CASE client \notin DOMAIN accounts
    BY <2>2, NewAccountAgrees DEF AccountsKept
  <2>3. QED
    BY <2>1, <2>2
<1>2. /\ HeldAssets(transactions', client) = HeldAssets(transactions, client)
      /\ OwnedAssets(transactions', client) = OwnedAssets(transactions, client)
  <2>1. CASE transactions' = transactions
    BY <2>1
  <2>2. CASE \E id : TransactionsKept(id, "Rejected")
    <3>1. /\ DOMAIN transactions \subseteq DOMAIN transactions'
          /\ \A id \in DOMAIN transactions : transactions'[id] = transactions[id]
          /\ \A id \in DOMAIN transactions' \ DOMAIN transactions :
               transactions'[id].state = "Rejected"
      BY <2>2 DEF TransactionsKept
    <3>2. IsTable(transactions)
      BY DEF TypeOK
    <3>3. QED
      BY <3>1, <3>2, UntouchedClient
  <2>3. QED
    BY <2>1, <2>2
<1>3. QED
  BY <1>1, <1>2 DEF Agrees

LEMMA AcceptedAgrees ==
  ASSUME TypeOK, BalanceIsLedger, NEW tx \in Transaction, NEW balance, Accepted(tx, balance)
  PROVE  BalanceIsLedger'
<1> SUFFICES ASSUME NEW client \in DOMAIN accounts'
             PROVE  Agrees(accounts'[client].balance, transactions', client)
  BY DEF BalanceIsLedger, Agrees
<1>1. /\ DOMAIN transactions' = DOMAIN transactions \cup {tx.id}
      /\ tx.id \notin DOMAIN transactions
      /\ transactions'[tx.id].state = "Valid"
      /\ transactions'[tx.id].tx = tx
      /\ \A id \in DOMAIN transactions : transactions'[id] = transactions[id]
  BY AcceptedFrame DEF TransactionsKept
<1>2. IsTable(transactions) /\ IsTable(transactions')
  BY AcceptedKeepsTypes DEF TypeOK
<1>3. CASE client # tx.client
  <2>1. client \in DOMAIN accounts /\ accounts'[client] = accounts[client]
    <3>1. /\ DOMAIN accounts' = DOMAIN accounts \cup {tx.client}
          /\ \A other \in DOMAIN accounts :
               other # tx.client => accounts'[other] = accounts[other]
      BY AcceptedAccounts
    <3>2. QED
      BY <1>3, <3>1
  <2>2. /\ HeldAssets(transactions', client) = HeldAssets(transactions, client)
        /\ OwnedAssets(transactions', client) = OwnedAssets(transactions, client)
    BY <1>1, <1>2, <1>3, UntouchedClient
  <2>3. QED
    BY <2>1, <2>2 DEF BalanceIsLedger, Agrees
<1>4. CASE client = tx.client
  <2> DEFINE old == AccountOf(client).balance
  <2>1. client \in ClientId /\ Agrees(old, transactions, client) /\ Sound(old)
    BY <1>4, AccountOfAgrees, UpsertAccountFacts DEF Transaction, TypeOK
  <2>2. /\ HeldAssets(transactions', client) = HeldAssets(transactions, client)
        /\ OwnedAssets(transactions', client) = OwnedAssets(transactions, client)
             + (IF tx.type = "Deposit" THEN tx.amount ELSE 0 - tx.amount)
    BY <1>1, <1>2, <1>4, AcceptedSums
  <2>3. /\ accounts'[client].balance = balance
        /\ balance.held = old.held
        /\ balance.available = IF tx.type = "Deposit" THEN old.available + tx.amount
                               ELSE old.available - tx.amount
    BY <1>4, AcceptedAccounts DEF Accepted
  <2>4. old.held \in Int /\ old.available \in Int /\ tx.amount \in Int
    BY <2>1, AmountFacts, MaxFractionsAssumption DEF Sound, Balance, AssetCount
  <2> HIDE DEF old
  <2>5. Total(balance) = Total(old)
          + (IF tx.type = "Deposit" THEN tx.amount ELSE 0 - tx.amount)
    BY <2>3, <2>4 DEF Total
  <2>6. QED
    BY <2>1, <2>2, <2>3, <2>5 DEF Agrees
<1>5. QED
  BY <1>3, <1>4

LEMMA SettledAgrees ==
  ASSUME TypeOK, BalanceIsLedger, NEW claim \in Claim, NEW balance,
         NEW to \in TransactionState, Settled(claim, balance, to)
  PROVE  BalanceIsLedger'
<1> SUFFICES ASSUME NEW client \in DOMAIN accounts'
             PROVE  Agrees(accounts'[client].balance, transactions', client)
  BY DEF BalanceIsLedger, Agrees
<1> DEFINE tx == transactions[claim.tx].tx
<1>1. /\ claim.tx \in DOMAIN transactions /\ tx.client = claim.client
      /\ <<transactions[claim.tx].state, to>> \in
           {<<"Valid", "Disputed">>, <<"Disputed", "Valid">>, <<"Disputed", "Rejected">>}
      /\ DOMAIN transactions' = DOMAIN transactions
      /\ transactions'[claim.tx].tx = tx
      /\ transactions'[claim.tx].state = to
      /\ \A id \in DOMAIN transactions :
           id # claim.tx => transactions'[id] = transactions[id]
  BY SettledFrame
<1>2. IsTable(transactions) /\ IsTable(transactions')
  BY SettledKeepsTypes DEF TypeOK
<1>3. DOMAIN accounts' = DOMAIN accounts
  BY SettledAccounts
<1>4. CASE client # claim.client
  <2>1. client \in DOMAIN accounts /\ accounts'[client] = accounts[client]
    BY <1>3, <1>4, SettledAccounts
  <2>2. \A id \in DOMAIN transactions :
          /\ transactions'[id].tx = transactions[id].tx
          /\ transactions[id].tx.client = client => transactions'[id] = transactions[id]
    BY <1>1, <1>4
  <2>3. /\ HeldAssets(transactions', client) = HeldAssets(transactions, client)
        /\ OwnedAssets(transactions', client) = OwnedAssets(transactions, client)
    BY <1>1, <1>2, <2>2, UntouchedClient
  <2>4. QED
    BY <2>1, <2>3 DEF BalanceIsLedger, Agrees
<1>5. CASE client = claim.client
  <2> DEFINE old == accounts[client].balance
  <2>1. Agrees(old, transactions, client) /\ Sound(old)
    BY <1>3, <1>5 DEF BalanceIsLedger, Agrees, TypeOK, AreAccounts, MemAccount, Sound
  <2>2. /\ HeldAssets(transactions', client) = HeldAssets(transactions, client) + HeldChange(tx, to)
        /\ OwnedAssets(transactions', client) = OwnedAssets(transactions, client)
             + (HeldChange(tx, to) + AvailableChange(tx, to))
    BY <1>1, <1>2, <1>5, SettledSums
  <2>3. /\ accounts'[client].balance = balance
        /\ balance.held = old.held + HeldChange(tx, to)
        /\ balance.available = old.available + AvailableChange(tx, to)
    BY <1>5, SettledAccounts DEF Settled
  <2>4. /\ old.held \in Int /\ old.available \in Int
        /\ HeldChange(tx, to) \in Int /\ AvailableChange(tx, to) \in Int
    <3>1. tx \in Transaction
      BY <1>1, <1>2 DEF IsTable, TransactionWithState
    <3>2. tx.amount \in Int
      BY <3>1, AmountFacts
    <3>3. QED
      BY <2>1, <3>2, MaxFractionsAssumption
         DEF Sound, Balance, AssetCount, HeldChange, AvailableChange
  <2> HIDE DEF old, tx
  <2>5. Total(balance) = Total(old) + (HeldChange(tx, to) + AvailableChange(tx, to))
    BY <2>3, <2>4 DEF Total
  <2>6. QED
    BY <2>1, <2>2, <2>3, <2>5 DEF Agrees
<1>6. QED
  BY <1>4, <1>5

LEMMA NextBalances ==
  ASSUME TypeOK, BalanceIsLedger, Next
  PROVE  BalanceIsLedger'
<1>1. ASSUME NEW cmd \in Command, NEW result \in Result, Quiet(cmd, result)
      PROVE  BalanceIsLedger'
  BY <1>1, QuietFrame, KeptAccountsAgree
<1>2. ASSUME NEW tx \in Transaction, NEW error \in Result, Refused(tx, error)
      PROVE  BalanceIsLedger'
  BY <1>2, RefusedFrame, KeptAccountsAgree
<1>3. QED
  BY <1>1, <1>2, NextEffect, AcceptedAgrees, SettledAgrees DEF Effect

(* Every balance is the sum of the transactions on record: what is held is *)
(* what open disputes freeze, and the total is what was deposited less     *)
(* what was withdrawn, rejected transactions aside.                        *)
THEOREM BalancesAreSums == Spec => []BalanceIsLedger
<1>1. Init => BalanceIsLedger
  BY DEF Init, BalanceIsLedger
<1>2. TypeOK /\ BalanceIsLedger /\ [Next]_vars => BalanceIsLedger'
  <2>1. TypeOK /\ BalanceIsLedger /\ Next => BalanceIsLedger'
    BY NextBalances
  <2>2. BalanceIsLedger /\ UNCHANGED vars => BalanceIsLedger'
    BY DEF BalanceIsLedger, vars
  <2>3. QED
    BY <2>1, <2>2
<1>3. QED
  BY <1>1, <1>2, TypeCorrect, PTL DEF Spec
=============================================================================
