----------------------------- MODULE CliHistory ----------------------------
(***************************************************************************)
(* What the rows of the input explain: the transactions on record, the     *)
(* accounts, their locks and totals, and with them the report; for every   *)
(* set of rows, any length of the input and every way in which the streams *)
(* may fail.                                                               *)
(***************************************************************************)
EXTENDS CliProofs

-----------------------------------------------------------------------------
(* The elements of sequences. *)

LEMMA RangeOfAppend ==
  ASSUME NEW S, NEW seq \in Seq(S), NEW elt \in S
  PROVE  Range(Append(seq, elt)) = Range(seq) \cup {elt}
<1> DEFINE longer == Append(seq, elt)
<1>1. /\ longer \in Seq(S) /\ Len(longer) = Len(seq) + 1 /\ Len(seq) \in Nat
      /\ \A i \in 1 .. Len(seq) : longer[i] = seq[i]
      /\ longer[Len(seq) + 1] = elt
  BY AppendProperties, LenProperties
<1>2. DOMAIN longer = 1 .. Len(seq) + 1 /\ DOMAIN seq = 1 .. Len(seq)
  BY <1>1, LenProperties
<1> HIDE DEF longer
<1>3. QED
  BY <1>1, <1>2 DEF Range, longer

-----------------------------------------------------------------------------
(* Rows and the commands in them. *)

LEMMA ClaimIsAnswered ==
  ASSUME NEW claim \in Claim, Submit(claim)
  PROVE  reply'.cmd = claim
<1>1. SubmitDispute(claim) \/ SubmitResolve(claim) \/ SubmitChargeback(claim)
  BY DEF Claim, Submit, SubmitDeposit, SubmitWithdrawal
<1>2. \A result : Answer(claim, result) => reply'.cmd = claim
  BY DEF Answer, Return
<1>3. Refuse(claim) => reply'.cmd = claim
  BY <1>2 DEF Refuse, Return
<1>4. \A newBalance, state, locks : Settle(claim, newBalance, state, locks) => reply'.cmd = claim
  <2>1. \A balance, state, locks : Apply(claim, balance, state, locks) => reply'.cmd = claim
    BY DEF Apply, Return
  <2>2. QED
    BY <1>2, <2>1, Zenon DEF Settle
<1>5. DisputeValid(claim) => reply'.cmd = claim
  BY <1>2, <1>4, Zenon DEF DisputeValid
<1>6. SubmitDispute(claim) => reply'.cmd = claim
  BY <1>2, <1>3, <1>5, Zenon DEF SubmitDispute
<1>7. SubmitResolve(claim) => reply'.cmd = claim
  BY <1>2, <1>3, <1>4, Zenon DEF SubmitResolve
<1>8. SubmitChargeback(claim) => reply'.cmd = claim
  BY <1>2, <1>3, <1>4, Zenon DEF SubmitChargeback
<1>9. QED
  BY <1>1, <1>6, <1>7, <1>8

(* The command that is submitted is the one that submit answers. *)
LEMMA CommandIsAnswered ==
  ASSUME NEW cmd \in Command, Submit(cmd)
  PROVE  reply'.cmd = cmd
<1>1. CASE cmd \in Transaction
  <2>1. cmd.type \in {"Deposit", "Withdrawal"}
    BY <1>1 DEF Transaction
  <2>2. SubmitDeposit(cmd) \/ SubmitWithdrawal(cmd)
    BY <2>1 DEF Submit, SubmitDispute, SubmitResolve, SubmitChargeback
  <2>3. \E result : Return(cmd, result)
    BY <2>2, Zenon DEF SubmitDeposit, SubmitWithdrawal, Repeat, Reject, Post
  <2>4. QED
    BY <2>3 DEF Return
<1>2. QED
  BY <1>1, ClaimIsAnswered DEF Command

(* Postings are the rows with a transaction in them, other commands are    *)
(* claims.                                                                 *)
LEMMA RowsAndCommands ==
  ASSUME NEW row \in Rows
  PROVE  /\ IsPosting(row) => CommandsIn(row) # {}
         /\ \A tx \in CommandsIn(row) : tx \in Transaction =>
              /\ IsPosting(row)
              /\ tx \in ToTransaction(row)
              /\ tx.client = row.client /\ tx.id = row.tx
         /\ \A claim \in CommandsIn(row) : claim \in Claim =>
              /\ ~IsPosting(row)
              /\ claim.type = row.type /\ claim.client = row.client /\ claim.tx = row.tx
<1>1. IsPosting(row) => CommandsIn(row) # {}
  <2>1. SUFFICES ASSUME IsPosting(row) PROVE ToTransaction(row) # {}
    BY DEF IsPosting, CommandsIn, ToCommand
  <2>2. QED
    BY <2>1 DEF IsPosting, ToTransaction
<1>2. ASSUME NEW tx \in CommandsIn(row), tx \in Transaction
      PROVE  /\ IsPosting(row)
             /\ tx \in ToTransaction(row)
             /\ tx.client = row.client /\ tx.id = row.tx
  <2>1. row \in CommandRecord /\ tx \in ToCommand(row) /\ tx.type \in {"Deposit", "Withdrawal"}
    BY <1>2 DEF CommandsIn, Transaction
  <2>2. row.type \in {"Deposit", "Withdrawal"}
    BY <2>1 DEF ToCommand, ToClaim
  <2>3. tx \in ToTransaction(row)
    BY <2>1, <2>2 DEF ToCommand
  <2>4. QED
    BY <2>1, <2>2, <2>3 DEF ToTransaction, IsPosting
<1>3. ASSUME NEW claim \in CommandsIn(row), claim \in Claim
      PROVE  /\ ~IsPosting(row)
             /\ claim.type = row.type /\ claim.client = row.client /\ claim.tx = row.tx
  <2>1. claim \in ToCommand(row) /\ claim.type \notin {"Deposit", "Withdrawal"}
    BY <1>3 DEF CommandsIn, Claim
  <2>2. row.type \notin {"Deposit", "Withdrawal"}
    BY <2>1 DEF ToCommand, ToTransaction
  <2>3. claim \in ToClaim(row)
    BY <2>1, <2>2 DEF ToCommand
  <2>4. QED
    BY <2>2, <2>3 DEF ToClaim, IsPosting
<1>4. QED
  BY <1>1, <1>2, <1>3

(* A turn of the loop: the row is no posting and the service does not hear *)
(* of it, or the service has answered the command in it.                   *)
LEMMA OneTurn ==
  ASSUME RunTypeOK, NEW row \in Rows, NEW blank \in 0 .. MaxBlank, ReadRow(row, blank)
  PROVE  \E entry \in Entry :
           /\ input' = Append(input, entry)
           /\ entry.row = row
           /\ \/ ~IsPosting(row) /\ UNCHANGED service
              \/ /\ Next
                 /\ reply'.cmd \in CommandsIn(row)
                 /\ entry.result = reply'.result
<1>1. CASE CommandsIn(row) = {} /\ Take(row, blank, ErrorOf(row)) /\ UNCHANGED service
  <2>1. PICK entry \in Entry : input' = Append(input, entry) /\ entry.row = row
    BY <1>1, TakeCounts DEF ErrorOf, CsvRowError
  <2>2. QED
    BY <1>1, <2>1, RowsAndCommands
<1>2. ASSUME NEW cmd \in CommandsIn(row), Submit(cmd), Take(row, blank, reply'.result)
      PROVE  \E entry \in Entry :
               /\ input' = Append(input, entry)
               /\ entry.row = row
               /\ Next
               /\ reply'.cmd \in CommandsIn(row)
               /\ entry.result = reply'.result
  <2>1. Next /\ reply'.cmd = cmd
    BY <1>2, RowsAreCommands, SubmitIsNext, CommandIsAnswered
  <2>2. reply'.result \in Result
    BY <2>1, NextTypes DEF RunTypeOK, TypeOK
  <2>3. PICK entry \in Entry : /\ input' = Append(input, entry)
                               /\ entry.row = row /\ entry.result = reply'.result
    BY <1>2, <2>2, TakeCounts
  <2>4. QED
    BY <2>1, <2>3
<1>3. QED
  BY <1>1, <1>2 DEF ReadRow

-----------------------------------------------------------------------------
(* Rows that are not reported. *)

Recorded(entry, txs) ==
  IsPosting(entry.row) /\ entry.result = "Ok" =>
    /\ entry.row.tx \in DOMAIN txs
    /\ txs[entry.row.tx].tx \in ToTransaction(entry.row)

(* What is on record stays on record. *)
LEMMA RecordsStay ==
  ASSUME TypeOK, [Next]_vars, NEW entry, Recorded(entry, transactions)
  PROVE  Recorded(entry, transactions')
<1>1. \A id \in DOMAIN transactions :
        id \in DOMAIN transactions' /\ transactions'[id].tx = transactions[id].tx
  BY NextSafe DEF LifecycleStep, vars
<1>2. QED
  BY <1>1 DEF Recorded

(* A row is counted with its answer, and is on record if it is a posting   *)
(* that went through.                                                      *)
LEMMA ReadRowRecords ==
  ASSUME RunTypeOK, NEW row \in Rows, NEW blank \in 0 .. MaxBlank, ReadRow(row, blank)
  PROVE  \E entry \in Entry : input' = Append(input, entry) /\ Recorded(entry, transactions')
<1>1. PICK entry \in Entry :
        /\ input' = Append(input, entry)
        /\ entry.row = row
        /\ \/ ~IsPosting(row) /\ UNCHANGED service
           \/ /\ Next
              /\ reply'.cmd \in CommandsIn(row)
              /\ entry.result = reply'.result
  BY OneTurn
<1>2. CASE ~IsPosting(row)
  BY <1>1, <1>2 DEF Recorded
<1>3. CASE IsPosting(row)
  <2>1. Next /\ reply'.cmd \in CommandsIn(row) /\ entry.result = reply'.result
    BY <1>1, <1>3
  <2>2. OkMeansRecorded'
    BY <2>1, NextRecorded DEF RunTypeOK
  <2>3. reply'.cmd \in Transaction
    BY <1>3, <2>1, RowsAreCommands, RowsAndCommands DEF Command
  <2>4. reply'.cmd \in ToTransaction(row) /\ reply'.cmd.id = row.tx
    BY <2>1, <2>3, RowsAndCommands
  <2>5. QED
    BY <1>1, <2>1, <2>2, <2>3, <2>4 DEF Recorded, OkMeansRecorded
<1>4. QED
  BY <1>2, <1>3

LEMMA StepRecords ==
  ASSUME RunTypeOK, SilentRowsAreRecorded, [RunNext]_runVars
  PROVE  SilentRowsAreRecorded'
<1>1. [Next]_vars
  BY StepOfService
<1>2. ASSUME input' = input
      PROVE  SilentRowsAreRecorded'
  BY <1>1, <1>2, RecordsStay DEF SilentRowsAreRecorded, Recorded, RunTypeOK
<1>3. ASSUME NEW row \in Rows, NEW blank \in 0 .. MaxBlank, ReadRow(row, blank)
      PROVE  SilentRowsAreRecorded'
  <2>1. PICK entry \in Entry : input' = Append(input, entry) /\ Recorded(entry, transactions')
    BY <1>3, ReadRowRecords
  <2>2. Range(input') = Range(input) \cup {entry}
    BY <2>1, RangeOfAppend DEF RunTypeOK
  <2>3. QED
    BY <1>1, <2>1, <2>2, RecordsStay DEF SilentRowsAreRecorded, Recorded, RunTypeOK
<1>4. CASE ~\E row \in Rows, blank \in 0 .. MaxBlank : ReadRow(row, blank)
  BY <1>2, <1>4 DEF RunNext, runVars, Usage, Help, NoInput, Open, LogError, EndOfInput,
     WriteAccount, BufferFull, Flush, Fail
<1>5. QED
  BY <1>3, <1>4

(* A deposit or withdrawal that the program says nothing about is on       *)
(* record as its row has it: no row is dropped in silence.                 *)
THEOREM NoRowIsLost == RunSpec => []SilentRowsAreRecorded
<1>1. RunInit => SilentRowsAreRecorded
  BY DEF RunInit, SilentRowsAreRecorded, Range
<1>2. RunTypeOK /\ SilentRowsAreRecorded /\ [RunNext]_runVars => SilentRowsAreRecorded'
  BY StepRecords
<1>3. QED
  BY <1>1, <1>2, ProgramTypeCorrect, PTL DEF RunSpec

-----------------------------------------------------------------------------
(* The rows behind what is on record. *)

(* A row that posted the transaction, or made the claim about it. *)
Posts(entry, tx) ==
  /\ IsPosting(entry.row)
  /\ entry.result = "Ok"
  /\ tx \in ToTransaction(entry.row)

MakesClaim(entry, type, tx) ==
  /\ entry.row.type = type
  /\ entry.row.client = tx.client
  /\ entry.row.tx = tx.id
  /\ entry.result = "Ok"

Posted(entries, tx) == \E i \in DOMAIN entries : Posts(entries[i], tx)

PostedAndDisputed(entries, tx) ==
  \E i, j \in DOMAIN entries :
    /\ i < j
    /\ Posts(entries[i], tx)
    /\ MakesClaim(entries[j], "Dispute", tx)

PostedToChargedBack(entries, tx) ==
  \E i, j, k \in DOMAIN entries :
    /\ i < j /\ j < k
    /\ Posts(entries[i], tx)
    /\ MakesClaim(entries[j], "Dispute", tx)
    /\ MakesClaim(entries[k], "Chargeback", tx)

(* A transaction that is not rejected was posted by a row, one in dispute  *)
(* was disputed by a later row, and behind every lock is a transaction     *)
(* with the rows that posted, disputed and charged it back, in this order. *)
RowsExplain ==
  /\ \A id \in DOMAIN transactions :
       /\ transactions[id].state # "Rejected" => Posted(input, transactions[id].tx)
       /\ transactions[id].state = "Disputed" => PostedAndDisputed(input, transactions[id].tx)
  /\ \A client \in DOMAIN accounts : accounts[client].locked =>
       \E tx \in Transaction : tx.client = client /\ PostedToChargedBack(input, tx)

(* What the rows so far explain they explain with one more, and what they  *)
(* almost explain the one more may complete.                               *)
LEMMA HistoryGrows ==
  ASSUME NEW entries \in Seq(Entry), NEW entry \in Entry, NEW tx,
         NEW longer, longer = Append(entries, entry)
  PROVE  /\ Posted(entries, tx) => Posted(longer, tx)
         /\ PostedAndDisputed(entries, tx) => PostedAndDisputed(longer, tx)
         /\ PostedToChargedBack(entries, tx) => PostedToChargedBack(longer, tx)
         /\ Posts(entry, tx) => Posted(longer, tx)
         /\ Posted(entries, tx) /\ MakesClaim(entry, "Dispute", tx) =>
              PostedAndDisputed(longer, tx)
         /\ PostedAndDisputed(entries, tx) /\ MakesClaim(entry, "Chargeback", tx) =>
              PostedToChargedBack(longer, tx)
<1> DEFINE last == Len(entries) + 1
<1>1. /\ Len(entries) \in Nat /\ DOMAIN entries = 1 .. Len(entries)
      /\ DOMAIN longer = 1 .. last
      /\ longer[last] = entry /\ \A i \in 1 .. Len(entries) : longer[i] = entries[i]
  BY AppendProperties, LenProperties
<1>2. /\ \A i \in DOMAIN entries : i \in DOMAIN longer /\ longer[i] = entries[i] /\ i < last
      /\ last \in DOMAIN longer /\ longer[last] = entry
  BY <1>1
<1> HIDE DEF last
<1>3. Posted(entries, tx) \/ Posts(entry, tx) => Posted(longer, tx)
  BY <1>2 DEF Posted
<1>4. PostedAndDisputed(entries, tx) => PostedAndDisputed(longer, tx)
  BY <1>2 DEF PostedAndDisputed
<1>5. Posted(entries, tx) /\ MakesClaim(entry, "Dispute", tx) => PostedAndDisputed(longer, tx)
  BY <1>2 DEF Posted, PostedAndDisputed
<1>6. PostedToChargedBack(entries, tx) => PostedToChargedBack(longer, tx)
  BY <1>2 DEF PostedToChargedBack
<1>7. PostedAndDisputed(entries, tx) /\ MakesClaim(entry, "Chargeback", tx) =>
        PostedToChargedBack(longer, tx)
  BY <1>2 DEF PostedAndDisputed, PostedToChargedBack
<1>8. QED
  BY <1>3, <1>4, <1>5, <1>6, <1>7

LEMMA QuietExplained ==
  ASSUME TypeOK, RowsExplain, input \in Seq(Entry),
         NEW entry \in Entry, input' = Append(input, entry),
         transactions' = transactions, AccountsKept
  PROVE  RowsExplain'
<1>1. \A id \in DOMAIN transactions' :
        /\ transactions'[id].state # "Rejected" => Posted(input', transactions'[id].tx)
        /\ transactions'[id].state = "Disputed" => PostedAndDisputed(input', transactions'[id].tx)
  BY HistoryGrows DEF RowsExplain
<1>2. ASSUME NEW client \in DOMAIN accounts', accounts'[client].locked
      PROVE  \E tx \in Transaction : tx.client = client /\ PostedToChargedBack(input', tx)
  <2>1. client \in DOMAIN accounts /\ accounts[client].locked
    BY <1>2 DEF AccountsKept, NewAccount
  <2>2. PICK tx \in Transaction : tx.client = client /\ PostedToChargedBack(input, tx)
    BY <2>1 DEF RowsExplain
  <2>3. QED
    BY <2>2, HistoryGrows
<1>3. QED
  BY <1>1, <1>2 DEF RowsExplain

LEMMA PostedExplained ==
  ASSUME TypeOK, RowsExplain, input \in Seq(Entry),
         NEW entry \in Entry, input' = Append(input, entry),
         NEW id, NEW state \in {"Valid", "Rejected"}, TransactionsKept(id, state),
         state = "Valid" => Posts(entry, transactions'[id].tx),
         \A client \in DOMAIN accounts' :
           accounts'[client].locked => client \in DOMAIN accounts /\ accounts[client].locked
  PROVE  RowsExplain'
<1>1. ASSUME NEW other \in DOMAIN transactions'
      PROVE  /\ transactions'[other].state # "Rejected" => Posted(input', transactions'[other].tx)
             /\ transactions'[other].state = "Disputed" =>
                  PostedAndDisputed(input', transactions'[other].tx)
  <2>1. CASE other \in DOMAIN transactions
    BY <2>1, HistoryGrows DEF RowsExplain, TransactionsKept
  <2>2. CASE other = id
    BY <2>2, HistoryGrows DEF TransactionsKept
  <2>3. QED
    BY <2>1, <2>2 DEF TransactionsKept
<1>2. ASSUME NEW client \in DOMAIN accounts', accounts'[client].locked
      PROVE  \E tx \in Transaction : tx.client = client /\ PostedToChargedBack(input', tx)
  <2>1. PICK tx \in Transaction : tx.client = client /\ PostedToChargedBack(input, tx)
    BY <1>2 DEF RowsExplain
  <2>2. QED
    BY <2>1, HistoryGrows
<1>3. QED
  BY <1>1, <1>2 DEF RowsExplain

LEMMA SettledExplained ==
  ASSUME TypeOK, RowsExplain, input \in Seq(Entry),
         NEW entry \in Entry, input' = Append(input, entry),
         NEW claim \in Claim, NEW balance, NEW to \in TransactionState,
         Settled(claim, balance, to),
         MakesClaim(entry, claim.type, transactions[claim.tx].tx)
  PROVE  RowsExplain'
<1>0. PICK tx : tx = transactions[claim.tx].tx
  OBVIOUS
<1>1. /\ claim.tx \in DOMAIN transactions
      /\ tx.client = claim.client
      /\ DOMAIN transactions' = DOMAIN transactions
      /\ transactions'[claim.tx].tx = tx
      /\ transactions'[claim.tx].state = to
      /\ \A id \in DOMAIN transactions :
           id # claim.tx => transactions'[id] = transactions[id]
      /\ accounts'[claim.client].locked = (to = "Rejected")
      /\ \A client \in DOMAIN accounts :
           client # claim.client => accounts'[client] = accounts[client]
      /\ DOMAIN accounts' = DOMAIN accounts
  BY <1>0, SettledFrame, SettledAccounts
<1>2. /\ tx \in Transaction
      /\ \/ /\ claim.type = "Dispute" /\ to = "Disputed"
            /\ transactions[claim.tx].state = "Valid"
         \/ /\ claim.type = "Resolve" /\ to = "Valid"
            /\ transactions[claim.tx].state = "Disputed"
         \/ /\ claim.type = "Chargeback" /\ to = "Rejected"
            /\ transactions[claim.tx].state = "Disputed"
  BY <1>0, <1>1 DEF Settled, TypeOK, IsTable, TransactionWithState
<1>3. Posted(input, tx) /\ (transactions[claim.tx].state = "Disputed" => PostedAndDisputed(input, tx))
  BY <1>0, <1>1, <1>2 DEF RowsExplain
<1>4. /\ claim.type = "Dispute" => MakesClaim(entry, "Dispute", tx)
      /\ claim.type = "Chargeback" => MakesClaim(entry, "Chargeback", tx)
  BY <1>0 DEF MakesClaim
<1>5. ASSUME NEW id \in DOMAIN transactions'
      PROVE  /\ transactions'[id].state # "Rejected" => Posted(input', transactions'[id].tx)
             /\ transactions'[id].state = "Disputed" =>
                  PostedAndDisputed(input', transactions'[id].tx)
  <2>1. CASE id # claim.tx
    <3>1. id \in DOMAIN transactions /\ transactions'[id] = transactions[id]
      BY <1>1, <2>1
    <3>2. QED
      BY <3>1, HistoryGrows DEF RowsExplain
  <2>2. CASE id = claim.tx
    <3>1. Posted(input', tx) /\ (claim.type = "Dispute" => PostedAndDisputed(input', tx))
      BY <1>3, <1>4, HistoryGrows
    <3>2. QED
      BY <1>1, <1>2, <2>2, <3>1
  <2>3. QED
    BY <2>1, <2>2
<1>6. ASSUME NEW client \in DOMAIN accounts', accounts'[client].locked
      PROVE  \E one \in Transaction : one.client = client /\ PostedToChargedBack(input', one)
  <2>1. CASE client # claim.client
    <3>1. PICK one \in Transaction : one.client = client /\ PostedToChargedBack(input, one)
      BY <1>1, <1>6, <2>1 DEF RowsExplain
    <3>2. QED
      BY <3>1, HistoryGrows
  <2>2. CASE client = claim.client
    <3>1. claim.type = "Chargeback" /\ PostedAndDisputed(input, tx)
      BY <1>1, <1>2, <1>3, <1>6, <2>2
    <3>2. PostedToChargedBack(input', tx)
      BY <1>4, <3>1, HistoryGrows
    <3>3. QED
      BY <1>1, <1>2, <2>2, <3>2
  <2>3. QED
    BY <2>1, <2>2
<1>7. QED
  BY <1>5, <1>6 DEF RowsExplain

LEMMA ReadRowExplained ==
  ASSUME RunTypeOK, RowsExplain,
         NEW row \in Rows, NEW blank \in 0 .. MaxBlank, ReadRow(row, blank)
  PROVE  RowsExplain'
<1>1. PICK entry \in Entry :
        /\ input' = Append(input, entry)
        /\ entry.row = row
        /\ \/ ~IsPosting(row) /\ UNCHANGED service
           \/ /\ Next
              /\ reply'.cmd \in CommandsIn(row)
              /\ entry.result = reply'.result
  BY OneTurn
<1>2. TypeOK /\ input \in Seq(Entry)
  BY DEF RunTypeOK
<1>3. CASE UNCHANGED service
  <2>1. transactions' = transactions /\ AccountsKept
    BY <1>3 DEF service, AccountsKept
  <2>2. QED
    BY <1>1, <1>2, <2>1, QuietExplained
<1>4. CASE Next /\ reply'.cmd \in CommandsIn(row) /\ entry.result = reply'.result
  <2>1. Effect
    BY <1>2, <1>4, NextEffect
  <2>2. ASSUME NEW cmd \in Command, NEW result \in Result, Quiet(cmd, result)
        PROVE  RowsExplain'
    BY <1>1, <1>2, <2>2, QuietFrame, QuietExplained
  <2>3. ASSUME NEW tx \in Transaction, NEW error \in Result, Refused(tx, error)
        PROVE  RowsExplain'
    <3>1. AccountsKept /\ TransactionsKept(tx.id, "Rejected")
      BY <1>2, <2>3, RefusedFrame
    <3>2. \A client \in DOMAIN accounts' :
            accounts'[client].locked => client \in DOMAIN accounts /\ accounts[client].locked
      BY <3>1 DEF AccountsKept, NewAccount
    <3>3. QED
      BY <1>1, <1>2, <3>1, <3>2, PostedExplained
  <2>4. ASSUME NEW tx \in Transaction, NEW balance \in Balance, Accepted(tx, balance)
        PROVE  RowsExplain'
    <3>1. /\ TransactionsKept(tx.id, "Valid") /\ transactions'[tx.id].tx = tx
          /\ reply'.cmd = tx /\ reply'.result = "Ok"
      BY <1>2, <2>4, AcceptedFrame
    <3>2. Posts(entry, tx)
      BY <1>1, <1>4, <3>1, RowsAndCommands DEF Posts
    <3>3. \A client \in DOMAIN accounts' :
            accounts'[client].locked => client \in DOMAIN accounts /\ accounts[client].locked
      BY <1>2, <2>4, AcceptedAccounts
    <3>4. QED
      BY <1>1, <1>2, <3>1, <3>2, <3>3, PostedExplained
  <2>5. ASSUME NEW claim \in Claim, NEW balance \in Balance, NEW to \in TransactionState,
               Settled(claim, balance, to)
        PROVE  RowsExplain'
    <3>1. /\ claim.tx \in DOMAIN transactions
          /\ transactions[claim.tx].tx.client = claim.client
          /\ transactions[claim.tx].tx.id = claim.tx
          /\ reply'.cmd = claim /\ reply'.result = "Ok"
      BY <1>2, <2>5, SettledFrame DEF TypeOK, IsTable
    <3>2. MakesClaim(entry, claim.type, transactions[claim.tx].tx)
      BY <1>1, <1>4, <3>1, RowsAndCommands DEF MakesClaim
    <3>3. QED
      BY <1>1, <1>2, <2>5, <3>2, SettledExplained
  <2>6. QED
    BY <2>1, <2>2, <2>3, <2>4, <2>5 DEF Effect
<1>5. QED
  BY <1>1, <1>3, <1>4

(* The steps that read no row leave the input and the service alone. *)
LEMMA OtherSteps ==
  ASSUME [RunNext]_runVars, ~\E row \in Rows, blank \in 0 .. MaxBlank : ReadRow(row, blank)
  PROVE  UNCHANGED <<input, transactions, accounts, reply>>
BY DEF RunNext, runVars, service, Usage, Help, NoInput, Open, LogError, EndOfInput,
   WriteAccount, BufferFull, Flush, Fail

LEMMA StepExplained ==
  ASSUME RunTypeOK, RowsExplain, [RunNext]_runVars
  PROVE  RowsExplain'
<1>1. CASE \E row \in Rows, blank \in 0 .. MaxBlank : ReadRow(row, blank)
  BY <1>1, ReadRowExplained
<1>2. CASE ~\E row \in Rows, blank \in 0 .. MaxBlank : ReadRow(row, blank)
  BY <1>2, OtherSteps DEF RowsExplain
<1>3. QED
  BY <1>1, <1>2

(* A locked account in the report is the end of a story that the input     *)
(* tells: a transaction of the client, its dispute and its chargeback.     *)
THEOREM LocksAreExplained == RunSpec => []LockedHasHistory
<1>1. RunInit => RowsExplain /\ LinesAreTrue
  BY EmptySeq DEF RunInit, Init, RowsExplain, LinesAreTrue
<1>2. RunTypeOK /\ RowsExplain /\ LinesAreTrue /\ [RunNext]_runVars =>
        RowsExplain' /\ LinesAreTrue'
  BY StepExplained, StepPrintsTruth
<1>3. RowsExplain /\ LinesAreTrue => LockedHasHistory
  <2> SUFFICES ASSUME RowsExplain, LinesAreTrue, NEW account \in Printed, account.locked
               PROVE  \E i, j, k \in DOMAIN input :
                        /\ i < j /\ j < k
                        /\ IsPosting(input[i].row)
                        /\ input[j].row.type = "Dispute"
                        /\ input[k].row.type = "Chargeback"
                        /\ \A n \in {i, j, k} : /\ input[n].result = "Ok"
                                                /\ input[n].row.client = account.client
                                                /\ input[n].row.tx = input[i].row.tx
    BY DEF LockedHasHistory
  <2>1. account.client \in DOMAIN accounts /\ accounts[account.client].locked
    BY PrintedAreAccounts
  <2>2. PICK tx \in Transaction : tx.client = account.client /\ PostedToChargedBack(input, tx)
    BY <2>1 DEF RowsExplain
  <2>3. PICK i, j, k \in DOMAIN input :
          /\ i < j /\ j < k
          /\ Posts(input[i], tx)
          /\ MakesClaim(input[j], "Dispute", tx)
          /\ MakesClaim(input[k], "Chargeback", tx)
    BY <2>2 DEF PostedToChargedBack
  <2>4. input[i].row.client = tx.client /\ input[i].row.tx = tx.id
        /\ IsPosting(input[i].row) /\ input[i].result = "Ok"
    BY <2>3 DEF Posts, ToTransaction
  <2>5. QED
    BY <2>2, <2>3, <2>4 DEF MakesClaim
<1>4. QED
  BY <1>1, <1>2, <1>3, ProgramTypeCorrect, PTL DEF RunSpec

-----------------------------------------------------------------------------
(* The clients of the input. *)

(* The clients with a posting among the entries. *)
PostingClients(entries) ==
  {entry.row.client : entry \in {e \in Range(entries) : IsPosting(e.row)}}

AccountsAreClients == DOMAIN accounts = PostingClients(input)

(* A posting creates the account of its client, a claim creates none. *)
LEMMA AccountsCreated ==
  ASSUME TypeOK, Next
  PROVE  DOMAIN accounts' =
           IF reply'.cmd \in Transaction THEN DOMAIN accounts \cup {reply'.cmd.client}
           ELSE DOMAIN accounts
<1> DEFINE Created == DOMAIN accounts' =
                        IF reply'.cmd \in Transaction
                        THEN DOMAIN accounts \cup {reply'.cmd.client}
                        ELSE DOMAIN accounts
<1>1. \A tx \in Transaction : DOMAIN UpsertAccount(tx.client) = DOMAIN accounts \cup {tx.client}
  BY UpsertAccountFacts DEF TypeOK, Transaction
<1>2. ASSUME NEW cmd \in Command, NEW result \in Result, Quiet(cmd, result)
      PROVE  Created
  <2>1. reply'.cmd = cmd
    BY <1>2, QuietFrame
  <2>2. CASE cmd \in Transaction
    BY <1>1, <1>2, <2>1, <2>2 DEF Quiet
  <2>3. CASE cmd \in Claim
    <3>1. accounts' = accounts /\ cmd \notin Transaction
      BY <1>2, <2>3, ClaimIsNoTransaction DEF Quiet
    <3>2. QED
      BY <2>1, <3>1
  <2>4. QED
    BY <2>2, <2>3 DEF Command
<1>3. ASSUME NEW tx \in Transaction, NEW error \in Result, Refused(tx, error)
      PROVE  Created
  BY <1>1, <1>3, RefusedFrame DEF Refused, Reject
<1>4. ASSUME NEW tx \in Transaction, NEW balance \in Balance, Accepted(tx, balance)
      PROVE  Created
  BY <1>4, AcceptedFrame, AcceptedAccounts
<1>5. ASSUME NEW claim \in Claim, NEW balance \in Balance, NEW to \in TransactionState,
             Settled(claim, balance, to)
      PROVE  Created
  BY <1>5, SettledFrame, SettledAccounts, ClaimIsNoTransaction
<1>6. QED
  BY <1>2, <1>3, <1>4, <1>5, NextEffect DEF Effect

LEMMA StepCreatesClients ==
  ASSUME RunTypeOK, AccountsAreClients, [RunNext]_runVars
  PROVE  AccountsAreClients'
<1>1. ASSUME NEW row \in Rows, NEW blank \in 0 .. MaxBlank, ReadRow(row, blank)
      PROVE  AccountsAreClients'
  <2>1. PICK entry \in Entry :
          /\ input' = Append(input, entry)
          /\ entry.row = row
          /\ \/ ~IsPosting(row) /\ UNCHANGED service
             \/ /\ Next
                /\ reply'.cmd \in CommandsIn(row)
                /\ entry.result = reply'.result
    BY <1>1, OneTurn
  <2>2. Range(input') = Range(input) \cup {entry}
    BY <2>1, RangeOfAppend DEF RunTypeOK
  <2>3. PostingClients(input') = IF IsPosting(row) THEN PostingClients(input) \cup {row.client}
                                 ELSE PostingClients(input)
    BY <2>1, <2>2 DEF PostingClients
  <2>4. CASE ~IsPosting(row) /\ UNCHANGED service
    BY <2>3, <2>4 DEF AccountsAreClients, service
  <2>5. CASE Next /\ reply'.cmd \in CommandsIn(row)
    <3>1. DOMAIN accounts' =
            IF reply'.cmd \in Transaction THEN DOMAIN accounts \cup {reply'.cmd.client}
            ELSE DOMAIN accounts
      BY <2>5, AccountsCreated DEF RunTypeOK
    <3>2. CASE reply'.cmd \in Transaction
      <4>1. IsPosting(row) /\ reply'.cmd.client = row.client
        BY <2>5, <3>2, RowsAndCommands
      <4>2. QED
        BY <2>3, <3>1, <3>2, <4>1 DEF AccountsAreClients
    <3>3. CASE reply'.cmd \in Claim
      <4>1. ~IsPosting(row) /\ reply'.cmd \notin Transaction
        BY <2>5, <3>3, RowsAndCommands, ClaimIsNoTransaction
      <4>2. QED
        BY <2>3, <3>1, <4>1 DEF AccountsAreClients
    <3>4. QED
      BY <2>5, <3>2, <3>3, RowsAreCommands DEF Command
  <2>6. QED
    BY <2>1, <2>4, <2>5
<1>2. CASE ~\E row \in Rows, blank \in 0 .. MaxBlank : ReadRow(row, blank)
  BY <1>2, OtherSteps DEF AccountsAreClients, PostingClients
<1>3. QED
  BY <1>1, <1>2

(* An order of all accounts names each of them. *)
LEMMA OrderNamesAll ==
  ASSUME NEW S, IsFiniteSet(S), NEW order \in SetToSeqs(S)
  PROVE  /\ \A i \in DOMAIN order : order[i] \in S
         /\ \A elt \in S : \E i \in DOMAIN order : order[i] = elt
<1> DEFINE D == 1 .. Cardinality(S)
<1>1. order \in [D -> S] /\ \A i, j \in D : i # j => order[i] # order[j]
  BY DEF SetToSeqs
<1>2. Cardinality(S) \in Nat
  BY FS_CardinalityType
<1>3. Cardinality(D) = Cardinality(S)
  BY <1>2, FS_Interval
<1> HIDE DEF D
<1>4. order \in Injection(D, S)
  BY <1>1 DEF Injection, IsInjective
<1>5. order \in Surjection(D, S)
  BY <1>3, <1>4, FS_Injection
<1>6. QED
  BY <1>1, <1>5 DEF Surjection

(* Each of the records in a report is printed. *)
LEMMA WrittenLines ==
  ASSUME stdout \in Seq(Piece), NEW records \in Seq(TrueRecord),
         AreLines(stdout, <<Header>> \o records), NEW i \in 1 .. Len(records)
  PROVE  records[i] \in Printed
<1>1. records \in Seq(Line) /\ <<Header>> \in Seq(Line) /\ Len(records) \in Nat
      /\ records[i] \in AccountLine
  <2>1. records \in Seq(Line) /\ Header \in Line
    BY SeqMonotonic DEF Line, TrueRecord
  <2>2. QED
    BY <2>1, LenProperties, ElementOfSeq DEF TrueRecord
<1>2. PICK lines \in Seq(Line) :
        /\ lines = <<Header>> \o records /\ Len(lines) = Len(records) + 1
        /\ lines[i + 1] = records[i]
  <2>1. Len(<<Header>>) = 1
    OBVIOUS
  <2>2. /\ <<Header>> \o records \in Seq(Line) /\ Len(<<Header>> \o records) = 1 + Len(records)
        /\ \A n \in 1 .. 1 + Len(records) :
             (<<Header>> \o records)[n] = IF n <= 1 THEN <<Header>>[n] ELSE records[n - 1]
    BY <1>1, <2>1, ConcatProperties
  <2>3. i + 1 \in 1 .. 1 + Len(records) /\ ~(i + 1 <= 1) /\ (i + 1) - 1 = i
    BY <1>1
  <2>4. (<<Header>> \o records)[i + 1] = records[i] /\ 1 + Len(records) = Len(records) + 1
    BY <1>1, <2>2, <2>3
  <2>5. QED
    BY <2>2, <2>4
<1>3. /\ Len(stdout) = LineLength * Len(lines)
      /\ stdout[LineLength * ((i + 1) - 1) + 1] = [line |-> records[i], part |-> 1]
  <2>1. i + 1 \in DOMAIN lines /\ 1 \in 1 .. LineLength
    BY <1>1, <1>2, LineLengthAssumption, LenProperties
  <2>2. AreLines(stdout, lines)
    BY <1>2
  <2>3. /\ Len(stdout) = LineLength * Len(lines)
        /\ \A n \in DOMAIN lines, part \in 1 .. LineLength :
             stdout[LineLength * (n - 1) + part] = [line |-> lines[n], part |-> part]
    BY <2>2 DEF AreLines
  <2>4. stdout[LineLength * ((i + 1) - 1) + 1] = [line |-> lines[i + 1], part |-> 1]
    BY <2>1, <2>3, Zenon
  <2>5. QED
    BY <1>2, <2>3, <2>4, Zenon
<1>4. PICK n \in 1 .. Len(stdout) : n = LineLength * ((i + 1) - 1) + 1
  <2>1. /\ (i + 1) - 1 \in Nat /\ Len(lines) \in Nat /\ (i + 1) - 1 < Len(lines)
        /\ LineLength \in Nat /\ 1 \in 1 .. LineLength
    BY <1>1, <1>2, LineLengthAssumption
  <2>2. LineLength * ((i + 1) - 1) + 1 \in 1 .. LineLength * Len(lines)
    BY <2>1, PieceAmongLines
  <2>3. QED
    BY <1>3, <2>2
<1>5. stdout[n] \in Range(stdout)
  BY LenProperties DEF Range
<1>6. records[i] \notin {Header, HelpText}
  <2>1. \A line \in AccountLine : line \notin {Header, HelpText}
    <3>1. \A line \in AccountLine : "client" \in DOMAIN line
      BY DEF AccountLine
    <3>2. "client" \notin DOMAIN Header /\ "client" \notin DOMAIN HelpText
      BY DEF Header, HelpText
    <3>3. QED
      BY <3>1, <3>2
  <2>2. QED
    BY <1>1, <2>1
<1>7. QED
  BY <1>3, <1>4, <1>5, <1>6 DEF Printed

LEMMA ReportNamesClients ==
  ASSUME RunTypeOK, LinesAreTrue, ReportIsWhole, AccountsAreClients
  PROVE  LinesAreClients
<1> SUFFICES ASSUME pc = "OK", stdout # Pieces(HelpText)
             PROVE  {line.client : line \in Printed} = PostingClients(input)
  BY DEF LinesAreClients, PostingClients
<1>1. PICK records \in Seq(TrueRecord) :
        AreLines(stdout, <<Header>> \o records) /\ ClientsOf(records) \in GetAllAccounts
  BY DEF ReportIsWhole, ReportWritten
<1>2. /\ Len(ClientsOf(records)) = Len(records)
      /\ DOMAIN ClientsOf(records) = 1 .. Len(records)
      /\ \A i \in 1 .. Len(records) : ClientsOf(records)[i] = records[i].client
  <2>1. records \in Seq(AccountLine)
    BY SeqMonotonic DEF TrueRecord
  <2>2. QED
    BY <2>1, ClientsOfSeq, LenProperties
<1>3. IsFiniteSet(DOMAIN accounts)
  BY ClientIdAssumption, FS_Subset DEF RunTypeOK, TypeOK, AreAccounts
<1>4. ASSUME NEW client \in DOMAIN accounts
      PROVE  \E line \in Printed : line.client = client
  <2>1. PICK order \in SetToSeqs(DOMAIN accounts) : order = ClientsOf(records)
    BY <1>1 DEF GetAllAccounts
  <2>2. PICK i \in 1 .. Len(records) : records[i].client = client
    BY <1>2, <1>3, <2>1, OrderNamesAll
  <2>3. records[i] \in Printed
    BY <1>1, WrittenLines DEF RunTypeOK
  <2>4. QED
    BY <2>2, <2>3
<1>5. \A line \in Printed : line.client \in DOMAIN accounts
  BY PrintedAreAccounts
<1>6. {line.client : line \in Printed} = DOMAIN accounts
  BY <1>4, <1>5
<1>7. QED
  BY <1>6 DEF AccountsAreClients

(* Whoever posted is in the report, applied or refused, and nobody else.   *)
THEOREM ReportIsOfClients == RunSpec => []LinesAreClients
<1>1. RunInit => LinesAreTrue /\ ReportIsWhole /\ AccountsAreClients
  BY EmptySeq DEF RunInit, Init, LinesAreTrue, ReportIsWhole, AccountsAreClients,
     PostingClients, Range
<1>2. RunTypeOK /\ LinesAreTrue /\ ReportIsWhole /\ AccountsAreClients /\ [RunNext]_runVars =>
        LinesAreTrue' /\ ReportIsWhole' /\ AccountsAreClients'
  BY StepPrintsTruth, StepReports, StepCreatesClients
<1>3. RunTypeOK /\ LinesAreTrue /\ ReportIsWhole /\ AccountsAreClients => LinesAreClients
  BY ReportNamesClients
<1>4. QED
  BY <1>1, <1>2, <1>3, ProgramTypeCorrect, PTL DEF RunSpec

-----------------------------------------------------------------------------
(* What the deposits in the input bring in. *)

(* What the rows bring in with an id: the largest of their amounts. *)
BroughtIn(rows, id) == Max(UNION {row.amount : row \in {r \in rows : r.tx = id}})

LEMMA LargestAmount ==
  ASSUME NEW rows \in SUBSET CommandRecord, NEW row \in rows, NEW amount \in row.amount
  PROVE  BroughtIn(rows, row.tx) \in Nat /\ amount <= BroughtIn(rows, row.tx)
<1>1. PICK amounts : amounts = UNION {r.amount : r \in {q \in rows : q.tx = row.tx}}
  OBVIOUS
<1>2. amount \in amounts
  BY <1>1
<1>3. \A r \in rows : r.amount \subseteq Amounts
  BY DEF CommandRecord
<1>4. MaxFractions \in Nat /\ amounts \in SUBSET (0 .. MaxFractions)
  BY <1>1, <1>3, AmountsAssumption, MaxFractionsAssumption DEF AssetCount
<1>5. PICK largest \in amounts : \A a \in amounts : a <= largest
  BY <1>2, <1>4, LargestExists
<1>6. \E x \in amounts : \A y \in amounts : x >= y
  BY <1>4, <1>5
<1>7. Max(amounts) \in amounts /\ \A y \in amounts : Max(amounts) >= y
  BY <1>6 DEF Max
<1>8. BroughtIn(rows, row.tx) = Max(amounts)
  BY <1>1 DEF BroughtIn
<1>9. \A m \in amounts : m \in Nat /\ (m >= amount => amount <= m)
  BY <1>2, <1>4
<1>10. QED
  BY <1>2, <1>7, <1>8, <1>9

(* The deposits on record that are not rejected come from rows, and are    *)
(* not more than these bring in.                                           *)
LEMMA DepositsArePaidIn ==
  ASSUME RunTypeOK, RowsExplain, NEW client
  PROVE  PaidIn(client) \in Nat /\ Deposited(transactions, client) <= PaidIn(client)
<1>1. PICK rows : rows = DepositsOf(client)
  OBVIOUS
<1>2. PICK ids : ids = {row.tx : row \in rows}
  OBVIOUS
<1>3. PICK counted : counted = InState(transactions, client, {"Deposit"}, {"Valid", "Disputed"})
  OBVIOUS
<1>4. PICK f : f = [id \in counted |-> transactions[id].tx.amount]
  OBVIOUS
<1>5. PICK g : g = [id \in ids |-> BroughtIn(rows, id)]
  OBVIOUS
<1>6. \A row \in rows : row \in CommandRecord /\ row.amount # {} /\ row.tx \in TransactionId
  BY <1>1 DEF DepositsOf, IsPosting, CommandRecord
<1>7. IsFiniteSet(ids)
  <2>1. ids \subseteq TransactionId
    BY <1>2, <1>6
  <2>2. QED
    BY <2>1, TransactionIdAssumption, FS_Subset
<1>8. ASSUME NEW id \in ids
      PROVE  g[id] \in Nat
  <2>1. PICK row \in rows : row.tx = id
    BY <1>2
  <2>2. PICK amount \in row.amount : TRUE
    BY <1>6
  <2>3. BroughtIn(rows, row.tx) \in Nat
    BY <1>6, <2>2, LargestAmount
  <2>4. QED
    BY <1>5, <2>1, <2>3
<1>9. ASSUME NEW id \in counted
      PROVE  id \in ids /\ f[id] \in Nat /\ f[id] <= g[id]
  <2>1. PICK tx : tx = transactions[id].tx
    OBVIOUS
  <2>2. /\ id \in DOMAIN transactions /\ transactions[id].state # "Rejected"
        /\ tx.type = "Deposit" /\ tx.client = client
    BY <1>3, <2>1 DEF InState
  <2>3. PICK i \in DOMAIN input : Posts(input[i], tx)
    BY <2>1, <2>2 DEF RowsExplain, Posted
  <2>4. PICK row : row = input[i].row
    OBVIOUS
  <2>5. /\ row.type = tx.type /\ row.tx = tx.id /\ row.client = tx.client
        /\ tx.amount \in row.amount /\ IsPosting(row)
    BY <2>3, <2>4 DEF Posts, ToTransaction
  <2>6. row \in rows
    BY <1>1, <2>2, <2>4, <2>5 DEF DepositsOf, Range
  <2>7. tx.id = id /\ tx.amount \in Nat
    <3>1. IsTable(transactions)
      BY DEF RunTypeOK, TypeOK
    <3>2. QED
      BY <2>1, <2>2, <3>1, AmountsAreNat DEF IsTable
  <2>8. tx.amount <= BroughtIn(rows, row.tx)
    BY <1>6, <2>5, <2>6, LargestAmount
  <2>9. id \in ids
    BY <1>2, <2>5, <2>6, <2>7
  <2>10. QED
    BY <1>4, <1>5, <2>1, <2>5, <2>7, <2>8, <2>9
<1>10. SumFunctionOnSet(f, counted) <= SumFunctionOnSet(g, ids)
  BY <1>7, <1>8, <1>9, SumMonotone
<1>11. Deposited(transactions, client) = SumFunctionOnSet(f, counted)
  BY <1>3, <1>4 DEF Deposited, SumOfAmounts
<1>12. PaidIn(client) = SumFunctionOnSet(g, ids)
  BY <1>1, <1>2, <1>5 DEF PaidIn, BroughtIn
<1>13. SumFunctionOnSet(g, ids) \in Nat
  BY <1>7, <1>8, SumNat
<1>14. QED
  BY <1>10, <1>11, <1>12, <1>13

(* No history of repeated rows, disputes, refunds and refusals prints more *)
(* than the deposits of the input bring in.                                *)
THEOREM TotalsAreBroughtIn == RunSpec => []TotalsArePaidIn
<1>1. RunInit => RowsExplain
  BY DEF RunInit, Init, RowsExplain
<1>2. RunTypeOK /\ RowsExplain /\ [RunNext]_runVars => RowsExplain'
  BY StepExplained
<1>3. RunTypeOK /\ RowsExplain /\ PrintedIsLedger => TotalsArePaidIn
  <2> SUFFICES ASSUME RunTypeOK, RowsExplain, PrintedIsLedger, NEW line \in Printed
               PROVE  line.total <= PaidIn(line.client)
    BY DEF TotalsArePaidIn
  <2>1. /\ Deposited(transactions, line.client) \in Nat
        /\ Withdrawn(transactions, line.client) \in Nat
    BY BalancesAreNat DEF RunTypeOK, TypeOK
  <2>2. /\ PaidIn(line.client) \in Nat
        /\ Deposited(transactions, line.client) <= PaidIn(line.client)
    BY DepositsArePaidIn
  <2>3. line.total = Deposited(transactions, line.client) - Withdrawn(transactions, line.client)
    BY DEF PrintedIsLedger, OwnedAssets
  <2>4. QED
    BY <2>1, <2>2, <2>3
<1>4. QED
  BY <1>1, <1>2, <1>3, ProgramTypeCorrect, PrintedIsTrue, PTL DEF RunSpec
=============================================================================
