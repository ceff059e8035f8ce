-------------------------------- MODULE Cli --------------------------------
(***************************************************************************)
(* The command line program, cli::run of src/cli.rs: it reads rows from a  *)
(* file or stdin, submits the commands in them to the account service,     *)
(* reports those that fail on stderr, and at the end writes the accounts   *)
(* to stdout.                                                              *)
(*                                                                         *)
(* The program is the composition of the reader and the writer (Csv) with  *)
(* AccountService, whose variables and handlers are used as they are: its  *)
(* policy is fixed by the arguments.  The environment chooses the rows,    *)
(* when the writer's buffer is full, and which calls on the streams fail.  *)
(* Lines on stdout are cut into pieces, as a buffer is handed over and a   *)
(* write may fail at any byte of a line.  Messages are not: one that is    *)
(* torn by a failed write ends in a panic, and is counted as not written.  *)
(***************************************************************************)
EXTENDS AccountService, Csv, SequencesExt

CONSTANTS
  Rows,       \* The rows an input may consist of
  MaxRows,    \* Bound: the longest input tried
  MaxBlank,   \* Bound: the most blank lines before a row
  LineLength, \* The number of pieces that a line may be torn into
  MayFail     \* The output streams that may fail

ASSUME ClientIdAssumption == ClientId \subseteq Nat /\ IsFiniteSet(ClientId)
ASSUME RowsAssumption == Rows \subseteq Row
ASSUME BoundsAssumption == MaxRows \in Nat /\ MaxBlank \in Nat
ASSUME LineLengthAssumption == LineLength \in Nat \ {0}
ASSUME MayFailAssumption == MayFail \subseteq {"stdout", "stderr"}

VARIABLES
  pc,        \* Where `run' is, or the exit code it ended with
  sort,      \* The argument --sort
  input,     \* The rows read so far, each with its fate (history)
  position,  \* The position of the reader
  stderr,    \* The messages written to stderr
  pending,   \* The clients whose accounts are yet to be written
  buffer,    \* The pieces of lines in the csv writer's buffer
  stdout     \* The pieces of lines that stdout has taken

service == <<transactions, accounts, reply>>
output  == <<pending, buffer, stdout>>
runVars == <<service, pc, sort, input, position, stderr, output>>

Place == {"Start", "Loop", "Log", "Accounts", "Failed",
          "OK", "USAGE", "NOINPUT", "FAILURE", "Panicked"}

Ended == {"OK", "USAGE", "NOINPUT", "FAILURE", "Panicked"}

-----------------------------------------------------------------------------
(* The streams. *)

(* A message on stderr, then on to the next place; all failures of writing *)
(* to stderr are panics.                                                   *)
Writeln(message, next) ==
  \/ /\ stderr' = Append(stderr, message)
     /\ pc' = next
  \/ /\ "stderr" \in MayFail
     /\ pc' = "Panicked"
     /\ UNCHANGED stderr

(* The bytes of a line, in order. *)
Pieces(line) == [part \in 1 .. LineLength |-> [line |-> line, part |-> part]]

(* A write to stdout fails, behind some of the pieces but not all. *)
TakePart(pieces) ==
  /\ "stdout" \in MayFail
  /\ \E n \in 0 .. Len(pieces) - 1 : stdout' = stdout \o SubSeq(pieces, 1, n)

(* The csv writer hands the buffer over and goes on with the rest.  On     *)
(* failure it keeps all of the buffer, though stdout has taken a part.     *)
HandOver(full, rest, next) ==
  \/ /\ stdout' = stdout \o full
     /\ buffer' = rest
     /\ pc' = next
  \/ /\ TakePart(full)
     /\ buffer' = full
     /\ pc' = "Failed"

(* The csv writer is dropped: it hands the buffer over once more, from its *)
(* first byte, and ignores errors.                                         *)
DropWriter ==
  /\ \/ stdout' = stdout \o buffer
     \/ TakePart(buffer)
  /\ buffer' = <<>>

-----------------------------------------------------------------------------
(* Arguments and input. *)

Usage ==
  /\ pc = "Start"
  /\ Writeln([about |-> "Usage"], "USAGE")
  /\ UNCHANGED <<service, sort, input, position, output>>

HelpText == [columns |-> <<"help">>]

(* --help and --version are errors of the parser that belong on stdout. *)
Help ==
  /\ pc = "Start"
  /\ \/ stdout' = Pieces(HelpText) /\ pc' = "OK"
     \/ TakePart(Pieces(HelpText)) /\ pc' = "Panicked"
  /\ UNCHANGED <<service, sort, input, position, stderr, pending, buffer>>

NoInput ==
  /\ pc = "Start"
  /\ Writeln([about |-> "NoInput"], "NOINPUT")
  /\ UNCHANGED <<service, sort, input, position, output>>

(* Fault: the headers are written before the rows are read. *)
OpenWithHeader ==
  /\ pc = "Start"
  /\ pc' = "Loop"
  /\ buffer' = Pieces(Header)
  /\ UNCHANGED <<service, sort, input, position, stderr, pending, stdout>>

Open ==
  /\ pc = "Start"
  /\ pc' = "Loop"
  /\ UNCHANGED <<service, sort, input, position, stderr, output>>

-----------------------------------------------------------------------------
(* The main loop. *)

Submit(cmd) ==
  \/ SubmitDeposit(cmd)
  \/ SubmitWithdrawal(cmd)
  \/ SubmitDispute(cmd)
  \/ SubmitResolve(cmd)
  \/ SubmitChargeback(cmd)

(* Fault: the position is taken behind the row. *)
TakeAtEnd(row, blank, result) ==
  /\ position' = Behind(position, blank, row)
  /\ input' = Append(input, [row |-> row, line |-> position.line + blank,
                             start |-> position', result |-> result])
  /\ pc' = IF result = "Ok" THEN "Loop" ELSE "Log"

(* The row is counted with the position at which the reader was before it. *)
Take(row, blank, result) ==
  /\ position' = Behind(position, blank, row)
  /\ input' = Append(input, [row |-> row, line |-> position.line + blank,
                             start |-> position, result |-> result])
  /\ pc' = IF result = "Ok" THEN "Loop" ELSE "Log"

(* One turn of the loop: the row is no command, or its command is          *)
(* submitted.                                                              *)
ReadRow(row, blank) ==
  /\ pc = "Loop"
  /\ Len(input) < MaxRows
  /\ \/ /\ CommandsIn(row) = {}
        /\ Take(row, blank, ErrorOf(row))
        /\ UNCHANGED service
     \/ \E cmd \in CommandsIn(row) :
          /\ Submit(cmd)
          /\ Take(row, blank, reply'.result)
  /\ UNCHANGED <<sort, stderr, output>>

(* print_error, for the last row. *)
LogError ==
  /\ pc = "Log"
  /\ LET failed == Last(input) IN
       Writeln([about |-> "Command", record |-> failed.start.record,
              line |-> failed.start.line, error |-> failed.result], "Loop")
  /\ UNCHANGED <<service, sort, input, position, output>>

-----------------------------------------------------------------------------
(* The report. *)

Ascending(order) == \A i, j \in DOMAIN order : i < j => order[i] < order[j]

(* get_all_accounts: every account once, in whatever order the map has. *)
GetAllAccounts == SetToSeqs(DOMAIN accounts)

(* Fault: the end is not recognised behind an I/O error. *)
EndMissed ==
  /\ pc = "Loop"
  /\ input # <<>> => Last(input).row # Unreadable
  /\ pending' \in GetAllAccounts
  /\ buffer' = Pieces(Header)
  /\ pc' = "Accounts"
  /\ UNCHANGED <<service, sort, input, position, stderr, stdout>>

(* The reader has no more rows: the accounts are collected, and sorted if  *)
(* asked to; the headers go to the empty buffer.                           *)
EndOfInput ==
  /\ pc = "Loop"
  /\ \E order \in GetAllAccounts :
       /\ sort => Ascending(order)
       /\ pending' = order
  /\ buffer' = Pieces(Header)
  /\ pc' = "Accounts"
  /\ UNCHANGED <<service, sort, input, position, stderr, stdout>>

(* The line of the next account goes to the buffer; if its total cannot be *)
(* computed, a panic in which the writer is dropped.                       *)
WriteAccount ==
  LET lines == AccountRecord(accounts[Head(pending)]) IN
  /\ pc = "Accounts"
  /\ pending # <<>>
  /\ IF lines = {}
     THEN DropWriter /\ pc' = "Panicked"
     ELSE /\ buffer' \in {buffer \o Pieces(line) : line \in lines}
          /\ UNCHANGED <<stdout, pc>>
  /\ pending' = Tail(pending)
  /\ UNCHANGED <<service, sort, input, position, stderr>>

(* Fault: an error is not passed on, and the next account is written. *)
BufferFullIgnored ==
  /\ pc = "Accounts"
  /\ pending # <<>>
  /\ \E line \in AccountRecord(accounts[Head(pending)]), n \in 0 .. LineLength - 1 :
       LET full == buffer \o SubSeq(Pieces(line), 1, n) IN
       \/ stdout' = stdout \o full /\ buffer' = SubSeq(Pieces(line), n + 1, LineLength)
       \/ TakePart(full) /\ buffer' = full
  /\ pending' = Tail(pending)
  /\ UNCHANGED <<service, sort, input, position, stderr, pc>>

(* The buffer is full behind some part of the line, maybe before it. *)
BufferFull ==
  /\ pc = "Accounts"
  /\ pending # <<>>
  /\ \E line \in AccountRecord(accounts[Head(pending)]), n \in 0 .. LineLength - 1 :
       HandOver(buffer \o SubSeq(Pieces(line), 1, n),
                SubSeq(Pieces(line), n + 1, LineLength), "Accounts")
  /\ pending' = Tail(pending)
  /\ UNCHANGED <<service, sort, input, position, stderr>>

(* Fault: a failure to flush is ignored. *)
FlushIgnored ==
  /\ pc = "Accounts"
  /\ pending = <<>>
  /\ DropWriter
  /\ pc' = "OK"
  /\ UNCHANGED <<service, sort, input, position, stderr, pending>>

(* All accounts are written: the buffer is flushed, then stdout itself. *)
Flush ==
  /\ pc = "Accounts"
  /\ pending = <<>>
  /\ \/ HandOver(buffer, <<>>, "OK")
     \/ /\ "stdout" \in MayFail
        /\ stdout' = stdout \o buffer
        /\ buffer' = <<>>
        /\ pc' = "Failed"
  /\ UNCHANGED <<service, sort, input, position, stderr, pending>>

(* with_io returned an error. *)
Fail ==
  /\ pc = "Failed"
  /\ DropWriter
  /\ Writeln([about |-> "Program"], "FAILURE")
  /\ UNCHANGED <<service, sort, input, position, pending>>

-----------------------------------------------------------------------------
RunInit ==
  /\ Init
  /\ pc = "Start"
  /\ sort \in BOOLEAN
  /\ input = <<>>
  /\ position = FirstPosition
  /\ stderr = <<>>
  /\ pending = <<>>
  /\ buffer = <<>>
  /\ stdout = <<>>

RunNext ==
  \/ Usage \/ Help \/ NoInput \/ Open
  \/ \E row \in Rows, blank \in 0 .. MaxBlank : ReadRow(row, blank)
  \/ LogError
  \/ EndOfInput
  \/ WriteAccount \/ BufferFull \/ Flush
  \/ Fail

(* The program is scheduled until it ends, and every call on a stream      *)
(* returns.                                                                *)
RunSpec == RunInit /\ [][RunNext]_runVars /\ WF_runVars(RunNext)

-----------------------------------------------------------------------------
(* What the program guarantees. *)

AccountLine == [client : ClientId, available : AssetCount, held : AssetCount,
                total : AssetCount, locked : BOOLEAN]

Line == {Header, HelpText} \cup AccountLine

Piece == [line : Line, part : 1 .. LineLength]

Entry == [row : Row, line : Nat, start : Position, result : Result \cup CsvRowError]

Message == [about : {"Usage", "NoInput", "Program"}] \cup
           [about : {"Command"}, record : Nat, line : Nat,
            error : Result \cup CsvRowError]

(* The service stays well formed inside the program, and the variables of  *)
(* `run' hold what their types say: what is pending are accounts, and no   *)
(* account is pending, in the buffer or printed before the report.         *)
RunTypeOK ==
  /\ TypeOK
  /\ pc \in Place
  /\ sort \in BOOLEAN
  /\ input \in Seq(Entry)
  /\ position \in Position
  /\ stderr \in Seq(Message)
  /\ pending \in Seq(DOMAIN accounts)
  /\ buffer \in Seq(Piece) /\ stdout \in Seq(Piece)
  /\ pc = "Log" => input # <<>>
  /\ pc \in {"Start", "Loop", "Log"} => pending = <<>> /\ buffer = <<>> /\ stdout = <<>>

(* The lines of accounts of which stdout has a piece. *)
Printed == {piece.line : piece \in Range(stdout)} \ {Header, HelpText}

(* The pieces are those of the lines, all of them and in order. *)
AreLines(pieces, lines) ==
  /\ Len(pieces) = LineLength * Len(lines)
  /\ \A n \in DOMAIN lines, part \in 1 .. LineLength :
       pieces[LineLength * (n - 1) + part] = [line |-> lines[n], part |-> part]

(* The lines of the clients' accounts. *)
RecordsOf(clients) ==
  [n \in DOMAIN clients |-> CHOOSE line \in AccountRecord(accounts[clients[n]]) : TRUE]

(* "OK" is never returned for a report that is cut off: it means that      *)
(* stdout has exactly the header and the line of every account, once each, *)
(* whole, and sorted if asked to, whichever writes of the buffer failed,   *)
(* were late, or came in the midst of a line.                              *)
CompleteWhenOk ==
  pc = "OK" =>
    \/ input = <<>> /\ AreLines(stdout, <<HelpText>>)
    \/ \E order \in GetAllAccounts :
         /\ sort => Ascending(order)
         /\ AreLines(stdout, <<Header>> \o RecordsOf(order))

(* A piece is in place if it begins a line, first of all or behind the end *)
(* of another one, or continues the line of the piece before it.           *)
InPlace(pieces, i) ==
  \/ /\ pieces[i].part = 1
     /\ i = 1 \/ pieces[i - 1].part = LineLength
  \/ /\ i > 1
     /\ pieces[i].line = pieces[i - 1].line
     /\ pieces[i].part = pieces[i - 1].part + 1

Splices(pieces) == {i \in DOMAIN pieces : ~InPlace(pieces, i)}

(* What stdout has got, at any time, is made of true lines: each shows the *)
(* sums over the transactions of the whole input, so nothing is printed    *)
(* before its end.  The lines are whole, but for the last one that may be  *)
(* cut off.  Only if the program ends with an error there may be, at one   *)
(* place at most, the parts of two lines in one: where a write failed, and *)
(* the csv writer began anew with its buffer.                              *)
PrintedIsLedger ==
  /\ \A line \in Printed :
       /\ pc \notin {"Loop", "Log"}
       /\ line.held = HeldAssets(transactions, line.client)
       /\ line.total = OwnedAssets(transactions, line.client)
       /\ line.available = line.total - line.held
       /\ line.locked = accounts[line.client].locked
  /\ pc \notin {"FAILURE", "Panicked"} => Splices(stdout) = {}
  /\ Cardinality(Splices(stdout)) <= 1

(* The number of the row among the rows that were read in full. *)
NumberOf(i) == 1 + Cardinality({j \in 1 .. i - 1 : input[j].row # Unreadable})

Failures == {i \in DOMAIN input : input[i].result # "Ok"}

(* The place of a row that failed among all that did. *)
RankOf(i) == Cardinality({j \in Failures : j <= i})

Reports(message, i) ==
  /\ message.about = "Command"
  /\ message.record = NumberOf(i)
  /\ message.error = input[i].result

(* Every row that failed, in the reader or in the service, is reported     *)
(* once, in the order of the input and under its number; the program goes  *)
(* on to the next row only then, and stops early only in a panic.  Nothing *)
(* is printed while a failure is not reported, even if it never will be.   *)
EveryFailureIsReported ==
  /\ \A i \in Failures : RankOf(i) \in DOMAIN stderr => Reports(stderr[RankOf(i)], i)
  /\ \A n \in DOMAIN stderr : stderr[n].about = "Command" => n <= Cardinality(Failures)
  /\ pc \notin {"Log", "Panicked"} \/ stdout # <<>> =>
       Cardinality(Failures) <= Len(stderr)
  /\ pc = "FAILURE" => Last(stderr).about = "Program"

(* The program ends, whatever the input and whichever streams fail. *)
Termination == <>(pc \in Ended)

(* Only the output streams can make the program fail or panic: whatever    *)
(* the rows are, also if reading breaks off, the exit code is that of a    *)
(* success, and no total overflows when it comes to the report.            *)
OnlyStreamsFail == MayFail = {} => pc \notin {"Failed", "FAILURE", "Panicked"}

(* A row that asks for a transaction, well formed. *)
IsPosting(row) ==
  row \in CommandRecord /\ row.type \in {"Deposit", "Withdrawal"} /\ row.amount # {}

(* The report has a line for exactly the clients with a well-formed        *)
(* deposit or withdrawal in the input, applied or not: the claims of a     *)
(* client and the rows without an amount create no account.                *)
LinesAreClients ==
  pc = "OK" /\ stdout # Pieces(HelpText) =>
    {line.client : line \in Printed} =
      {entry.row.client : entry \in {e \in Range(input) : IsPosting(e.row)}}

(* No row locks an account by itself: the input of a run that prints a     *)
(* locked account has a transaction of the client, its dispute and its     *)
(* chargeback, all by the client and in this order.                        *)
LockedHasHistory ==
  \A account \in Printed : account.locked =>
    \E i, j, k \in DOMAIN input :
      /\ i < j /\ j < k
      /\ IsPosting(input[i].row)
      /\ input[j].row.type = "Dispute"
      /\ input[k].row.type = "Chargeback"
      /\ \A n \in {i, j, k} : /\ input[n].result = "Ok"
                              /\ input[n].row.client = account.client
                              /\ input[n].row.tx = input[i].row.tx

(* The deposits of the input with the client's name on them, each id once. *)
DepositsOf(client) ==
  {entry.row : entry \in {e \in Range(input) : /\ IsPosting(e.row)
                                               /\ e.row.type = "Deposit"
                                               /\ e.row.client = client}}

PaidIn(client) ==
  LET ids == {row.tx : row \in DepositsOf(client)} IN
  SumFunctionOnSet([id \in ids |->
    Max(UNION {row.amount : row \in {r \in DepositsOf(client) : r.tx = id}})], ids)

(* No history of repeated rows, disputes and refunds prints more assets    *)
(* than the client's deposits brought in, each id counted once.            *)
TotalsArePaidIn ==
  \A line \in Printed : line.total <= PaidIn(line.client)

(* A well-formed deposit or withdrawal that is not reported is on record   *)
(* when the input ends, as the row has it.                                 *)
SilentRowsAreRecorded ==
  \A entry \in Range(input) :
    IsPosting(entry.row) /\ entry.result = "Ok" =>
      /\ entry.row.tx \in DOMAIN transactions
      /\ transactions[entry.row.tx].tx \in ToTransaction(entry.row)

(* "Command #{} (line {}) failed:" (cli.rs:159): a message names the line  *)
(* of the row that failed.                                                 *)
MessageNamesLine ==
  \A message \in Range(stderr) : message.about = "Command" =>
    \E i \in DOMAIN input : /\ NumberOf(i) = message.record
                            /\ input[i].result = message.error
                            /\ input[i].line = message.line
=============================================================================
