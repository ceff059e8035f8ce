----------------------------- MODULE CliProofs -----------------------------
(***************************************************************************)
(* Theorems about the program, its messages and what it prints: for every  *)
(* set of rows, any length of the input, every size of the csv writer's    *)
(* buffer and every way in which the streams may fail.                     *)
(***************************************************************************)
EXTENDS Cli, AccountServiceBalances, SequenceTheorems

-----------------------------------------------------------------------------
(* The program uses the service through its commands only. *)

(* What is read from a row is a command. *)
LEMMA RowsAreCommands ==
  ASSUME NEW row \in Rows, NEW cmd \in CommandsIn(row)
  PROVE  cmd \in Command
<1>1. row \in CommandRecord /\ cmd \in ToCommand(row)
  BY DEF CommandsIn
<1>2. CASE row.type \in {"Deposit", "Withdrawal"}
  <2>1. PICK amount \in row.amount :
          cmd = [type |-> row.type, id |-> row.tx, client |-> row.client, amount |-> amount]
    BY <1>1, <1>2 DEF ToCommand, ToTransaction
  <2>2. amount \in Amounts
    BY <1>1 DEF CommandRecord
  <2>3. cmd \in Transaction
    BY <1>1, <1>2, <2>1, <2>2 DEF CommandRecord, Transaction
  <2>4. QED
    BY <2>3 DEF Command
<1>3. CASE row.type \notin {"Deposit", "Withdrawal"}
  <2>1. cmd = [type |-> row.type, client |-> row.client, tx |-> row.tx]
    BY <1>1, <1>3 DEF ToCommand, ToClaim
  <2>2. cmd \in Claim
    BY <1>1, <1>3, <2>1 DEF CommandRecord, CommandType, Claim
  <2>3. QED
    BY <2>2 DEF Command
<1>4. QED
  BY <1>2, <1>3

LEMMA SubmitIsNext ==
  ASSUME NEW cmd \in Command, Submit(cmd)
  PROVE  Next
<1>1. CASE cmd \in Transaction
  <2>1. cmd.type \in {"Deposit", "Withdrawal"}
    BY <1>1 DEF Transaction
  <2>2. SubmitDeposit(cmd) \/ SubmitWithdrawal(cmd)
    BY <2>1 DEF Submit, SubmitDispute, SubmitResolve, SubmitChargeback
  <2>3. QED
    BY <1>1, <2>2 DEF Next
<1>2. CASE cmd \in Claim
  <2>1. cmd.type \in {"Dispute", "Resolve", "Chargeback"}
    BY <1>2 DEF Claim
  <2>2. SubmitDispute(cmd) \/ SubmitResolve(cmd) \/ SubmitChargeback(cmd)
    BY <2>1 DEF Submit, SubmitDeposit, SubmitWithdrawal
  <2>3. QED
    BY <1>2, <2>2 DEF Next
<1>3. QED
  BY <1>1, <1>2 DEF Command

LEMMA StepOfService ==
  ASSUME [RunNext]_runVars
  PROVE  [Next]_vars
<1>1. ASSUME NEW row \in Rows, NEW blank \in 0 .. MaxBlank, ReadRow(row, blank)
      PROVE  [Next]_vars
  <2>1. CASE CommandsIn(row) = {}
    BY <1>1, <2>1 DEF ReadRow, service, vars
  <2>2. ASSUME NEW cmd \in CommandsIn(row), Submit(cmd)
        PROVE  Next
    BY <2>2, RowsAreCommands, SubmitIsNext
  <2>3. QED
    BY <1>1, <2>1, <2>2 DEF ReadRow
<1>2. CASE ~\E row \in Rows, blank \in 0 .. MaxBlank : ReadRow(row, blank)
  BY <1>2 DEF RunNext, runVars, service, vars, Usage, Help, NoInput, Open, LogError,
     EndOfInput, WriteAccount, BufferFull, Flush, Fail
<1>3. QED
  BY <1>1, <1>2

(* Every behaviour of the program is one of the service, by construction,  *)
(* as its steps submit commands or leave the service alone: what is proved *)
(* of the service holds of the program.                                    *)
LEMMA ProgramIsClient == RunSpec => Spec
<1>1. RunInit => Init
  BY DEF RunInit
<1>2. [RunNext]_runVars => [Next]_vars
  BY StepOfService
<1>3. QED
  BY <1>1, <1>2, PTL DEF RunSpec, Spec

-----------------------------------------------------------------------------
(* Types. *)

LEMMA WritelnTyped ==
  ASSUME stderr \in Seq(Message), NEW message \in Message, NEW next \in Place,
         Writeln(message, next)
  PROVE  stderr' \in Seq(Message) /\ pc' \in {next, "Panicked"}
BY AppendProperties DEF Writeln

(* A sequence is the parts of it before and behind some place. *)
LEMMA Parts ==
  ASSUME NEW S, NEW s \in Seq(S), NEW n \in 0 .. Len(s)
  PROVE  /\ SubSeq(s, 1, n) \in Seq(S) /\ SubSeq(s, n + 1, Len(s)) \in Seq(S)
         /\ SubSeq(s, 1, n) \o SubSeq(s, n + 1, Len(s)) = s
<1>1. Len(s) \in Nat /\ n \in Nat /\ \A i \in 1 .. Len(s) : s[i] \in S
  BY ElementOfSeq, LenProperties
<1>2. SubSeq(s, 1, n) \in Seq(S) /\ SubSeq(s, n + 1, Len(s)) \in Seq(S)
  <2>1. \A i \in 1 .. n : s[i] \in S
    BY <1>1
  <2>2. \A i \in n + 1 .. Len(s) : s[i] \in S
    BY <1>1
  <2>3. SubSeq(s, 1, n) \in Seq(S)
    BY <1>1, <2>1, SubSeqProperties
  <2>4. n + 1 \in Int /\ Len(s) \in Int
    BY <1>1
  <2>5. SubSeq(s, n + 1, Len(s)) \in Seq(S)
    BY <2>2, <2>4, SubSeqProperties
  <2>6. QED
    BY <2>3, <2>5
<1>3. SubSeq(s, 1, n) \o SubSeq(s, n + 1, Len(s)) = SubSeq(s, 1, Len(s))
  <2>1. 1 \in 1 .. Len(s) + 1 /\ n \in 1 - 1 .. Len(s) /\ Len(s) \in n .. Len(s)
    BY <1>1
  <2>2. QED
    BY <2>1, ConcatAdjacentSubSeq
<1>4. QED
  BY <1>2, <1>3, SubSeqFull

(* The pieces of a line: as many as there are, from the first to the last. *)
LEMMA PiecesTyped ==
  ASSUME NEW S, NEW line \in S
  PROVE  /\ Pieces(line) \in Seq([line : S, part : 1 .. LineLength])
         /\ Len(Pieces(line)) = LineLength
         /\ \A i \in 1 .. LineLength : Pieces(line)[i] = [line |-> line, part |-> i]
<1>1. LineLength \in Nat
  BY LineLengthAssumption
<1>2. Pieces(line) \in [1 .. LineLength -> [line : S, part : 1 .. LineLength]]
  BY DEF Pieces
<1>3. Pieces(line) \in Seq([line : S, part : 1 .. LineLength])
  <2>1. \A T : \A s \in [1 .. LineLength -> T] : s \in Seq(T)
    BY <1>1, SeqDef
  <2>2. QED
    BY <1>2, <2>1, Zenon
<1>4. DOMAIN Pieces(line) = 1 .. Len(Pieces(line)) /\ Len(Pieces(line)) \in Nat
  BY <1>3, LenProperties
<1>5. Len(Pieces(line)) = LineLength
  <2>1. 1 .. Len(Pieces(line)) = 1 .. LineLength
    BY <1>2, <1>4
  <2>2. \A k, l \in Nat : 1 .. k = 1 .. l => k = l
    <3>1. ASSUME NEW k \in Nat, NEW l \in Nat, 1 .. k = 1 .. l
          PROVE  k = l
      <4>1. k # 0 => k \in 1 .. l
        BY <3>1
      <4>2. l # 0 => l \in 1 .. k
        BY <3>1
      <4>3. QED
        BY <4>1, <4>2
    <3>2. QED
      BY <3>1
  <2>3. QED
    BY <1>1, <1>4, <2>1, <2>2
<1>6. QED
  BY <1>3, <1>5 DEF Pieces

(* A line that is cut anywhere. *)
LEMMA PiecesCut ==
  ASSUME NEW S, NEW line \in S, NEW n \in 0 .. LineLength - 1
  PROVE  /\ SubSeq(Pieces(line), 1, n) \in Seq([line : S, part : 1 .. LineLength])
         /\ SubSeq(Pieces(line), n + 1, LineLength) \in Seq([line : S, part : 1 .. LineLength])
         /\ SubSeq(Pieces(line), 1, n) \o SubSeq(Pieces(line), n + 1, LineLength) = Pieces(line)
<1>1. PICK whole \in Seq([line : S, part : 1 .. LineLength]) :
        whole = Pieces(line) /\ Len(whole) = LineLength
  BY PiecesTyped
<1>2. n \in 0 .. Len(whole)
  BY <1>1, LineLengthAssumption
<1>3. /\ SubSeq(whole, 1, n) \in Seq([line : S, part : 1 .. LineLength])
      /\ SubSeq(whole, n + 1, Len(whole)) \in Seq([line : S, part : 1 .. LineLength])
      /\ SubSeq(whole, 1, n) \o SubSeq(whole, n + 1, Len(whole)) = whole
  BY <1>2, Parts
<1>4. QED
  BY <1>1, <1>3, Zenon

(* What stdout takes, whole or in part, is of the kind that it is given. *)
LEMMA TakenTyped ==
  ASSUME NEW S, stdout \in Seq(S), NEW pieces \in Seq(S),
         stdout' = stdout \o pieces \/ TakePart(pieces)
  PROVE  stdout' \in Seq(S)
<1>1. CASE stdout' = stdout \o pieces
  BY <1>1, ConcatProperties
<1>2. CASE TakePart(pieces)
  <2>1. PICK n \in 0 .. Len(pieces) - 1 : stdout' = stdout \o SubSeq(pieces, 1, n)
    BY <1>2 DEF TakePart
  <2>2. n \in 0 .. Len(pieces)
    BY LenProperties
  <2>3. SubSeq(pieces, 1, n) \in Seq(S)
    BY <2>2, Parts
  <2>4. QED
    BY <2>1, <2>3, ConcatProperties
<1>3. QED
  BY <1>1, <1>2

LEMMA HandOverTyped ==
  ASSUME NEW S, stdout \in Seq(S), NEW full \in Seq(S), NEW rest \in Seq(S),
         NEW next, HandOver(full, rest, next)
  PROVE  stdout' \in Seq(S) /\ buffer' \in Seq(S) /\ pc' \in {next, "Failed"}
BY TakenTyped DEF HandOver

LEMMA DropTyped ==
  ASSUME NEW S, stdout \in Seq(S), buffer \in Seq(S), DropWriter
  PROVE  stdout' \in Seq(S) /\ buffer' \in Seq(S)
BY TakenTyped, EmptySeq DEF DropWriter

(* The record of an account is a line about the client. *)
LEMMA AccountRecordTyped ==
  ASSUME TypeOK, NEW client \in DOMAIN accounts, NEW line \in AccountRecord(accounts[client])
  PROVE  line \in AccountLine /\ line \in Line /\ line.client = client
<1>1. accounts[client] \in MemAccount /\ accounts[client].id = client
  BY DEF TypeOK, AreAccounts
<1>2. line \in AccountLine /\ line.client = client
  BY <1>1 DEF MemAccount, Balance, AccountRecord, CheckedAdd, AccountLine
<1>3. QED
  BY <1>2 DEF Line

LEMMA ArgumentsTyped ==
  ASSUME RunTypeOK, TypeOK', Usage \/ Help \/ NoInput \/ Open
  PROVE  RunTypeOK'
<1>1. CASE Usage
  BY <1>1, WritelnTyped DEF Usage, RunTypeOK, Message, Place, service, output
<1>2. CASE NoInput
  BY <1>2, WritelnTyped DEF NoInput, RunTypeOK, Message, Place, service, output
<1>3. CASE Help
  <2>1. Pieces(HelpText) \in Seq(Piece)
    BY PiecesTyped DEF Line, Piece
  <2>2. stdout' \in Seq(Piece)
    BY <1>3, <2>1, TakenTyped DEF Help, RunTypeOK
  <2>3. pc' \in {"OK", "Panicked"}
    BY <1>3 DEF Help
  <2>4. QED
    BY <1>3, <2>2, <2>3 DEF Help, RunTypeOK, Place, service
<1>4. CASE Open
  BY <1>4 DEF Open, RunTypeOK, Place, service, output
<1>5. QED
  BY <1>1, <1>2, <1>3, <1>4

LEMMA ReadRowTyped ==
  ASSUME RunTypeOK, TypeOK', NEW row \in Rows, NEW blank \in 0 .. MaxBlank,
         ReadRow(row, blank)
  PROVE  RunTypeOK'
<1>1. PICK result \in Result \cup CsvRowError : Take(row, blank, result)
  <2>1. CASE CommandsIn(row) = {}
    BY <2>1 DEF ReadRow, ErrorOf, CsvRowError
  <2>2. reply'.result \in Result
    BY DEF TypeOK
  <2>3. QED
    BY <2>1, <2>2 DEF ReadRow
<1>2. position' \in Position /\ position.line + blank \in Nat
  <2>1. position.record \in Nat /\ position.line \in Nat /\ blank \in Nat
    BY BoundsAssumption DEF RunTypeOK, Position
  <2>2. Behind(position, blank, row) \in Position
    BY <2>1 DEF Behind, Position
  <2>3. QED
    BY <1>1, <2>1, <2>2 DEF Take
<1> DEFINE entry == [row |-> row, line |-> position.line + blank, start |-> position,
                     result |-> result]
<1>3. entry \in Entry
  BY <1>2, RowsAssumption DEF RunTypeOK, Entry
<1>4. input' \in Seq(Entry) /\ input' # <<>>
  <2>1. input' = Append(input, entry) /\ input \in Seq(Entry)
    BY <1>1 DEF Take, RunTypeOK
  <2>2. QED
    BY <1>3, <2>1, AppendProperties
<1>5. pending' = <<>> /\ buffer' = <<>> /\ stdout' = <<>>
  BY DEF ReadRow, RunTypeOK, output
<1>6. pc' \in {"Loop", "Log"}
  BY <1>1 DEF Take
<1>7. QED
  BY <1>2, <1>4, <1>5, <1>6, EmptySeq DEF RunTypeOK, ReadRow, Place

LEMMA LogErrorTyped ==
  ASSUME RunTypeOK, TypeOK', LogError
  PROVE  RunTypeOK'
<1> DEFINE failed == Last(input)
           message == [about |-> "Command", record |-> failed.start.record,
                       line |-> failed.start.line, error |-> failed.result]
<1>1. failed \in Entry
  <2>1. input # <<>> /\ Len(input) \in Nat \ {0}
    BY EmptySeq DEF LogError, RunTypeOK
  <2>2. Len(input) \in 1 .. Len(input) /\ input \in Seq(Entry)
    BY <2>1 DEF RunTypeOK
  <2>3. input[Len(input)] \in Entry
    BY <2>2, ElementOfSeq
  <2>4. QED
    BY <2>3 DEF Last
<1>2. message \in Message
  BY <1>1 DEF Message, Entry, Position
<1>3. Writeln(message, "Loop")
  BY DEF LogError
<1>4. stderr' \in Seq(Message) /\ pc' \in {"Loop", "Panicked"}
  BY <1>2, <1>3, WritelnTyped DEF RunTypeOK, Place
<1>5. QED
  BY <1>4 DEF RunTypeOK, LogError, Place, service, output

LEMMA ReportTyped ==
  ASSUME RunTypeOK, TypeOK', EndOfInput \/ WriteAccount \/ BufferFull \/ Flush \/ Fail
  PROVE  RunTypeOK'
<1>1. CASE EndOfInput
  <2>1. pending' \in Seq(DOMAIN accounts)
    <3>1. IsFiniteSet(DOMAIN accounts)
      BY ClientIdAssumption, FS_Subset DEF RunTypeOK, TypeOK, AreAccounts
    <3>2. Cardinality(DOMAIN accounts) \in Nat
      BY <3>1, FS_CardinalityType
    <3>3. QED
      BY <1>1, <3>2, SeqDef DEF EndOfInput, GetAllAccounts, SetToSeqs
  <2>2. buffer' \in Seq(Piece)
    BY <1>1, PiecesTyped DEF EndOfInput, Line, Piece
  <2>3. QED
    BY <1>1, <2>1, <2>2 DEF EndOfInput, RunTypeOK, Place, service
<1>2. pending # <<>> =>
        Head(pending) \in DOMAIN accounts /\ Tail(pending) \in Seq(DOMAIN accounts)
  BY HeadTailProperties DEF RunTypeOK
<1>3. CASE WriteAccount
  <2>1. stdout' \in Seq(Piece) /\ buffer' \in Seq(Piece)
    <3>1. CASE AccountRecord(accounts[Head(pending)]) = {}
      BY <1>3, <3>1, DropTyped DEF WriteAccount, RunTypeOK
    <3>2. CASE AccountRecord(accounts[Head(pending)]) # {}
      <4>1. PICK line \in AccountRecord(accounts[Head(pending)]) :
              buffer' = buffer \o Pieces(line)
        BY <1>3, <3>2 DEF WriteAccount
      <4>2. line \in Line
        BY <1>2, <1>3, <4>1, AccountRecordTyped DEF WriteAccount, RunTypeOK
      <4>3. Pieces(line) \in Seq(Piece)
        BY <4>2, PiecesTyped DEF Piece
      <4>4. QED
        BY <1>3, <3>2, <4>1, <4>3, ConcatProperties DEF WriteAccount, RunTypeOK
    <3>3. QED
      BY <3>1, <3>2
  <2>2. pc' \in {"Accounts", "Panicked"}
    BY <1>3 DEF WriteAccount
  <2>3. QED
    BY <1>2, <1>3, <2>1, <2>2 DEF WriteAccount, RunTypeOK, Place, service
<1>4. CASE BufferFull
  <2>1. PICK line \in AccountRecord(accounts[Head(pending)]), n \in 0 .. LineLength - 1 :
          HandOver(buffer \o SubSeq(Pieces(line), 1, n),
                   SubSeq(Pieces(line), n + 1, LineLength), "Accounts")
    BY <1>4 DEF BufferFull
  <2>2. line \in Line
    BY <1>2, <1>4, <2>1, AccountRecordTyped DEF BufferFull, RunTypeOK
  <2>3. /\ SubSeq(Pieces(line), 1, n) \in Seq(Piece)
        /\ SubSeq(Pieces(line), n + 1, LineLength) \in Seq(Piece)
    BY <2>2, PiecesCut DEF Piece
  <2>4. buffer \o SubSeq(Pieces(line), 1, n) \in Seq(Piece)
    BY <2>3, ConcatProperties DEF RunTypeOK
  <2>5. stdout' \in Seq(Piece) /\ buffer' \in Seq(Piece) /\ pc' \in {"Accounts", "Failed"}
    BY <2>1, <2>3, <2>4, HandOverTyped DEF RunTypeOK
  <2>6. QED
    BY <1>2, <1>4, <2>5 DEF BufferFull, RunTypeOK, Place, service
<1>5. CASE Flush
  <2>1. <<>> \in Seq(Piece)
    BY EmptySeq
  <2>2. HandOver(buffer, <<>>, "OK") =>
          stdout' \in Seq(Piece) /\ buffer' \in Seq(Piece) /\ pc' \in {"OK", "Failed"}
    BY <2>1, HandOverTyped DEF RunTypeOK
  <2>3. stdout \o buffer \in Seq(Piece)
    BY ConcatProperties DEF RunTypeOK
  <2>4. stdout' \in Seq(Piece) /\ buffer' \in Seq(Piece) /\ pc' \in {"OK", "Failed"}
    BY <1>5, <2>1, <2>2, <2>3 DEF Flush
  <2>5. QED
    BY <1>5, <2>4 DEF Flush, RunTypeOK, Place, service
<1>6. CASE Fail
  <2>1. stdout' \in Seq(Piece) /\ buffer' \in Seq(Piece)
    BY <1>6, DropTyped DEF Fail, RunTypeOK
  <2>2. stderr' \in Seq(Message) /\ pc' \in {"FAILURE", "Panicked"}
    BY <1>6, WritelnTyped DEF Fail, RunTypeOK, Message, Place
  <2>3. QED
    BY <1>6, <2>1, <2>2 DEF Fail, RunTypeOK, Place, service
<1>7. QED
  BY <1>1, <1>3, <1>4, <1>5, <1>6

LEMMA RunInitTypes == RunInit => RunTypeOK
BY InitTypes, EmptySeq DEF RunInit, RunTypeOK, Place, Position, FirstPosition

LEMMA RunNextTypes ==
  ASSUME RunTypeOK, [RunNext]_runVars
  PROVE  RunTypeOK'
<1>1. TypeOK'
  BY StepOfService, NextTypes DEF RunTypeOK
<1>2. CASE UNCHANGED runVars
  BY <1>1, <1>2 DEF RunTypeOK, runVars, service, output
<1>3. CASE RunNext
  BY <1>1, <1>3, ArgumentsTyped, ReadRowTyped, LogErrorTyped, ReportTyped DEF RunNext
<1>4. QED
  BY <1>2, <1>3

(* Inside the program the service stays well formed, and so do the reader, *)
(* the buffer and the streams; nothing is printed before the report.       *)
THEOREM ProgramTypeCorrect == RunSpec => []RunTypeOK
<1>1. RunInit => RunTypeOK
  BY RunInitTypes
<1>2. RunTypeOK /\ [RunNext]_runVars => RunTypeOK'
  BY RunNextTypes
<1>3. QED
  BY <1>1, <1>2, PTL DEF RunSpec

-----------------------------------------------------------------------------
(* Panics. *)

(* In a well-formed service every account has its record. *)
LEMMA AccountHasRecord ==
  ASSUME TypeOK, NEW client \in DOMAIN accounts
  PROVE  AccountRecord(accounts[client]) # {}
<1> DEFINE account == accounts[client]
           total == Total(account.balance)
<1>1. total \in CheckedAdd(account.balance.available, account.balance.held)
  BY DEF TypeOK, AreAccounts, CheckedAdd, Total
<1>2. QED
  BY <1>1 DEF AccountRecord

LEMMA StepFailsNot ==
  ASSUME RunTypeOK, OnlyStreamsFail, [RunNext]_runVars
  PROVE  OnlyStreamsFail'
<1> SUFFICES ASSUME MayFail = {}
             PROVE  pc' \notin {"Failed", "FAILURE", "Panicked"}
  BY DEF OnlyStreamsFail
<1>1. pc \notin {"Failed", "FAILURE", "Panicked"}
  BY DEF OnlyStreamsFail
<1>2. CASE Usage \/ Help \/ NoInput \/ Open \/ LogError \/ EndOfInput \/ BufferFull \/ Flush \/ Fail
  BY <1>1, <1>2 DEF Usage, Help, NoInput, Open, LogError, EndOfInput, BufferFull, Flush, Fail,
     Writeln, HandOver, TakePart
<1>3. ASSUME NEW row \in Rows, NEW blank \in 0 .. MaxBlank, ReadRow(row, blank)
      PROVE  pc' \notin {"Failed", "FAILURE", "Panicked"}
  BY <1>3 DEF ReadRow, Take
<1>4. CASE WriteAccount
  <2>1. Head(pending) \in DOMAIN accounts
    BY <1>4, HeadTailProperties DEF WriteAccount, RunTypeOK
  <2>2. AccountRecord(accounts[Head(pending)]) # {}
    BY <2>1, AccountHasRecord DEF RunTypeOK
  <2>3. QED
    BY <1>1, <1>4, <2>2 DEF WriteAccount
<1>5. CASE UNCHANGED runVars
  BY <1>1, <1>5 DEF runVars
<1>6. QED
  BY <1>2, <1>3, <1>4, <1>5 DEF RunNext

(* As long as the streams that it writes to work there is no input, of any *)
(* length and even if reading it breaks off, on which the program panics   *)
(* or ends with the exit code of a failure: the total of no account        *)
(* overflows.                                                              *)
THEOREM NoInputFails == RunSpec => []OnlyStreamsFail
<1>1. RunInit => OnlyStreamsFail
  BY DEF RunInit, OnlyStreamsFail
<1>2. RunTypeOK /\ OnlyStreamsFail /\ [RunNext]_runVars => OnlyStreamsFail'
  BY StepFailsNot
<1>3. QED
  BY <1>1, <1>2, ProgramTypeCorrect, PTL DEF RunSpec

-----------------------------------------------------------------------------
(* Failures are reported. *)

(* A row that is taken is counted with its answer, and with the position   *)
(* of the reader before it.                                                *)
LEMMA TakeCounts ==
  ASSUME RunTypeOK, NEW row \in Rows, NEW blank \in 0 .. MaxBlank,
         NEW result \in Result \cup CsvRowError, Take(row, blank, result)
  PROVE  \E entry \in Entry : /\ input' = Append(input, entry)
                              /\ entry.row = row /\ entry.result = result
                              /\ entry.start = position
<1>1. position.line + blank \in Nat
  BY BoundsAssumption DEF RunTypeOK, Position
<1>2. [row |-> row, line |-> position.line + blank, start |-> position, result |-> result]
        \in Entry
  BY <1>1, RowsAssumption DEF RunTypeOK, Entry
<1>3. QED
  BY <1>2 DEF Take

(* The rows that the reader has read in full. *)
FullyRead == {j \in DOMAIN input : input[j].row # Unreadable}

LastAbout == IF pc = "USAGE" THEN "Usage" ELSE IF pc = "NOINPUT" THEN "NoInput" ELSE "Program"

(* The messages are those of the failures, in their order: all of them, or *)
(* all but that of the last row while it is being written; when the        *)
(* program ends with an error, its own message follows.                    *)
MessagesAreFailures ==
  /\ position.record = 1 + Cardinality(FullyRead)
  /\ \A i \in DOMAIN input : input[i].start.record = NumberOf(i)
  /\ \A i \in Failures : RankOf(i) \in DOMAIN stderr => Reports(stderr[RankOf(i)], i)
  /\ pc = "Start" => input = <<>> /\ stderr = <<>>
  /\ pc \in {"Loop", "Accounts", "OK", "Failed"} => Len(stderr) = Cardinality(Failures)
  /\ pc = "Log" => Len(input) \in Failures /\ Len(stderr) = Cardinality(Failures) - 1
  /\ pc \in {"USAGE", "NOINPUT", "FAILURE"} =>
       Len(stderr) = Cardinality(Failures) + 1 /\ Last(stderr).about = LastAbout
  /\ pc = "Panicked" => Len(stderr) <= Cardinality(Failures)
  /\ pc = "Panicked" /\ stdout # <<>> => Len(stderr) = Cardinality(Failures)

LEMMA InputIsFinite ==
  ASSUME input \in Seq(Entry)
  PROVE  /\ Len(input) \in Nat /\ DOMAIN input = 1 .. Len(input)
         /\ \A i \in DOMAIN input : input[i] \in Entry
         /\ IsFiniteSet(Failures) /\ Cardinality(Failures) \in Nat
         /\ IsFiniteSet(FullyRead) /\ Cardinality(FullyRead) \in Nat
<1>1. Len(input) \in Nat /\ DOMAIN input = 1 .. Len(input)
  BY LenProperties
<1>2. IsFiniteSet(DOMAIN input)
  BY <1>1, FS_Interval
<1>3. Failures \in SUBSET DOMAIN input /\ FullyRead \in SUBSET DOMAIN input
  BY DEF Failures, FullyRead
<1>4. IsFiniteSet(Failures) /\ IsFiniteSet(FullyRead)
  BY <1>2, <1>3, FS_Subset
<1>5. Cardinality(Failures) \in Nat /\ Cardinality(FullyRead) \in Nat
  BY <1>4, FS_CardinalityType
<1>6. \A i \in DOMAIN input : input[i] \in Entry
  BY <1>1, ElementOfSeq
<1>7. QED
  BY <1>1, <1>4, <1>5, <1>6

(* A failure has a place among the failures; the last place is that of the *)
(* last failure.                                                           *)
LEMMA RankIsPlace ==
  ASSUME input \in Seq(Entry), NEW i \in Failures
  PROVE  /\ RankOf(i) \in 1 .. Cardinality(Failures)
         /\ RankOf(i) = Cardinality(Failures) <=> \A j \in Failures : j <= i
<1> DEFINE upTo == {j \in Failures : j <= i}
<1>1. i \in upTo
  BY InputIsFinite DEF Failures
<1>2. /\ IsFiniteSet(Failures) /\ Cardinality(Failures) \in Nat
      /\ upTo \in SUBSET Failures
  BY InputIsFinite
<1>3. /\ IsFiniteSet(upTo) /\ Cardinality(upTo) <= Cardinality(Failures)
      /\ Cardinality(upTo) = Cardinality(Failures) <=> upTo = Failures
  BY <1>2, FS_Subset
<1>4. Cardinality(upTo) \in Nat /\ Cardinality(upTo) # 0
  BY <1>1, <1>3, FS_CardinalityType, FS_EmptySet
<1>5. RankOf(i) = Cardinality(upTo)
  BY DEF RankOf
<1>6. upTo = Failures <=> \A j \in Failures : j <= i
  OBVIOUS
<1> HIDE DEF upTo
<1>7. QED
  BY <1>2, <1>3, <1>4, <1>5, <1>6

(* One more row: what is counted of the rows before it stays, and it comes *)
(* last.                                                                   *)
LEMMA OneMoreRow ==
  ASSUME input \in Seq(Entry), NEW entry \in Entry, input' = Append(input, entry),
         NEW last, last = Len(input) + 1
  PROVE  /\ DOMAIN input' = DOMAIN input \cup {last} /\ last \notin DOMAIN input
         /\ input'[last] = entry /\ \A i \in DOMAIN input : input'[i] = input[i]
         /\ Failures' = IF entry.result = "Ok" THEN Failures ELSE Failures \cup {last}
         /\ FullyRead' = IF entry.row = Unreadable THEN FullyRead ELSE FullyRead \cup {last}
         /\ \A i \in DOMAIN input : NumberOf(i)' = NumberOf(i)
         /\ NumberOf(last)' = 1 + Cardinality(FullyRead)
         /\ \A i \in Failures : RankOf(i)' = RankOf(i)
         /\ input' \in Seq(Entry) /\ Len(input') = last
<1>1. Len(input) \in Nat /\ DOMAIN input = 1 .. Len(input)
  BY InputIsFinite
<1>2. /\ input' \in Seq(Entry) /\ Len(input') = last
      /\ input'[last] = entry /\ \A i \in 1 .. Len(input) : input'[i] = input[i]
  BY AppendProperties
<1>3. DOMAIN input' = 1 .. last
  BY <1>2, LenProperties
<1>4. DOMAIN input' = DOMAIN input \cup {last} /\ last \notin DOMAIN input
  BY <1>1, <1>3
<1>5. input'[last] = entry /\ \A i \in DOMAIN input : input'[i] = input[i]
  BY <1>1, <1>2
<1>6. \A i \in DOMAIN input : i <= Len(input) /\ i \in Int /\ i < last
  BY <1>1
<1>7. \A i \in DOMAIN input : \A j \in 1 .. i - 1 : j \in DOMAIN input
  BY <1>1
<1>8. 1 .. last - 1 = DOMAIN input
  BY <1>1
<1>9. Failures' = IF entry.result = "Ok" THEN Failures ELSE Failures \cup {last}
  BY <1>4, <1>5 DEF Failures
<1>10. FullyRead' = IF entry.row = Unreadable THEN FullyRead ELSE FullyRead \cup {last}
  BY <1>4, <1>5 DEF FullyRead
<1>11. ASSUME NEW i \in DOMAIN input
       PROVE  NumberOf(i)' = NumberOf(i)
  <2>1. {j \in 1 .. i - 1 : input'[j].row # Unreadable} =
          {j \in 1 .. i - 1 : input[j].row # Unreadable}
    BY <1>5, <1>7
  <2>2. QED
    BY <2>1 DEF NumberOf
<1>12. NumberOf(last)' = 1 + Cardinality(FullyRead)
  <2>1. {j \in 1 .. last - 1 : input'[j].row # Unreadable} = FullyRead
    BY <1>5, <1>8 DEF FullyRead
  <2>2. QED
    BY <2>1 DEF NumberOf
<1>13. ASSUME NEW i \in Failures
       PROVE  RankOf(i)' = RankOf(i)
  <2>1. i \in DOMAIN input
    BY DEF Failures
  <2>2. ~(last <= i)
    BY <1>1, <1>6, <2>1
  <2>3. {j \in Failures' : j <= i} = {j \in Failures : j <= i}
    BY <1>9, <2>2
  <2>4. QED
    BY <2>3 DEF RankOf
<1>14. QED
  BY <1>2, <1>4, <1>5, <1>9, <1>10, <1>11, <1>12, <1>13

LEMMA ReadRowReports ==
  ASSUME RunTypeOK, MessagesAreFailures,
         NEW row \in Rows, NEW blank \in 0 .. MaxBlank, ReadRow(row, blank)
  PROVE  MessagesAreFailures'
<1>1. PICK result \in Result \cup CsvRowError : Take(row, blank, result)
  <2>1. CASE CommandsIn(row) = {}
    BY <2>1 DEF ReadRow, ErrorOf, CsvRowError
  <2>2. ASSUME NEW cmd \in CommandsIn(row), Submit(cmd), Take(row, blank, reply'.result)
        PROVE  \E result \in Result \cup CsvRowError : Take(row, blank, result)
    BY <2>2, RowsAreCommands, SubmitIsNext, NextTypes DEF RunTypeOK, TypeOK
  <2>3. QED
    BY <2>1, <2>2 DEF ReadRow
<1>2. PICK entry \in Entry : /\ input' = Append(input, entry)
                             /\ entry.row = row /\ entry.result = result
                             /\ entry.start = position
  BY <1>1, TakeCounts
<1>3. PICK last : last = Len(input) + 1
  OBVIOUS
<1>4. /\ DOMAIN input' = DOMAIN input \cup {last} /\ last \notin DOMAIN input
      /\ input'[last] = entry /\ \A i \in DOMAIN input : input'[i] = input[i]
      /\ Failures' = IF result = "Ok" THEN Failures ELSE Failures \cup {last}
      /\ FullyRead' = IF row = Unreadable THEN FullyRead ELSE FullyRead \cup {last}
      /\ \A i \in DOMAIN input : NumberOf(i)' = NumberOf(i)
      /\ NumberOf(last)' = 1 + Cardinality(FullyRead)
      /\ \A i \in Failures : RankOf(i)' = RankOf(i)
      /\ input' \in Seq(Entry) /\ Len(input') = last
  BY <1>2, <1>3, OneMoreRow DEF RunTypeOK
<1>5. /\ IsFiniteSet(Failures) /\ Cardinality(Failures) \in Nat
      /\ IsFiniteSet(FullyRead) /\ Cardinality(FullyRead) \in Nat
      /\ Failures \subseteq DOMAIN input /\ FullyRead \subseteq DOMAIN input
  BY InputIsFinite DEF RunTypeOK, Failures, FullyRead
<1>6. /\ Cardinality(Failures') = Cardinality(Failures) + (IF result = "Ok" THEN 0 ELSE 1)
      /\ Cardinality(FullyRead') = Cardinality(FullyRead) + (IF row = Unreadable THEN 0 ELSE 1)
  <2>1. /\ Cardinality(Failures \cup {last}) = Cardinality(Failures) + 1
        /\ Cardinality(FullyRead \cup {last}) = Cardinality(FullyRead) + 1
    BY <1>4, <1>5, FS_AddElement
  <2>2. QED
    BY <1>4, <1>5, <2>1
<1>7. position'.record = 1 + Cardinality(FullyRead')
  BY <1>1, <1>5, <1>6 DEF Take, Behind, MessagesAreFailures
<1>8. \A i \in DOMAIN input' : input'[i].start.record = NumberOf(i)'
  BY <1>2, <1>4 DEF MessagesAreFailures
<1>9. stderr' = stderr /\ Len(stderr) = Cardinality(Failures) /\ DOMAIN stderr = 1 .. Len(stderr)
  BY LenProperties DEF ReadRow, MessagesAreFailures, RunTypeOK
<1>10. \A i \in Failures' : RankOf(i)' \in DOMAIN stderr' => Reports(stderr[RankOf(i)], i)'
  <2>1. ASSUME NEW i \in Failures, RankOf(i)' \in DOMAIN stderr'
        PROVE  Reports(stderr[RankOf(i)], i)'
    <3>1. i \in DOMAIN input /\ RankOf(i)' = RankOf(i)
      BY <1>4, <1>5
    <3>2. Reports(stderr[RankOf(i)], i)
      BY <1>9, <2>1, <3>1 DEF MessagesAreFailures
    <3>3. QED
      BY <1>4, <1>9, <3>1, <3>2 DEF Reports
  <2>2. ASSUME last \in Failures'
        PROVE  RankOf(last)' \notin DOMAIN stderr'
    <3>1. RankOf(last)' = Cardinality(Failures')
      <4>1. \A j \in Failures' : j <= last
        BY <1>3, <1>4, <1>5, InputIsFinite DEF RunTypeOK
      <4>2. {j \in Failures' : j <= last} = Failures'
        BY <4>1
      <4>3. QED
        BY <4>2 DEF RankOf
    <3>2. result # "Ok"
      BY <1>4, <1>5, <2>2
    <3>3. QED
      BY <1>5, <1>6, <1>9, <3>1, <3>2
  <2>3. QED
    BY <1>4, <2>1, <2>2
<1>11. IF result = "Ok" THEN pc' = "Loop"
       ELSE pc' = "Log" /\ Len(input') \in Failures'
  BY <1>1, <1>4 DEF Take
<1>12. QED
  BY <1>5, <1>6, <1>7, <1>8, <1>9, <1>10, <1>11 DEF MessagesAreFailures

(* The message about the last row is that of the last failure. *)
LEMMA LogErrorReports ==
  ASSUME RunTypeOK, MessagesAreFailures, LogError
  PROVE  MessagesAreFailures'
<1> DEFINE last == Len(input)
           message == [about |-> "Command", record |-> Last(input).start.record,
                       line |-> Last(input).start.line, error |-> Last(input).result]
<1>1. /\ UNCHANGED <<input, position>>
      /\ last \in Failures /\ Len(stderr) = Cardinality(Failures) - 1
      /\ \/ stderr' = Append(stderr, message) /\ pc' = "Loop"
         \/ stderr' = stderr /\ pc' = "Panicked"
  BY DEF LogError, Writeln, MessagesAreFailures
<1>2. /\ Failures' = Failures /\ FullyRead' = FullyRead
      /\ \A i \in DOMAIN input : NumberOf(i)' = NumberOf(i) /\ RankOf(i)' = RankOf(i)
  BY <1>1 DEF Failures, FullyRead, NumberOf, RankOf
<1>3. Failures \subseteq DOMAIN input /\ Cardinality(Failures) \in Nat
  BY InputIsFinite DEF RunTypeOK, Failures
<1>4. /\ position'.record = 1 + Cardinality(FullyRead')
      /\ \A i \in DOMAIN input' : input'[i].start.record = NumberOf(i)'
  BY <1>1, <1>2 DEF MessagesAreFailures
<1>5. ASSUME NEW i \in Failures, RankOf(i) \in DOMAIN stderr,
             stderr'[RankOf(i)] = stderr[RankOf(i)]
      PROVE  Reports(stderr[RankOf(i)], i)'
  BY <1>1, <1>2, <1>3, <1>5 DEF MessagesAreFailures, Reports
<1>6. CASE stderr' = stderr /\ pc' = "Panicked"
  <2>1. \A i \in Failures' : RankOf(i)' \in DOMAIN stderr' => Reports(stderr[RankOf(i)], i)'
    BY <1>2, <1>3, <1>5, <1>6
  <2>2. Len(stderr') <= Cardinality(Failures')
    BY <1>1, <1>2, <1>3, <1>6
  <2>3. stdout' = <<>>
    BY DEF LogError, RunTypeOK, output
  <2>4. QED
    BY <1>4, <1>6, <2>1, <2>2, <2>3 DEF MessagesAreFailures
<1>7. CASE stderr' = Append(stderr, message) /\ pc' = "Loop"
  <2>1. last \in DOMAIN input /\ \A j \in Failures : j <= last
    BY <1>1, <1>3, InputIsFinite DEF RunTypeOK
  <2>2. message \in Message
    <3>1. input[last] \in Entry
      BY <2>1, InputIsFinite DEF RunTypeOK
    <3>2. QED
      BY <3>1 DEF Entry, Position, Message, Last
  <2>3. /\ stderr' \in Seq(Message) /\ Len(stderr) \in Nat /\ Len(stderr') = Len(stderr) + 1
        /\ DOMAIN stderr = 1 .. Len(stderr) /\ DOMAIN stderr' = 1 .. Len(stderr) + 1
        /\ \A n \in 1 .. Len(stderr) : stderr'[n] = stderr[n]
        /\ stderr'[Len(stderr) + 1] = message
    <3> HIDE DEF message
    <3>1. QED
      BY <1>7, <2>2, AppendProperties, LenProperties DEF RunTypeOK
  <2>4. Len(stderr') = Cardinality(Failures')
    BY <1>1, <1>2, <1>3, <2>3
  <2>5. ASSUME NEW i \in Failures'
        PROVE  Reports(stderr[RankOf(i)], i)'
    <3>1. i \in Failures /\ RankOf(i)' = RankOf(i) /\ i \in DOMAIN input
      BY <1>2, <1>3
    <3>2. RankOf(i) \in 1 .. Cardinality(Failures)
          /\ (RankOf(i) = Cardinality(Failures) => \A j \in Failures : j <= i)
      BY <3>1, RankIsPlace DEF RunTypeOK
    <3>3. CASE RankOf(i) # Cardinality(Failures)
      <4>1. RankOf(i) \in 1 .. Len(stderr)
        BY <1>1, <1>3, <3>2, <3>3
      <4>2. QED
        BY <1>5, <2>3, <3>1, <4>1
    <3>4. CASE RankOf(i) = Cardinality(Failures)
      <4>1. i = last
        BY <1>1, <2>1, <3>1, <3>2, <3>4, InputIsFinite DEF RunTypeOK
      <4>2. stderr'[RankOf(i)'] = message
        BY <1>1, <1>3, <2>3, <3>1, <3>4
      <4>3. message.about = "Command" /\ message.record = NumberOf(i)
            /\ message.error = input[i].result
        BY <3>1, <4>1 DEF MessagesAreFailures, Last
      <4>4. QED
        BY <1>1, <1>2, <3>1, <4>2, <4>3 DEF Reports
    <3>5. QED
      BY <3>3, <3>4
  <2>6. QED
    BY <1>4, <1>7, <2>4, <2>5 DEF MessagesAreFailures
<1>8. QED
  BY <1>1, <1>6, <1>7

(* A message that is not about a row comes after those that are. *)
LEMMA LastMessage ==
  ASSUME RunTypeOK, MessagesAreFailures, UNCHANGED <<input, position>>,
         Len(stderr) = Cardinality(Failures),
         NEW message \in Message, NEW next \in {"USAGE", "NOINPUT", "FAILURE"},
         message.about = IF next = "USAGE" THEN "Usage"
                         ELSE IF next = "NOINPUT" THEN "NoInput" ELSE "Program",
         Writeln(message, next)
  PROVE  MessagesAreFailures'
<1>1. /\ Failures' = Failures /\ FullyRead' = FullyRead
      /\ \A i \in DOMAIN input : NumberOf(i)' = NumberOf(i) /\ RankOf(i)' = RankOf(i)
  BY DEF Failures, FullyRead, NumberOf, RankOf
<1>2. Failures \subseteq DOMAIN input /\ Cardinality(Failures) \in Nat
  BY InputIsFinite DEF RunTypeOK, Failures
<1>3. /\ position'.record = 1 + Cardinality(FullyRead')
      /\ \A i \in DOMAIN input' : input'[i].start.record = NumberOf(i)'
  BY <1>1 DEF MessagesAreFailures
<1>4. \/ stderr' = Append(stderr, message) /\ pc' = next
      \/ stderr' = stderr /\ pc' = "Panicked"
  BY DEF Writeln
<1>5. /\ Len(stderr) \in Nat /\ DOMAIN stderr = 1 .. Len(stderr)
      /\ \A n \in 1 .. Len(stderr) : stderr'[n] = stderr[n]
      /\ pc' = next => Len(stderr') = Len(stderr) + 1 /\ Last(stderr') = message
  BY <1>4, AppendProperties, LenProperties DEF RunTypeOK, Last
<1>6. ASSUME NEW i \in Failures'
      PROVE  Reports(stderr[RankOf(i)], i)'
  <2>1. i \in Failures /\ i \in DOMAIN input /\ RankOf(i)' = RankOf(i)
    BY <1>1, <1>2
  <2>2. RankOf(i) \in 1 .. Len(stderr)
    BY <2>1, RankIsPlace DEF RunTypeOK
  <2>3. Reports(stderr[RankOf(i)], i)
    BY <1>5, <2>1, <2>2 DEF MessagesAreFailures
  <2>4. QED
    BY <1>1, <1>5, <2>1, <2>2, <2>3 DEF Reports
<1>7. pc' = next => Len(stderr') = Cardinality(Failures') + 1 /\ Last(stderr').about = LastAbout'
  BY <1>1, <1>5 DEF LastAbout
<1>8. pc' = "Panicked" =>
        Len(stderr') <= Cardinality(Failures') /\ Len(stderr') = Cardinality(Failures')
  BY <1>1, <1>2, <1>4
<1>9. QED
  BY <1>3, <1>4, <1>6, <1>7, <1>8 DEF MessagesAreFailures

(* Where no row is read and no message written, the count stays, as long   *)
(* as what it is expected to be does.                                      *)
LEMMA NothingToReport ==
  ASSUME RunTypeOK, MessagesAreFailures, UNCHANGED <<input, position, stderr>>,
         Len(stderr) = Cardinality(Failures),
         pc' \in {"Loop", "Accounts", "OK", "Failed", "Panicked"}
  PROVE  MessagesAreFailures'
<1>1. /\ Failures' = Failures /\ FullyRead' = FullyRead
      /\ \A i \in DOMAIN input : NumberOf(i)' = NumberOf(i) /\ RankOf(i)' = RankOf(i)
  BY DEF Failures, FullyRead, NumberOf, RankOf
<1>2. Failures \subseteq DOMAIN input /\ Cardinality(Failures) \in Nat
  BY InputIsFinite DEF RunTypeOK, Failures
<1>3. /\ position'.record = 1 + Cardinality(FullyRead')
      /\ \A i \in DOMAIN input' : input'[i].start.record = NumberOf(i)'
  BY <1>1 DEF MessagesAreFailures
<1>4. ASSUME NEW i \in Failures', RankOf(i)' \in DOMAIN stderr'
      PROVE  Reports(stderr[RankOf(i)], i)'
  BY <1>1, <1>2, <1>4 DEF MessagesAreFailures, Reports
<1>5. Len(stderr') = Cardinality(Failures') /\ Len(stderr') <= Cardinality(Failures')
  BY <1>1, <1>2
<1>6. QED
  BY <1>3, <1>4, <1>5 DEF MessagesAreFailures

(* Before the first row there is nothing to report. *)
LEMMA NoFailuresYet ==
  ASSUME input = <<>>
  PROVE  Failures = {} /\ FullyRead = {} /\ Cardinality({}) = 0
BY FS_EmptySet DEF Failures, FullyRead

LEMMA StepTellsFailures ==
  ASSUME RunTypeOK, MessagesAreFailures, [RunNext]_runVars
  PROVE  MessagesAreFailures'
<1>1. CASE UNCHANGED runVars
  BY <1>1 DEF MessagesAreFailures, Failures, FullyRead, NumberOf, RankOf, Reports, LastAbout,
     runVars, output
<1>2. pc = "Start" => Len(stderr) = Cardinality(Failures)
  BY NoFailuresYet DEF MessagesAreFailures
<1>3. pc \in {"Start", "Loop", "Accounts", "Failed"} => Len(stderr) = Cardinality(Failures)
  BY <1>2 DEF MessagesAreFailures
<1>4. CASE Usage \/ NoInput \/ Fail
  <2>1. UNCHANGED <<input, position>> /\ Len(stderr) = Cardinality(Failures)
    BY <1>3, <1>4 DEF Usage, NoInput, Fail
  <2>2. /\ Usage => Writeln([about |-> "Usage"], "USAGE")
        /\ NoInput => Writeln([about |-> "NoInput"], "NOINPUT")
        /\ Fail => Writeln([about |-> "Program"], "FAILURE")
    BY DEF Usage, NoInput, Fail
  <2>3. /\ [about |-> "Usage"] \in Message /\ [about |-> "NoInput"] \in Message
        /\ [about |-> "Program"] \in Message
    BY DEF Message
  <2>4. QED
    BY <1>4, <2>1, <2>2, <2>3, LastMessage
<1>5. CASE Help \/ Open \/ EndOfInput \/ WriteAccount \/ BufferFull \/ Flush
  <2>1. UNCHANGED <<input, position, stderr>> /\ Len(stderr) = Cardinality(Failures)
    BY <1>3, <1>5 DEF Help, Open, EndOfInput, WriteAccount, BufferFull, Flush
  <2>2. pc' \in {"Loop", "Accounts", "OK", "Failed", "Panicked"}
    BY <1>5 DEF Help, Open, EndOfInput, WriteAccount, BufferFull, Flush, HandOver
  <2>3. QED
    BY <2>1, <2>2, NothingToReport
<1>6. QED
  BY <1>1, <1>4, <1>5, ReadRowReports, LogErrorReports DEF RunNext

(* The count of messages is right at each place of the program. *)
LEMMA MessagesTellFailures ==
  ASSUME RunTypeOK, MessagesAreFailures
  PROVE  EveryFailureIsReported
<1>1. Cardinality(Failures) \in Nat /\ Len(stderr) \in Nat /\ DOMAIN stderr = 1 .. Len(stderr)
  BY InputIsFinite, LenProperties DEF RunTypeOK
<1>2. CASE pc = "Start"
  <2>1. Len(stderr) = 0 /\ Cardinality(Failures) = 0
    BY <1>2, NoFailuresYet DEF MessagesAreFailures
  <2>2. QED
    BY <1>1, <1>2, <2>1 DEF EveryFailureIsReported, MessagesAreFailures
<1>3. CASE pc \in {"Loop", "Accounts", "OK", "Failed", "Log", "Panicked"}
  <2>1. Len(stderr) <= Cardinality(Failures)
        /\ (pc \notin {"Log", "Panicked"} \/ stdout # <<>> =>
              Cardinality(Failures) <= Len(stderr))
    BY <1>1, <1>3 DEF MessagesAreFailures, RunTypeOK
  <2>2. QED
    BY <1>1, <1>3, <2>1 DEF EveryFailureIsReported, MessagesAreFailures
<1>4. CASE pc \in {"USAGE", "NOINPUT", "FAILURE"}
  <2>1. Len(stderr) = Cardinality(Failures) + 1 /\ stderr[Len(stderr)].about # "Command"
        /\ (pc = "FAILURE" => Last(stderr).about = "Program")
    BY <1>4 DEF MessagesAreFailures, LastAbout, Last
  <2>2. \A n \in DOMAIN stderr : stderr[n].about = "Command" => n <= Cardinality(Failures)
    BY <1>1, <2>1
  <2>3. QED
    BY <1>1, <1>4, <2>1, <2>2 DEF EveryFailureIsReported, MessagesAreFailures
<1>5. QED
  BY <1>2, <1>3, <1>4 DEF RunTypeOK, Place

(* Whatever the rows and however many, each row that failed is reported on *)
(* stderr, once, in its place and under its number.                        *)
THEOREM FailuresAreReported == RunSpec => []EveryFailureIsReported
<1>1. ASSUME RunInit
      PROVE  MessagesAreFailures
  <2>1. /\ pc = "Start" /\ input = <<>> /\ stderr = <<>> /\ position.record = 1
        /\ Failures = {} /\ FullyRead = {} /\ Cardinality({}) = 0
    BY <1>1, NoFailuresYet DEF RunInit, FirstPosition
  <2>2. QED
    BY <2>1 DEF MessagesAreFailures
<1>2. RunTypeOK /\ MessagesAreFailures /\ [RunNext]_runVars => MessagesAreFailures'
  BY StepTellsFailures
<1>3. RunTypeOK /\ MessagesAreFailures => EveryFailureIsReported
  BY MessagesTellFailures
<1>4. QED
  BY <1>1, <1>2, <1>3, ProgramTypeCorrect, PTL DEF RunSpec

-----------------------------------------------------------------------------
(* Every line is true. *)

(* The lines that may be printed: the header, the help text, and the       *)
(* records of the accounts as they are.                                    *)
TrueRecord == {line \in AccountLine : /\ line.client \in DOMAIN accounts
                                      /\ line \in AccountRecord(accounts[line.client])}

TrueLine == {Header, HelpText} \cup TrueRecord

TruePiece == [line : TrueLine, part : 1 .. LineLength]

LinesAreTrue == stdout \in Seq(TruePiece) /\ buffer \in Seq(TruePiece)

LEMMA RecordIsTrue ==
  ASSUME TypeOK, NEW client \in DOMAIN accounts, NEW line \in AccountRecord(accounts[client])
  PROVE  line \in TrueRecord /\ line \in TrueLine
BY AccountRecordTyped DEF TrueLine, TrueRecord

LEMMA StepPrintsTruth ==
  ASSUME RunTypeOK, LinesAreTrue, [RunNext]_runVars
  PROVE  LinesAreTrue'
<1>1. stdout \in Seq(TruePiece) /\ buffer \in Seq(TruePiece)
  BY DEF LinesAreTrue
<1>2. ASSUME NEW row \in Rows, NEW blank \in 0 .. MaxBlank, ReadRow(row, blank)
      PROVE  LinesAreTrue'
  BY <1>2, EmptySeq DEF ReadRow, RunTypeOK, output, LinesAreTrue
<1>3. ASSUME UNCHANGED accounts, stdout' \in Seq(TruePiece), buffer' \in Seq(TruePiece)
      PROVE  LinesAreTrue'
  <2>1. TruePiece' = TruePiece
    BY <1>3 DEF TruePiece, TrueLine, TrueRecord
  <2>2. QED
    BY <1>3, <2>1 DEF LinesAreTrue
<1>4. CASE Usage \/ NoInput \/ Open \/ LogError \/ UNCHANGED runVars
  <2>1. UNCHANGED <<accounts, stdout, buffer>>
    BY <1>4 DEF Usage, NoInput, Open, LogError, runVars, service, output
  <2>2. QED
    BY <1>1, <1>3, <2>1
<1>5. CASE Help
  <2>1. Pieces(HelpText) \in Seq(TruePiece)
    BY PiecesTyped DEF TruePiece, TrueLine
  <2>2. stdout' \in Seq(TruePiece)
    BY <1>1, <1>5, <2>1, TakenTyped DEF Help
  <2>3. QED
    BY <1>1, <1>3, <1>5, <2>2 DEF Help, service
<1>6. CASE EndOfInput
  <2>1. Pieces(Header) \in Seq(TruePiece)
    BY PiecesTyped DEF TruePiece, TrueLine
  <2>2. QED
    BY <1>1, <1>3, <1>6, <2>1 DEF EndOfInput, service
<1>7. pending # <<>> => Head(pending) \in DOMAIN accounts
  BY HeadTailProperties DEF RunTypeOK
<1>8. CASE WriteAccount
  <2>1. AccountRecord(accounts[Head(pending)]) # {}
    BY <1>7, <1>8, AccountHasRecord DEF WriteAccount, RunTypeOK
  <2>2. PICK line \in AccountRecord(accounts[Head(pending)]) :
          buffer' = buffer \o Pieces(line)
    BY <1>8, <2>1 DEF WriteAccount
  <2>3. line \in TrueLine
    BY <1>7, <1>8, <2>2, RecordIsTrue DEF WriteAccount, RunTypeOK
  <2>4. Pieces(line) \in Seq(TruePiece)
    BY <2>3, PiecesTyped DEF TruePiece
  <2>5. buffer' \in Seq(TruePiece)
    BY <1>1, <2>2, <2>4, ConcatProperties
  <2>6. QED
    BY <1>1, <1>3, <1>8, <2>1, <2>5 DEF WriteAccount, service
<1>9. CASE BufferFull
  <2>1. PICK line \in AccountRecord(accounts[Head(pending)]), n \in 0 .. LineLength - 1 :
          HandOver(buffer \o SubSeq(Pieces(line), 1, n),
                   SubSeq(Pieces(line), n + 1, LineLength), "Accounts")
    BY <1>9 DEF BufferFull
  <2>2. line \in TrueLine
    BY <1>7, <1>9, <2>1, RecordIsTrue DEF BufferFull, RunTypeOK
  <2>3. /\ SubSeq(Pieces(line), 1, n) \in Seq(TruePiece)
        /\ SubSeq(Pieces(line), n + 1, LineLength) \in Seq(TruePiece)
    BY <2>2, PiecesCut DEF TruePiece
  <2>4. buffer \o SubSeq(Pieces(line), 1, n) \in Seq(TruePiece)
    BY <1>1, <2>3, ConcatProperties
  <2>5. stdout' \in Seq(TruePiece) /\ buffer' \in Seq(TruePiece)
    BY <1>1, <2>1, <2>3, <2>4, HandOverTyped
  <2>6. QED
    BY <1>3, <1>9, <2>5 DEF BufferFull, service
<1>10. CASE Flush
  <2>1. <<>> \in Seq(TruePiece) /\ stdout \o buffer \in Seq(TruePiece)
    BY <1>1, EmptySeq, ConcatProperties
  <2>2. HandOver(buffer, <<>>, "OK") =>
          stdout' \in Seq(TruePiece) /\ buffer' \in Seq(TruePiece)
    BY <1>1, <2>1, HandOverTyped
  <2>3. QED
    BY <1>3, <1>10, <2>1, <2>2 DEF Flush, service
<1>11. CASE Fail
  BY <1>1, <1>3, <1>11, DropTyped DEF Fail, service
<1>12. QED
  BY <1>2, <1>4, <1>5, <1>6, <1>8, <1>9, <1>10, <1>11 DEF RunNext

(* A printed line shows the account of its client as it is. *)
LEMMA PrintedAreAccounts ==
  ASSUME LinesAreTrue, NEW line \in Printed
  PROVE  /\ line \in AccountLine /\ line.client \in DOMAIN accounts
         /\ line.held = accounts[line.client].balance.held
         /\ line.available = accounts[line.client].balance.available
         /\ line.total = line.available + line.held
         /\ line.locked = accounts[line.client].locked
<1>1. Range(stdout) \subseteq TruePiece
  BY RangeOfSeq DEF LinesAreTrue
<1>2. PICK piece \in Range(stdout) : line = piece.line
  BY DEF Printed
<1>3. line \in TrueRecord
  BY <1>1, <1>2 DEF Printed, TruePiece, TrueLine
<1>4. line \in AccountLine /\ line.client \in DOMAIN accounts
      /\ line \in AccountRecord(accounts[line.client])
  BY <1>3 DEF TrueRecord
<1>5. QED
  BY <1>4 DEF AccountRecord, CheckedAdd

(* A line about an account whose record it is shows the sums over the      *)
(* client's transactions.                                                  *)
LEMMA TrueLinesAreSums ==
  ASSUME RunTypeOK, BalanceIsLedger, LinesAreTrue, NEW line \in Printed
  PROVE  /\ pc \notin {"Loop", "Log"}
         /\ line.held = HeldAssets(transactions, line.client)
         /\ line.total = OwnedAssets(transactions, line.client)
         /\ line.available = line.total - line.held
         /\ line.locked = accounts[line.client].locked
<1> DEFINE account == accounts[line.client]
<1>2. line.client \in DOMAIN accounts
  BY PrintedAreAccounts
<1>3. stdout # <<>>
  BY DEF Printed, Range
<1>4. /\ line.held = account.balance.held
      /\ line.available = account.balance.available
      /\ line.total = account.balance.available + account.balance.held
      /\ line.locked = account.locked
  BY PrintedAreAccounts
<1>5. account.balance.held \in Int /\ account.balance.available \in Int
  BY <1>2 DEF RunTypeOK, TypeOK, AreAccounts, MemAccount, Balance, AssetCount
<1>6. /\ account.balance.held = HeldAssets(transactions, line.client)
      /\ account.balance.available + account.balance.held = OwnedAssets(transactions, line.client)
  BY <1>2 DEF BalanceIsLedger, Total
<1>7. pc \notin {"Loop", "Log"}
  BY <1>3 DEF RunTypeOK
<1> HIDE DEF account
<1>8. line.available = line.total - line.held
  BY <1>4, <1>5
<1>9. QED
  BY <1>4, <1>6, <1>7, <1>8 DEF account

-----------------------------------------------------------------------------
(* No line is torn but where a write failed. *)

(* Where two sequences are joined only the first piece of the second one   *)
(* has another piece before it.                                            *)
LEMMA JoinedInPlace ==
  ASSUME NEW S, NEW s \in Seq(S), NEW t \in Seq(S)
  PROVE  /\ s \o t \in Seq(S)
         /\ Len(s) \in Nat /\ Len(t) \in Nat /\ Len(s \o t) = Len(s) + Len(t)
         /\ DOMAIN s = 1 .. Len(s) /\ DOMAIN t = 1 .. Len(t)
         /\ DOMAIN (s \o t) = 1 .. Len(s) + Len(t)
         /\ \A i \in 1 .. Len(s) : InPlace(s \o t, i) <=> InPlace(s, i)
         /\ \A i \in 2 .. Len(t) : InPlace(s \o t, Len(s) + i) <=> InPlace(t, i)
<1> DEFINE whole == s \o t
<1>1. /\ whole \in Seq(S) /\ Len(s) \in Nat /\ Len(t) \in Nat
      /\ Len(whole) = Len(s) + Len(t)
      /\ \A i \in 1 .. Len(s) + Len(t) :
           whole[i] = IF i <= Len(s) THEN s[i] ELSE t[i - Len(s)]
      /\ DOMAIN s = 1 .. Len(s) /\ DOMAIN t = 1 .. Len(t)
  BY ConcatProperties, LenProperties
<1>2. DOMAIN whole = 1 .. Len(s) + Len(t)
  <2> HIDE DEF whole
  <2>1. QED
    BY <1>1, LenProperties
<1> HIDE DEF whole
<1>3. ASSUME NEW i \in 1 .. Len(s)
      PROVE  InPlace(whole, i) <=> InPlace(s, i)
  <2>1. whole[i] = s[i]
    BY <1>1
  <2>2. i > 1 => whole[i - 1] = s[i - 1]
    BY <1>1
  <2>3. QED
    BY <2>1, <2>2 DEF InPlace
<1>4. ASSUME NEW i \in 2 .. Len(t)
      PROVE  InPlace(whole, Len(s) + i) <=> InPlace(t, i)
  <2>1. whole[Len(s) + i] = t[i]
    <3>1. Len(s) + i \in 1 .. Len(s) + Len(t) /\ ~(Len(s) + i <= Len(s))
          /\ (Len(s) + i) - Len(s) = i
      BY <1>1
    <3>2. QED
      BY <1>1, <3>1
  <2>2. whole[(Len(s) + i) - 1] = t[i - 1]
    <3>1. (Len(s) + i) - 1 \in 1 .. Len(s) + Len(t) /\ ~((Len(s) + i) - 1 <= Len(s))
          /\ ((Len(s) + i) - 1) - Len(s) = i - 1
      BY <1>1
    <3>2. QED
      BY <1>1, <3>1
  <2>3. Len(s) + i > 1 /\ i > 1 /\ Len(s) + i # 1 /\ i # 1
    BY <1>1
  <2>4. QED
    BY <2>1, <2>2, <2>3 DEF InPlace
<1>5. QED
  BY <1>1, <1>2, <1>3, <1>4 DEF whole

(* Nothing is spliced inside of the parts of what is not; what is joined   *)
(* is spliced at the joint at most.                                        *)
LEMMA SplicesOfJoined ==
  ASSUME NEW S, NEW s \in Seq(S), NEW t \in Seq(S)
  PROVE  /\ Splices(s) \subseteq Splices(s \o t)
         /\ Splices(s \o t) = {} => Splices(t) \subseteq {1}
         /\ Splices(s) = {} /\ Splices(t) \subseteq {1} =>
              Splices(s \o t) \subseteq {Len(s) + 1}
<1>1. /\ Len(s) \in Nat /\ Len(t) \in Nat
      /\ DOMAIN s = 1 .. Len(s) /\ DOMAIN t = 1 .. Len(t)
      /\ DOMAIN (s \o t) = 1 .. Len(s) + Len(t)
      /\ \A i \in 1 .. Len(s) : InPlace(s \o t, i) <=> InPlace(s, i)
      /\ \A i \in 2 .. Len(t) : InPlace(s \o t, Len(s) + i) <=> InPlace(t, i)
  BY JoinedInPlace
<1> DEFINE whole == s \o t
<1> HIDE DEF whole
<1>2. Splices(s) \subseteq Splices(whole)
  BY <1>1 DEF whole, Splices
<1>3. ASSUME NEW i \in Splices(t), i # 1
      PROVE  Len(s) + i \in Splices(whole)
  <2>1. i \in 2 .. Len(t) /\ ~InPlace(t, i)
    BY <1>1, <1>3 DEF Splices
  <2>2. ~InPlace(whole, Len(s) + i) /\ Len(s) + i \in 1 .. Len(s) + Len(t)
    BY <1>1, <2>1 DEF whole
  <2>3. QED
    BY <1>1, <2>2 DEF whole, Splices
<1>4. ASSUME Splices(s) = {}, Splices(t) \subseteq {1},
             NEW i \in Splices(whole)
      PROVE  i = Len(s) + 1
  <2>1. i \in 1 .. Len(s) + Len(t) /\ ~InPlace(whole, i)
    BY <1>1 DEF whole, Splices
  <2>2. i \notin 1 .. Len(s)
    BY <1>1, <1>4, <2>1 DEF whole, Splices
  <2>3. PICK j \in 1 .. Len(t) : i = Len(s) + j
    <3>1. i - Len(s) \in 1 .. Len(t) /\ i = Len(s) + (i - Len(s))
      BY <1>1, <2>1, <2>2
    <3>2. QED
      BY <3>1
  <2>4. j \notin 2 .. Len(t)
    <3>1. ASSUME j \in 2 .. Len(t)
          PROVE  FALSE
      <4>1. ~InPlace(t, j)
        BY <1>1, <2>1, <2>3, <3>1 DEF whole
      <4>2. j \in Splices(t) /\ j # 1
        BY <1>1, <3>1, <4>1 DEF Splices
      <4>3. QED
        BY <1>4, <4>2
    <3>2. QED
      BY <3>1
  <2>5. QED
    BY <1>1, <2>3, <2>4
<1>5. QED
  BY <1>2, <1>3, <1>4 DEF whole

(* Where the last piece ends its line another line may begin. *)
EndsLine(pieces) == pieces # <<>> /\ pieces[Len(pieces)].part = LineLength

LEMMA LineInPlace ==
  ASSUME NEW S, NEW line \in S
  PROVE  Splices(Pieces(line)) = {} /\ EndsLine(Pieces(line)) /\ Pieces(line)[1].part = 1
<1>1. PICK whole \in Seq([line : S, part : 1 .. LineLength]) :
        /\ whole = Pieces(line) /\ Len(whole) = LineLength
        /\ \A i \in 1 .. LineLength : whole[i] = [line |-> line, part |-> i]
  BY PiecesTyped
<1>2. LineLength \in Nat \ {0} /\ DOMAIN whole = 1 .. LineLength
  BY <1>1, LineLengthAssumption, LenProperties
<1>3. ASSUME NEW i \in 1 .. LineLength
      PROVE  InPlace(whole, i)
  <2>1. whole[i].line = line /\ whole[i].part = i
    BY <1>1
  <2>2. CASE i = 1
    BY <2>1, <2>2 DEF InPlace
  <2>3. CASE i > 1
    <3>1. i - 1 \in 1 .. LineLength
      BY <1>2, <2>3
    <3>2. whole[i - 1].line = line /\ whole[i - 1].part = i - 1
      BY <1>1, <3>1
    <3>3. i = (i - 1) + 1
      BY <1>2
    <3>4. QED
      BY <2>1, <2>3, <3>2, <3>3 DEF InPlace
  <2>4. QED
    BY <1>2, <2>2, <2>3
<1>4. Splices(whole) = {}
  BY <1>2, <1>3 DEF Splices
<1>5. 1 \in 1 .. LineLength /\ LineLength \in 1 .. LineLength /\ whole # <<>>
  BY <1>1, <1>2, EmptySeq
<1>6. whole[1].part = 1 /\ whole[Len(whole)].part = LineLength
  BY <1>1, <1>5
<1>7. QED
  BY <1>1, <1>4, <1>5, <1>6 DEF EndsLine

(* A line goes in place behind whole lines, and lines are whole again.     *)
LEMMA LineBehindLines ==
  ASSUME NEW S, NEW line \in S, NEW s \in Seq([line : S, part : 1 .. LineLength]),
         Splices(s) = {}, EndsLine(s)
  PROVE  Splices(s \o Pieces(line)) = {} /\ EndsLine(s \o Pieces(line))
<1>1. PICK t \in Seq([line : S, part : 1 .. LineLength]) :
        t = Pieces(line) /\ Len(t) = LineLength
  BY PiecesTyped
<1>2. Splices(t) = {} /\ EndsLine(t) /\ t[1].part = 1
  BY <1>1, LineInPlace
<1> DEFINE whole == s \o t
<1>3. Splices(whole) \subseteq {Len(s) + 1}
  BY <1>2, SplicesOfJoined
<1>4. /\ whole \in Seq([line : S, part : 1 .. LineLength])
      /\ Len(whole) = Len(s) + LineLength
      /\ \A i \in 1 .. Len(s) + LineLength :
           whole[i] = IF i <= Len(s) THEN s[i] ELSE t[i - Len(s)]
  BY <1>1, ConcatProperties
<1>5. Len(s) \in Nat \ {0} /\ LineLength \in Nat \ {0}
  BY LineLengthAssumption, EmptySeq DEF EndsLine
<1> HIDE DEF whole
<1>6. whole[Len(s) + 1] = t[1] /\ whole[Len(s)] = s[Len(s)] /\ whole[Len(whole)] = t[Len(t)]
  <2>1. /\ Len(s) + 1 \in 1 .. Len(s) + LineLength /\ ~(Len(s) + 1 <= Len(s))
        /\ (Len(s) + 1) - Len(s) = 1
    BY <1>5
  <2>2. Len(s) \in 1 .. Len(s) + LineLength /\ Len(s) <= Len(s)
    BY <1>5
  <2>3. /\ Len(s) + LineLength \in 1 .. Len(s) + LineLength
        /\ ~(Len(s) + LineLength <= Len(s)) /\ (Len(s) + LineLength) - Len(s) = LineLength
    BY <1>5
  <2>4. QED
    BY <1>1, <1>4, <2>1, <2>2, <2>3
<1>7. InPlace(whole, Len(s) + 1)
  <2>1. (Len(s) + 1) - 1 = Len(s)
    BY <1>5
  <2>2. QED
    BY <1>2, <1>6, <2>1 DEF InPlace, EndsLine
<1>8. EndsLine(whole)
  <2>1. whole # <<>>
    BY <1>4, <1>5, EmptySeq
  <2>2. QED
    BY <1>2, <1>6, <2>1 DEF EndsLine
<1>9. Splices(whole) = {}
  BY <1>3, <1>7 DEF Splices
<1>10. QED
  BY <1>1, <1>8, <1>9 DEF whole

LEMMA CutOff ==
  ASSUME NEW S, NEW s \in Seq(S), NEW n \in 0 .. Len(s)
  PROVE  \E part \in Seq(S), rest \in Seq(S) : part = SubSeq(s, 1, n) /\ part \o rest = s
<1>1. /\ SubSeq(s, 1, n) \in Seq(S) /\ SubSeq(s, n + 1, Len(s)) \in Seq(S)
      /\ SubSeq(s, 1, n) \o SubSeq(s, n + 1, Len(s)) = s
  BY Parts
<1>2. QED
  BY <1>1, Zenon

(* What is handed over of whole lines is in place, and so is the part that *)
(* a failed write takes.                                                   *)
LEMMA TakenInPlace ==
  ASSUME NEW S, stdout \in Seq(S), NEW pieces \in Seq(S), Splices(stdout \o pieces) = {},
         stdout' = stdout \o pieces \/ TakePart(pieces)
  PROVE  Splices(stdout') = {}
<1>1. ASSUME TakePart(pieces)
      PROVE  Splices(stdout') = {}
  <2>1. PICK n \in 0 .. Len(pieces) - 1 : stdout' = stdout \o SubSeq(pieces, 1, n)
    BY <1>1 DEF TakePart
  <2>2. n \in 0 .. Len(pieces)
    BY LenProperties
  <2>3. PICK part \in Seq(S), rest \in Seq(S) :
          part = SubSeq(pieces, 1, n) /\ part \o rest = pieces
    BY <2>2, CutOff
  <2>4. stdout \o part \in Seq(S)
    BY ConcatProperties
  <2>5. (stdout \o part) \o rest = stdout \o pieces
    <3>1. (stdout \o part) \o rest = stdout \o (part \o rest)
      BY ConcatAssociative
    <3>2. QED
      BY <2>3, <3>1
  <2>6. Splices(stdout \o part) \subseteq Splices((stdout \o part) \o rest)
    BY <2>4, SplicesOfJoined
  <2>7. QED
    BY <2>1, <2>3, <2>5, <2>6
<1>2. QED
  BY <1>1

(* When the csv writer is dropped behind a failed write, it may splice the *)
(* torn line with the first of its buffer.                                 *)
LEMMA DropSplicesOnce ==
  ASSUME NEW S, stdout \in Seq(S), buffer \in Seq(S),
         Splices(stdout) = {}, Splices(buffer) \subseteq {1}, DropWriter
  PROVE  Splices(stdout') \subseteq {Len(stdout) + 1}
<1>1. CASE stdout' = stdout \o buffer
  BY <1>1, SplicesOfJoined
<1>2. CASE TakePart(buffer)
  <2>1. PICK n \in 0 .. Len(buffer) - 1 : stdout' = stdout \o SubSeq(buffer, 1, n)
    BY <1>2 DEF TakePart
  <2>2. n \in 0 .. Len(buffer)
    BY LenProperties
  <2>3. PICK part \in Seq(S), rest \in Seq(S) :
          part = SubSeq(buffer, 1, n) /\ part \o rest = buffer
    BY <2>2, CutOff
  <2>4. Splices(part) \subseteq Splices(part \o rest)
    BY SplicesOfJoined
  <2>5. Splices(stdout \o part) \subseteq {Len(stdout) + 1}
    BY <2>3, <2>4, SplicesOfJoined
  <2>6. QED
    BY <2>1, <2>3, <2>5
<1>3. QED
  BY <1>1, <1>2 DEF DropWriter

(* Up to the first failed write what is on stdout and what is in the       *)
(* buffer make whole lines; behind it, each of them still does.            *)
SplicedOnce ==
  /\ pc = "Accounts" => Splices(stdout \o buffer) = {} /\ EndsLine(stdout \o buffer)
  /\ pc = "Failed" => Splices(buffer) \subseteq {1}
  /\ pc \notin {"FAILURE", "Panicked"} => Splices(stdout) = {}
  /\ \E i : Splices(stdout) \subseteq {i}

LEMMA NothingSpliced == Splices(<<>>) = {}
BY DEF Splices

(* The buffer is handed over in the report, all of it and maybe a part of  *)
(* a line behind it.                                                       *)
LEMMA HandOverSplices ==
  ASSUME RunTypeOK, NEW full \in Seq(Piece), NEW rest \in Seq(Piece),
         Splices((stdout \o full) \o rest) = {}, EndsLine((stdout \o full) \o rest),
         NEW next \in {"Accounts", "OK"}, HandOver(full, rest, next)
  PROVE  SplicedOnce'
<1>1. stdout \in Seq(Piece) /\ stdout \o full \in Seq(Piece)
  BY ConcatProperties DEF RunTypeOK
<1>2. Splices(stdout \o full) = {}
  BY <1>1, SplicesOfJoined
<1>3. Splices(stdout') = {}
  BY <1>1, <1>2, TakenInPlace DEF HandOver
<1>4. Splices(full) \subseteq {1}
  BY <1>1, <1>2, SplicesOfJoined
<1>5. CASE stdout' = stdout \o full /\ buffer' = rest /\ pc' = next
  BY <1>3, <1>5 DEF SplicedOnce
<1>6. CASE TakePart(full) /\ buffer' = full /\ pc' = "Failed"
  BY <1>3, <1>4, <1>6 DEF SplicedOnce
<1>7. QED
  BY <1>5, <1>6 DEF HandOver

LEMMA StepSplicesOnce ==
  ASSUME RunTypeOK, SplicedOnce, [RunNext]_runVars
  PROVE  SplicedOnce'
<1>1. stdout \in Seq(Piece) /\ buffer \in Seq(Piece)
  BY DEF RunTypeOK
<1>2. CASE UNCHANGED runVars
  BY <1>2 DEF SplicedOnce, runVars, output
<1>3. ASSUME pc' \notin {"Accounts", "Failed"}, Splices(stdout') = {}
      PROVE  SplicedOnce'
  BY <1>3 DEF SplicedOnce
<1>4. CASE Usage \/ NoInput \/ Open \/ LogError
  <2>1. stdout' = <<>> /\ pc' \notin {"Accounts", "Failed"}
    BY <1>4 DEF Usage, NoInput, Open, LogError, Writeln, RunTypeOK, output
  <2>2. QED
    BY <1>3, <2>1, NothingSpliced
<1>5. ASSUME NEW row \in Rows, NEW blank \in 0 .. MaxBlank, ReadRow(row, blank)
      PROVE  SplicedOnce'
  <2>1. stdout' = <<>> /\ pc' \notin {"Accounts", "Failed"}
    BY <1>5 DEF ReadRow, Take, RunTypeOK, output
  <2>2. QED
    BY <1>3, <2>1, NothingSpliced
<1>6. CASE Help
  <2>1. PICK help \in Seq(Piece) : help = Pieces(HelpText)
    BY PiecesTyped DEF Line, Piece
  <2>2. Splices(help) = {}
    BY <2>1, LineInPlace
  <2>3. stdout = <<>> /\ stdout \o help = help
    BY <1>6, ConcatEmptySeq DEF Help, RunTypeOK
  <2>4. stdout' = stdout \o help \/ TakePart(help)
    BY <1>6, <2>1, <2>3 DEF Help
  <2>5. Splices(stdout') = {}
    BY <1>1, <2>2, <2>3, <2>4, TakenInPlace
  <2>6. QED
    BY <1>3, <1>6, <2>5 DEF Help
<1>7. CASE EndOfInput
  <2>1. PICK header \in Seq(Piece) : header = Pieces(Header)
    BY PiecesTyped DEF Line, Piece
  <2>2. stdout' = <<>> /\ buffer' = header /\ pc' = "Accounts"
    BY <1>7, <2>1 DEF EndOfInput, RunTypeOK
  <2>3. stdout' \o buffer' = header
    BY <2>2, ConcatEmptySeq
  <2>4. Splices(header) = {} /\ EndsLine(header)
    BY <2>1, LineInPlace
  <2>5. QED
    BY <2>2, <2>3, <2>4, NothingSpliced DEF SplicedOnce
<1>8. pending # <<>> => Head(pending) \in DOMAIN accounts
  BY HeadTailProperties DEF RunTypeOK
<1>9. CASE WriteAccount
  <2>1. AccountRecord(accounts[Head(pending)]) # {}
    BY <1>8, <1>9, AccountHasRecord DEF WriteAccount, RunTypeOK
  <2>2. PICK line \in AccountRecord(accounts[Head(pending)]) :
          buffer' = buffer \o Pieces(line)
    BY <1>9, <2>1 DEF WriteAccount
  <2>3. line \in Line
    BY <1>8, <1>9, <2>2, AccountRecordTyped DEF WriteAccount, RunTypeOK
  <2>4. PICK pieces \in Seq(Piece) : pieces = Pieces(line)
    BY <2>3, PiecesTyped DEF Piece
  <2>5. stdout \o buffer \in Seq(Piece) /\ stdout \o (buffer \o pieces) = (stdout \o buffer) \o pieces
    BY <1>1, ConcatProperties, ConcatAssociative
  <2>6. Splices(stdout \o buffer) = {} /\ EndsLine(stdout \o buffer)
    BY <1>9 DEF WriteAccount, SplicedOnce
  <2>7. /\ Splices((stdout \o buffer) \o Pieces(line)) = {}
        /\ EndsLine((stdout \o buffer) \o Pieces(line))
    BY <2>3, <2>5, <2>6, LineBehindLines DEF Piece
  <2>8. stdout' = stdout /\ pc = "Accounts" /\ pc' = "Accounts" /\ buffer' = buffer \o pieces
    BY <1>9, <2>1, <2>2, <2>4 DEF WriteAccount
  <2>9. stdout' \o buffer' = (stdout \o buffer) \o Pieces(line)
    BY <2>4, <2>5, <2>8
  <2>10. QED
    BY <2>7, <2>8, <2>9 DEF SplicedOnce
<1>10. CASE BufferFull
  <2>1. PICK line \in AccountRecord(accounts[Head(pending)]), n \in 0 .. LineLength - 1 :
          HandOver(buffer \o SubSeq(Pieces(line), 1, n),
                   SubSeq(Pieces(line), n + 1, LineLength), "Accounts")
    BY <1>10 DEF BufferFull
  <2>2. line \in Line
    BY <1>8, <1>10, <2>1, AccountRecordTyped DEF BufferFull, RunTypeOK
  <2>3. PICK part \in Seq(Piece), rest \in Seq(Piece) :
          /\ part = SubSeq(Pieces(line), 1, n) /\ rest = SubSeq(Pieces(line), n + 1, LineLength)
          /\ part \o rest = Pieces(line)
    BY <2>2, PiecesCut DEF Piece
  <2>4. stdout \o buffer \in Seq(Piece) /\ buffer \o part \in Seq(Piece)
    BY <1>1, ConcatProperties
  <2>5. (stdout \o (buffer \o part)) \o rest = (stdout \o buffer) \o (part \o rest)
    <3>1. stdout \o (buffer \o part) = (stdout \o buffer) \o part
      BY <1>1, ConcatAssociative
    <3>2. \A all \in Seq(Piece) : (all \o part) \o rest = all \o (part \o rest)
      BY ConcatAssociative
    <3>3. QED
      BY <2>4, <3>1, <3>2, Zenon
  <2>6. Splices(stdout \o buffer) = {} /\ EndsLine(stdout \o buffer)
    BY <1>10 DEF BufferFull, SplicedOnce
  <2>7. /\ Splices((stdout \o buffer) \o Pieces(line)) = {}
        /\ EndsLine((stdout \o buffer) \o Pieces(line))
    BY <2>2, <2>4, <2>6, LineBehindLines DEF Piece
  <2>8. /\ Splices((stdout \o (buffer \o part)) \o rest) = {}
        /\ EndsLine((stdout \o (buffer \o part)) \o rest)
    BY <2>3, <2>5, <2>7
  <2>9. HandOver(buffer \o part, rest, "Accounts")
    BY <2>1, <2>3
  <2>10. QED
    BY <2>4, <2>8, <2>9, HandOverSplices
<1>11. CASE Flush
  <2>1. Splices(stdout \o buffer) = {} /\ EndsLine(stdout \o buffer)
    BY <1>11 DEF Flush, SplicedOnce
  <2>2. CASE HandOver(buffer, <<>>, "OK")
    <3>1. <<>> \in Seq(Piece) /\ stdout \o buffer \in Seq(Piece)
      BY <1>1, EmptySeq, ConcatProperties
    <3>2. (stdout \o buffer) \o <<>> = stdout \o buffer
      BY <3>1, ConcatEmptySeq
    <3>3. QED
      BY <1>1, <2>1, <2>2, <3>1, <3>2, HandOverSplices
  <2>3. CASE stdout' = stdout \o buffer /\ buffer' = <<>> /\ pc' = "Failed"
    BY <2>1, <2>3, NothingSpliced DEF SplicedOnce
  <2>4. QED
    BY <1>11, <2>2, <2>3 DEF Flush
<1>12. CASE Fail
  <2>1. Splices(stdout) = {} /\ Splices(buffer) \subseteq {1} /\ DropWriter
    BY <1>12 DEF Fail, SplicedOnce
  <2>2. Splices(stdout') \subseteq {Len(stdout) + 1}
    BY <1>1, <2>1, DropSplicesOnce
  <2>3. pc' \in {"FAILURE", "Panicked"}
    BY <1>12 DEF Fail, Writeln
  <2>4. QED
    BY <2>2, <2>3 DEF SplicedOnce
<1>13. QED
  BY <1>2, <1>4, <1>5, <1>6, <1>7, <1>9, <1>10, <1>11, <1>12 DEF RunNext

LEMMA LinesAreLedger ==
  ASSUME RunTypeOK, BalanceIsLedger, LinesAreTrue, SplicedOnce
  PROVE  PrintedIsLedger
<1>1. Cardinality(Splices(stdout)) <= 1
  <2>1. PICK i : Splices(stdout) \subseteq {i}
    BY DEF SplicedOnce
  <2>2. Cardinality(Splices(stdout)) <= Cardinality({i}) /\ Cardinality({i}) = 1
    BY <2>1, FS_Singleton, FS_Subset
  <2>3. QED
    BY <2>2
<1>2. QED
  BY <1>1, TrueLinesAreSums DEF PrintedIsLedger, SplicedOnce

(* Whatever stdout has got of the report, at any time and wherever writes  *)
(* were split or failed, is made of lines that show for each client the    *)
(* sums over the transactions of the whole input.  None is spliced with    *)
(* another one, unless the program ends with an error, and then only two.  *)
THEOREM PrintedIsTrue == RunSpec => []PrintedIsLedger
<1>1. RunInit => LinesAreTrue /\ SplicedOnce
  BY EmptySeq, NothingSpliced DEF RunInit, LinesAreTrue, SplicedOnce
<1>2. RunTypeOK /\ LinesAreTrue /\ [RunNext]_runVars => LinesAreTrue'
  BY StepPrintsTruth
<1>3. RunTypeOK /\ SplicedOnce /\ [RunNext]_runVars => SplicedOnce'
  BY StepSplicesOnce
<1>4. RunTypeOK /\ BalanceIsLedger /\ LinesAreTrue /\ SplicedOnce => PrintedIsLedger
  BY LinesAreLedger
<1>5. RunSpec => []BalanceIsLedger
  BY ProgramIsClient, BalancesAreSums, PTL
<1>6. QED
  BY <1>1, <1>2, <1>3, <1>4, <1>5, ProgramTypeCorrect, PTL DEF RunSpec

-----------------------------------------------------------------------------
(* "OK" means that the report is complete. *)

(* The clients that the records are about. *)
ClientsOf(records) == [i \in DOMAIN records |-> records[i].client]

LEMMA ClientsOfSeq ==
  ASSUME NEW records \in Seq(AccountLine)
  PROVE  /\ ClientsOf(records) \in Seq(ClientId)
         /\ Len(ClientsOf(records)) = Len(records)
         /\ \A i \in 1 .. Len(records) : ClientsOf(records)[i] = records[i].client
<1>1. Len(records) \in Nat /\ DOMAIN records = 1 .. Len(records)
      /\ \A i \in 1 .. Len(records) : records[i] \in AccountLine
  BY LenProperties, ElementOfSeq
<1>2. ClientsOf(records) = [i \in 1 .. Len(records) |-> records[i].client]
  BY <1>1 DEF ClientsOf
<1>3. \A i \in 1 .. Len(records) : records[i].client \in ClientId
  BY <1>1 DEF AccountLine
<1>4. ClientsOf(records) \in [1 .. Len(records) -> ClientId]
  BY <1>2, <1>3
<1>5. ClientsOf(records) \in Seq(ClientId)
  BY <1>1, <1>4, SeqDef
<1>6. DOMAIN ClientsOf(records) = 1 .. Len(ClientsOf(records))
      /\ Len(ClientsOf(records)) \in Nat
  BY <1>5, LenProperties
<1>7. QED
  BY <1>1, <1>2, <1>5, <1>6

LEMMA ClientsOfAppend ==
  ASSUME NEW records \in Seq(AccountLine), NEW line \in AccountLine
  PROVE  ClientsOf(Append(records, line)) = Append(ClientsOf(records), line.client)
<1> DEFINE longer == Append(records, line)
           clients == ClientsOf(records)
           last == line.client
<1>1. longer \in Seq(AccountLine) /\ Len(longer) = Len(records) + 1
      /\ (\A i \in 1 .. Len(records) : longer[i] = records[i])
      /\ longer[Len(records) + 1] = line
  BY AppendProperties
<1>2. clients \in Seq(ClientId) /\ Len(clients) = Len(records)
      /\ \A i \in 1 .. Len(records) : clients[i] = records[i].client
  BY ClientsOfSeq
<1>3. last \in ClientId
  BY DEF AccountLine
<1>4. Append(clients, last) \in Seq(ClientId) /\ Len(Append(clients, last)) = Len(records) + 1
      /\ (\A i \in 1 .. Len(records) : Append(clients, last)[i] = clients[i])
      /\ Append(clients, last)[Len(records) + 1] = last
  <2> HIDE DEF clients, last
  <2>1. QED
    BY <1>2, <1>3, AppendProperties
<1>5. ClientsOf(longer) \in Seq(ClientId) /\ Len(ClientsOf(longer)) = Len(records) + 1
      /\ \A i \in 1 .. Len(records) + 1 : ClientsOf(longer)[i] = longer[i].client
  <2> HIDE DEF longer
  <2>1. QED
    BY <1>1, ClientsOfSeq
<1>6. Len(records) \in Nat
  BY LenProperties
<1>7. \A i \in 1 .. Len(records) + 1 : ClientsOf(longer)[i] = Append(clients, last)[i]
  <2> HIDE DEF clients, longer
  <2>1. \A i \in 1 .. Len(records) : ClientsOf(longer)[i] = Append(clients, last)[i]
    BY <1>1, <1>2, <1>4, <1>5, <1>6
  <2>2. ClientsOf(longer)[Len(records) + 1] = Append(clients, last)[Len(records) + 1]
    BY <1>1, <1>4, <1>5, <1>6
  <2>3. \A i \in 1 .. Len(records) + 1 : i \in 1 .. Len(records) \/ i = Len(records) + 1
    BY <1>6
  <2> HIDE DEF last
  <2>4. QED
    BY <2>1, <2>2, <2>3
<1> HIDE DEF longer, clients, last
<1>8. ClientsOf(longer) = Append(clients, last)
  BY <1>4, <1>5, <1>7, SeqEqual
<1>9. QED
  BY <1>8 DEF longer, clients, last

LEMMA HeadThenTail ==
  ASSUME NEW S, NEW s \in Seq(S), s # <<>>
  PROVE  /\ Head(s) \in S /\ Tail(s) \in Seq(S)
         /\ <<Head(s)>> \o Tail(s) = s
<1>1. Len(s) \in Nat \ {0} /\ Head(s) \in S /\ Tail(s) \in Seq(S) /\ Head(s) = s[1]
  BY EmptySeq, HeadTailProperties
<1>2. SubSeq(s, 1, Len(s)) = <<s[1]>> \o SubSeq(s, 2, Len(s))
  BY <1>1, SubSeqRecursiveFirst
<1>3. QED
  BY <1>1, <1>2, SubSeqFull, TailIsSubSeq

(* A piece of a line lies among the pieces of all the lines.               *)
LEMMA PieceAmongLines ==
  ASSUME NEW w \in Nat, NEW a \in Nat, NEW b \in Nat, a < b, NEW p \in 1 .. w
  PROVE  w * a \in Nat /\ w * b \in Nat /\ w * a + p \in 1 .. w * b
<1>1. PICK c \in Nat : b = (a + 1) + c
  <2>1. b - (a + 1) \in Nat /\ b = (a + 1) + (b - (a + 1))
    OBVIOUS
  <2>2. QED
    BY <2>1
<1>2. PICK wa \in Nat, wc \in Nat, wb \in Nat : wa = w * a /\ wc = w * c /\ wb = w * b
  OBVIOUS
<1>3. w * ((a + 1) + c) = (w * a + w) + w * c
  OBVIOUS
<1>4. wb = (wa + w) + wc
  BY <1>1, <1>2, <1>3
<1>5. wa + p \in 1 .. wb
  BY <1>4
<1>6. QED
  BY <1>2, <1>5

LEMMA OneLine ==
  ASSUME NEW S, NEW line \in S
  PROVE  AreLines(Pieces(line), <<line>>)
<1>1. /\ Len(Pieces(line)) = LineLength
      /\ \A i \in 1 .. LineLength : Pieces(line)[i] = [line |-> line, part |-> i]
  BY PiecesTyped
<1>2. LineLength \in Nat
  BY LineLengthAssumption
<1>3. DOMAIN <<line>> = {1} /\ <<line>>[1] = line /\ Len(<<line>>) = 1
  OBVIOUS
<1>4. LineLength * 1 = LineLength /\ \A part \in 1 .. LineLength : LineLength * (1 - 1) + part = part
  BY <1>2
<1>5. QED
  BY <1>1, <1>3, <1>4 DEF AreLines

(* Behind lines, the pieces of one more line make one more.                *)
LEMMA OneMoreLine ==
  ASSUME NEW S, NEW line \in S, NEW lines \in Seq(S),
         NEW pieces \in Seq([line : S, part : 1 .. LineLength]), AreLines(pieces, lines)
  PROVE  AreLines(pieces \o Pieces(line), Append(lines, line))
<1>1. PICK last \in Seq([line : S, part : 1 .. LineLength]) :
        /\ last = Pieces(line) /\ Len(last) = LineLength
        /\ \A i \in 1 .. LineLength : last[i] = [line |-> line, part |-> i]
  BY PiecesTyped
<1>2. PICK whole \in Seq([line : S, part : 1 .. LineLength]) :
        /\ whole = pieces \o last /\ Len(whole) = Len(pieces) + LineLength
        /\ \A i \in 1 .. Len(pieces) + LineLength :
             whole[i] = IF i <= Len(pieces) THEN pieces[i] ELSE last[i - Len(pieces)]
  <2> DEFINE joined == pieces \o last
  <2>1. /\ joined \in Seq([line : S, part : 1 .. LineLength])
        /\ Len(joined) = Len(pieces) + Len(last)
        /\ \A i \in 1 .. Len(pieces) + Len(last) :
             joined[i] = IF i <= Len(pieces) THEN pieces[i] ELSE last[i - Len(pieces)]
    BY ConcatProperties
  <2>2. QED
    BY <1>1, <2>1
<1>3. PICK longer \in Seq(S) :
        /\ longer = Append(lines, line) /\ Len(longer) = Len(lines) + 1
        /\ \A i \in 1 .. Len(lines) : longer[i] = lines[i]
        /\ longer[Len(lines) + 1] = line
  BY AppendProperties
<1>4. /\ Len(lines) \in Nat /\ LineLength \in Nat /\ Len(pieces) \in Nat
      /\ DOMAIN lines = 1 .. Len(lines) /\ DOMAIN longer = 1 .. Len(lines) + 1
  BY <1>3, LineLengthAssumption, LenProperties
<1>5. /\ Len(pieces) = LineLength * Len(lines)
      /\ \A n \in 1 .. Len(lines), part \in 1 .. LineLength :
           pieces[LineLength * (n - 1) + part] = [line |-> lines[n], part |-> part]
  BY <1>4 DEF AreLines
<1>6. Len(whole) = LineLength * Len(longer)
  <2>1. \A w, n \in Nat : w * (n + 1) = w * n + w
    OBVIOUS
  <2>2. QED
    BY <1>2, <1>3, <1>4, <1>5, <2>1
<1>7. ASSUME NEW n \in 1 .. Len(lines), NEW part \in 1 .. LineLength
      PROVE  whole[LineLength * (n - 1) + part] = [line |-> longer[n], part |-> part]
  <2>1. n - 1 \in Nat /\ n - 1 < Len(lines)
    BY <1>4
  <2>2. PICK i \in 1 .. Len(pieces) : i = LineLength * (n - 1) + part
    BY <1>4, <1>5, <2>1, PieceAmongLines
  <2>3. whole[i] = pieces[i]
    BY <1>2, <1>4
  <2>4. QED
    BY <1>3, <1>5, <2>2, <2>3
<1>8. ASSUME NEW n \in {Len(lines) + 1}, NEW part \in 1 .. LineLength
      PROVE  whole[LineLength * (n - 1) + part] = [line |-> longer[n], part |-> part]
  <2>1. n - 1 = Len(lines)
    BY <1>4
  <2>2. LineLength * (n - 1) + part = Len(pieces) + part
    BY <1>5, <2>1
  <2>3. /\ Len(pieces) + part \in 1 .. Len(pieces) + LineLength
        /\ ~(Len(pieces) + part <= Len(pieces)) /\ (Len(pieces) + part) - Len(pieces) = part
    BY <1>4
  <2>4. whole[Len(pieces) + part] = last[part]
    BY <1>2, <2>3
  <2>5. QED
    BY <1>1, <1>3, <2>2, <2>4
<1>9. \A n \in DOMAIN longer : n \in 1 .. Len(lines) \/ n \in {Len(lines) + 1}
  BY <1>4
<1>10. AreLines(whole, longer)
  BY <1>6, <1>7, <1>8, <1>9 DEF AreLines
<1>11. QED
  BY <1>1, <1>2, <1>3, <1>10

(* The header and the records so far, in the buffer or on stdout; with the *)
(* accounts still pending they are all accounts, in the order asked for.   *)
ReportSoFar ==
  \E records \in Seq(TrueRecord) :
    /\ AreLines(stdout \o buffer, <<Header>> \o records)
    /\ ClientsOf(records) \o pending \in GetAllAccounts
    /\ sort => Ascending(ClientsOf(records) \o pending)

(* The whole of it on stdout. *)
ReportWritten ==
  \E records \in Seq(TrueRecord) :
    /\ AreLines(stdout, <<Header>> \o records)
    /\ ClientsOf(records) \in GetAllAccounts
    /\ sort => Ascending(ClientsOf(records))

ReportIsWhole ==
  /\ pc = "Start" => input = <<>>
  /\ pc = "Accounts" => ReportSoFar
  /\ pc = "OK" => (input = <<>> /\ stdout = Pieces(HelpText)) \/ ReportWritten

(* One more record, one pending account less. *)
LEMMA OneMoreAccount ==
  ASSUME RunTypeOK, ReportSoFar, pending # <<>>,
         NEW line \in AccountRecord(accounts[Head(pending)]),
         stdout' \o buffer' = (stdout \o buffer) \o Pieces(line),
         pending' = Tail(pending), UNCHANGED <<accounts, sort>>
  PROVE  ReportSoFar'
<1>1. pending \in Seq(ClientId) /\ Head(pending) \in DOMAIN accounts
  <2>1. pending \in Seq(ClientId)
    BY SeqMonotonic DEF RunTypeOK, TypeOK, AreAccounts
  <2>2. QED
    BY <2>1, HeadTailProperties DEF RunTypeOK
<1>2. /\ line \in AccountLine /\ line \in Line /\ line \in TrueRecord
      /\ line.client = Head(pending)
  BY <1>1, AccountRecordTyped, RecordIsTrue DEF RunTypeOK
<1>3. PICK records \in Seq(TrueRecord) :
        /\ AreLines(stdout \o buffer, <<Header>> \o records)
        /\ ClientsOf(records) \o pending \in GetAllAccounts
        /\ sort => Ascending(ClientsOf(records) \o pending)
  BY DEF ReportSoFar
<1>4. records \in Seq(AccountLine) /\ records \in Seq(Line)
  BY SeqMonotonic DEF TrueRecord, Line
<1> DEFINE longer == Append(records, line)
<1>5. longer \in Seq(TrueRecord)
  BY <1>2, AppendProperties
<1>6. AreLines(stdout' \o buffer', <<Header>> \o longer)
  <2>1. /\ stdout \o buffer \in Seq([line : Line, part : 1 .. LineLength])
        /\ <<Header>> \in Seq(Line) /\ <<Header>> \o records \in Seq(Line)
    <3>1. stdout \o buffer \in Seq(Piece)
      BY ConcatProperties DEF RunTypeOK
    <3>2. <<Header>> \in Seq(Line)
      BY DEF Line
    <3>3. <<Header>> \o records \in Seq(Line)
      BY <1>4, <3>2, ConcatProperties
    <3>4. QED
      BY <3>1, <3>2, <3>3 DEF Piece
  <2>2. AreLines((stdout \o buffer) \o Pieces(line), Append(<<Header>> \o records, line))
    BY <1>2, <1>3, <2>1, OneMoreLine
  <2>3. Append(<<Header>> \o records, line) = <<Header>> \o Append(records, line)
    <3>1. Append(<<Header>> \o records, line) = (<<Header>> \o records) \o <<line>>
      BY <1>2, <2>1, AppendIsConcat
    <3>2. Append(records, line) = records \o <<line>>
      BY <1>2, <1>4, AppendIsConcat
    <3>3. <<line>> \in Seq(Line)
      BY <1>2
    <3>4. (<<Header>> \o records) \o <<line>> = <<Header>> \o (records \o <<line>>)
      BY <1>4, <2>1, <3>3, ConcatAssociative
    <3>5. QED
      BY <3>1, <3>2, <3>4
  <2>4. QED
    BY <2>2, <2>3
<1>7. ClientsOf(longer) \o pending' = ClientsOf(records) \o pending
  <2> DEFINE first == Head(pending)
             clients == ClientsOf(records)
  <2>1. clients \in Seq(ClientId)
    BY <1>4, ClientsOfSeq
  <2>2. first \in ClientId /\ Tail(pending) \in Seq(ClientId) /\ <<first>> \in Seq(ClientId)
        /\ <<first>> \o Tail(pending) = pending
    BY <1>1, HeadThenTail
  <2>3. ClientsOf(longer) = Append(clients, first)
    BY <1>2, <1>4, ClientsOfAppend
  <2> HIDE DEF first, clients, longer
  <2>4. Append(clients, first) = clients \o <<first>>
    BY <2>1, <2>2, AppendIsConcat
  <2>5. (clients \o <<first>>) \o Tail(pending) = clients \o (<<first>> \o Tail(pending))
    BY <2>1, <2>2, ConcatAssociative
  <2>6. ClientsOf(longer) \o pending' = clients \o pending
    BY <2>2, <2>3, <2>4, <2>5
  <2>7. QED
    BY <2>6 DEF clients
<1> HIDE DEF longer
<1>8. GetAllAccounts' = GetAllAccounts /\ TrueRecord' = TrueRecord
  BY DEF GetAllAccounts, TrueRecord
<1>9. QED
  BY <1>3, <1>5, <1>6, <1>7, <1>8 DEF ReportSoFar

LEMMA WriteAccountReports ==
  ASSUME RunTypeOK, ReportSoFar, WriteAccount, pc' = "Accounts"
  PROVE  ReportSoFar'
<1>1. /\ pending # <<>> /\ pending' = Tail(pending)
      /\ UNCHANGED <<accounts, sort, stdout>>
  BY DEF WriteAccount, service
<1>2. PICK line \in AccountRecord(accounts[Head(pending)]) : buffer' = buffer \o Pieces(line)
  BY DEF WriteAccount
<1>3. line \in Line
  BY <1>1, <1>2, HeadTailProperties, AccountRecordTyped DEF RunTypeOK
<1>4. stdout \in Seq(Piece) /\ buffer \in Seq(Piece) /\ Pieces(line) \in Seq(Piece)
  BY <1>3, PiecesTyped DEF RunTypeOK, Piece
<1>5. stdout \o (buffer \o Pieces(line)) = (stdout \o buffer) \o Pieces(line)
  BY <1>4, ConcatAssociative
<1>6. stdout' \o buffer' = (stdout \o buffer) \o Pieces(line)
  BY <1>1, <1>2, <1>5
<1>7. QED
  BY <1>1, <1>6, OneMoreAccount

LEMMA BufferFullReports ==
  ASSUME RunTypeOK, ReportSoFar, BufferFull, pc' = "Accounts"
  PROVE  ReportSoFar'
<1>1. /\ pending # <<>> /\ pending' = Tail(pending)
      /\ UNCHANGED <<accounts, sort>>
  BY DEF BufferFull, service
<1>2. PICK line \in AccountRecord(accounts[Head(pending)]), n \in 0 .. LineLength - 1 :
        /\ stdout' = stdout \o (buffer \o SubSeq(Pieces(line), 1, n))
        /\ buffer' = SubSeq(Pieces(line), n + 1, LineLength)
  BY DEF BufferFull, HandOver
<1>3. line \in Line
  BY <1>1, <1>2, HeadTailProperties, AccountRecordTyped DEF RunTypeOK
<1>4. PICK part \in Seq(Piece), rest \in Seq(Piece) :
        /\ part = SubSeq(Pieces(line), 1, n) /\ rest = SubSeq(Pieces(line), n + 1, LineLength)
        /\ part \o rest = Pieces(line)
  BY <1>3, PiecesCut DEF Piece
<1>5. stdout' \o buffer' = (stdout \o buffer) \o (part \o rest)
  <2>1. stdout \in Seq(Piece) /\ buffer \in Seq(Piece) /\ stdout \o buffer \in Seq(Piece)
    BY ConcatProperties DEF RunTypeOK
  <2>2. \A s, t \in Seq(Piece) : s \o (t \o part) = (s \o t) \o part
    BY ConcatAssociative
  <2>3. \A all \in Seq(Piece) : (all \o part) \o rest = all \o (part \o rest)
    BY ConcatAssociative
  <2>4. stdout' = stdout \o (buffer \o part) /\ buffer' = rest
    BY <1>2, <1>4
  <2>5. QED
    BY <2>1, <2>2, <2>3, <2>4, Zenon
<1>6. stdout' \o buffer' = (stdout \o buffer) \o Pieces(line)
  BY <1>4, <1>5
<1>7. QED
  BY <1>1, <1>6, OneMoreAccount

(* When nothing is pending and all of the buffer is out, the report is     *)
(* written.                                                                *)
LEMMA WholeReport ==
  ASSUME ReportSoFar, pending = <<>>,
         stdout' = stdout \o buffer, UNCHANGED <<accounts, sort>>
  PROVE  ReportWritten'
<1>1. PICK records \in Seq(TrueRecord) :
        /\ AreLines(stdout \o buffer, <<Header>> \o records)
        /\ ClientsOf(records) \o pending \in GetAllAccounts
        /\ sort => Ascending(ClientsOf(records) \o pending)
  BY DEF ReportSoFar
<1>2. ClientsOf(records) \o pending = ClientsOf(records)
  <2>1. records \in Seq(AccountLine)
    BY SeqMonotonic DEF TrueRecord
  <2>2. QED
    BY <2>1, ClientsOfSeq, ConcatEmptySeq
<1>3. /\ AreLines(stdout', <<Header>> \o records)
      /\ GetAllAccounts' = GetAllAccounts /\ TrueRecord' = TrueRecord
  BY <1>1 DEF GetAllAccounts, TrueRecord
<1>4. QED
  BY <1>1, <1>2, <1>3 DEF ReportWritten

(* A written report is complete. *)
LEMMA WrittenIsComplete ==
  ASSUME ReportIsWhole
  PROVE  CompleteWhenOk
<1>1. ASSUME ReportWritten
      PROVE  CompleteWhenOk
  <2>1. PICK records \in Seq(TrueRecord) :
          /\ AreLines(stdout, <<Header>> \o records)
          /\ ClientsOf(records) \in GetAllAccounts
          /\ sort => Ascending(ClientsOf(records))
    BY <1>1 DEF ReportWritten
  <2>2. RecordsOf(ClientsOf(records)) = records
    <3>1. /\ records \in [1 .. Len(records) -> TrueRecord] /\ Len(records) \in Nat
      BY LenProperties
    <3>2. /\ DOMAIN ClientsOf(records) = 1 .. Len(records)
          /\ \A n \in 1 .. Len(records) : ClientsOf(records)[n] = records[n].client
      BY <3>1 DEF ClientsOf
    <3>3. ASSUME NEW n \in 1 .. Len(records)
          PROVE  (CHOOSE line \in AccountRecord(accounts[ClientsOf(records)[n]]) : TRUE) = records[n]
      <4>1. records[n] \in AccountRecord(accounts[ClientsOf(records)[n]])
        BY <3>1, <3>2 DEF TrueRecord
      <4>2. \A a, b \in AccountRecord(accounts[ClientsOf(records)[n]]) : a = b
        BY DEF AccountRecord, CheckedAdd
      <4>3. QED
        BY <4>1, <4>2
    <3>4. RecordsOf(ClientsOf(records)) = [n \in 1 .. Len(records) |-> records[n]]
      BY <3>2, <3>3 DEF RecordsOf
    <3>5. QED
      BY <3>1, <3>4
  <2>3. QED
    BY <2>1, <2>2 DEF CompleteWhenOk
<1>2. ASSUME stdout = Pieces(HelpText)
      PROVE  AreLines(stdout, <<HelpText>>)
  BY <1>2, OneLine
<1>3. QED
  BY <1>1, <1>2 DEF ReportIsWhole, CompleteWhenOk

LEMMA EndOfInputReports ==
  ASSUME RunTypeOK, EndOfInput
  PROVE  ReportSoFar'
<1>1. /\ pending' \in GetAllAccounts /\ (sort => Ascending(pending'))
      /\ buffer' = Pieces(Header) /\ stdout' = <<>> /\ UNCHANGED <<accounts, sort>>
  BY DEF EndOfInput, RunTypeOK, service
<1>2. AreLines(stdout' \o buffer', <<Header>> \o <<>>)
  <2>1. <<Header>> \in Seq(Line) /\ Header \in Line
    BY DEF Line
  <2>2. <<Header>> \o <<>> = <<Header>>
    BY <2>1, ConcatEmptySeq
  <2>3. Pieces(Header) \in Seq(Piece)
    BY <2>1, PiecesTyped DEF Piece
  <2>4. <<>> \o Pieces(Header) = Pieces(Header)
    BY <2>3, ConcatEmptySeq
  <2>5. AreLines(Pieces(Header), <<Header>>)
    BY OneLine
  <2>6. QED
    BY <1>1, <2>2, <2>4, <2>5
<1>3. ClientsOf(<<>>) \o pending' = pending'
  <2>1. <<>> \in Seq(AccountLine)
    BY EmptySeq
  <2>2. ClientsOf(<<>>) \in Seq(ClientId) /\ Len(ClientsOf(<<>>)) = 0
    BY <2>1, ClientsOfSeq, EmptySeq
  <2>3. ClientsOf(<<>>) = <<>>
    BY <2>2, EmptySeq
  <2>4. pending' \in Seq(DOMAIN accounts')
    BY ReportTyped, RunNextTypes DEF RunNext, RunTypeOK
  <2>5. QED
    BY <2>3, <2>4, ConcatEmptySeq
<1>4. GetAllAccounts' = GetAllAccounts /\ TrueRecord' = TrueRecord
  BY <1>1 DEF GetAllAccounts, TrueRecord
<1>5. <<>> \in Seq(TrueRecord)
  BY EmptySeq
<1>6. QED
  BY <1>1, <1>2, <1>3, <1>4, <1>5 DEF ReportSoFar

LEMMA StepReports ==
  ASSUME RunTypeOK, ReportIsWhole, [RunNext]_runVars
  PROVE  ReportIsWhole'
<1>1. CASE UNCHANGED runVars
  <2>1. UNCHANGED <<pc, sort, input, accounts, pending, buffer, stdout>>
    BY <1>1 DEF runVars, service, output
  <2>2. QED
    BY <2>1 DEF ReportIsWhole, ReportSoFar, ReportWritten, GetAllAccounts, TrueRecord
<1>2. CASE Help
  <2>1. input' = <<>> /\ (pc' = "OK" => stdout' = Pieces(HelpText)) /\ pc' \in {"OK", "Panicked"}
    BY <1>2 DEF Help, ReportIsWhole
  <2>2. QED
    BY <2>1 DEF ReportIsWhole
<1>3. ASSUME pc' \notin {"Start", "Accounts", "OK"}
      PROVE  ReportIsWhole'
  BY <1>3 DEF ReportIsWhole
<1>4. CASE Usage \/ NoInput \/ Open \/ LogError \/ Fail
  BY <1>3, <1>4 DEF Usage, NoInput, Open, LogError, Fail, Writeln
<1>5. ASSUME NEW row \in Rows, NEW blank \in 0 .. MaxBlank, ReadRow(row, blank)
      PROVE  ReportIsWhole'
  BY <1>3, <1>5 DEF ReadRow, Take
<1>6. CASE EndOfInput
  BY <1>6, EndOfInputReports DEF EndOfInput, ReportIsWhole
<1>7. CASE WriteAccount
  <2>1. pc = "Accounts" /\ pc' \in {"Accounts", "Panicked"}
    BY <1>7 DEF WriteAccount
  <2>2. QED
    BY <1>3, <1>7, <2>1, WriteAccountReports DEF ReportIsWhole
<1>8. CASE BufferFull
  <2>1. pc = "Accounts" /\ pc' \in {"Accounts", "Failed"}
    BY <1>8 DEF BufferFull, HandOver
  <2>2. QED
    BY <1>3, <1>8, <2>1, BufferFullReports DEF ReportIsWhole
<1>9. CASE Flush
  <2>1. pc = "Accounts" /\ pending = <<>> /\ UNCHANGED <<accounts, sort>>
    BY <1>9 DEF Flush, service
  <2>2. pc' = "Failed" \/ (pc' = "OK" /\ stdout' = stdout \o buffer)
    BY <1>9 DEF Flush, HandOver
  <2>3. QED
    BY <1>3, <2>1, <2>2, WholeReport DEF ReportIsWhole
<1>10. QED
  BY <1>1, <1>2, <1>4, <1>5, <1>6, <1>7, <1>8, <1>9 DEF RunNext

(* Exit code 0 is never returned for a report that is cut off: then the    *)
(* header and the lines of all accounts are on stdout, whole, each once    *)
(* and sorted if asked to, however the writes were split and whichever of  *)
(* them failed.                                                            *)
THEOREM OkIsComplete == RunSpec => []CompleteWhenOk
<1>1. RunInit => ReportIsWhole
  BY DEF RunInit, ReportIsWhole
<1>2. RunTypeOK /\ ReportIsWhole /\ [RunNext]_runVars => ReportIsWhole'
  BY StepReports
<1>3. ReportIsWhole => CompleteWhenOk
  BY WrittenIsComplete
<1>4. QED
  BY <1>1, <1>2, <1>3, ProgramTypeCorrect, PTL DEF RunSpec
=============================================================================
