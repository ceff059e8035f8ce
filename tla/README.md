# TxDemo in TLA+

TxDemo is a transaction processing service behind a command line program: it
reads deposits, withdrawals, disputes, resolutions and chargebacks from a CSV
file, applies them to in-memory accounts and prints the accounts at the end.
This directory holds its TLA+ specification, the TLC configurations that check
it on small instances, and the proofs of what holds for all instances.

Source paths are relative to the root of the repository (`src/core.rs` is the
file of the crate).

## 1. The system

| Component | State | Operations | Talks to |
|---|---|---|---|
| Fixed-point decimals, `src/fixed_decimal.rs` | none: a number of fractions of an integer type | `checked_add`, `checked_sub`, parse, print | - |
| Account balance, `src/core.rs` | `available` and `held` assets | `inc_available`, `dec_available`, `move_available_to_held`, `move_held_to_available`, `update`, `total` | decimals |
| Account service, `src/account_service.rs` | `transactions`: every transaction ever received, with its state; `accounts`: every account, with its balance and lock; the dispute policy | `submit` of the five commands, `get_all_accounts` | balances |
| CSV, `src/csv.rs` | position in the input; the writer's buffer | `commands` (rows to commands), `write_headers`, `write_all`, `flush` | decimals, the `csv` crate |
| Command line program, `src/cli.rs` | none of its own: the reader, the service and the writer it owns | `run`: arguments, main loop, report, exit code | all of the above, a file or stdin, stdout, stderr |
| Generator, `txgenerator/` | the next transaction id; lists of what may be disputed and of open disputes | draws random commands (`CommandGenerator::next`), writes them to a file | - |

Everything runs in one thread; `submit` takes the service by `&mut self`. So the
hard part is not the interleaving of threads but the *order of commands*: many
clients write to one stream, commands come twice, late, or before the transaction
they are about, ids are reused, and claims name other clients' transactions. In the
program it is also the *failure of streams*: the input may end in an I/O error, output
is written line by line through a buffer that is full at any byte, and each write may
fail in the midst of a line, or panic.
What makes each part correct:

- *Balance*: no update overflows silently, none is half done, the total can be
  computed always (`total` panics otherwise).
- *Account service*: balances agree with the transactions at all times; a failed
  command changes nothing; a repeated one neither; clients are isolated; a lock is
  for ever, and comes with a chargeback and only with one; transactions follow
  their documented states.
- *Decimals*: parsing accepts exactly the decimals that fit, printing and parsing
  are inverse.
- *CSV and program*: a bad row is reported, under its number, and skipped; every good
  one reaches the service once and in order; the report shows the final accounts, all
  of them if the exit code is 0. If it is not, the report may be cut off, with lines twice
  and one line spliced with another where a write failed; the lines it is made of are true
  then too. The program ends.
- *Generator*: claims are drawn from what was generated, and what is written is what
  was drawn.

The hazards that follow, with their lines, are listed in `PROJECT.json`.

## 2. The modules

```
FixedDecimal ─┬─ MCFixedDecimal     (TLC)
              └─ FixedDecimalProofs (TLAPS, with SumTheorems)

AccountBalance ── Transactions ─┬─ Ledger ──────────────(INSTANCE)──┐
                                ├─ AccountService ──────────────────┘
                                │    ├─ MCAccountService      (TLC)
                                │    ├─ Cli (with Csv) ── MCCli (TLC)
                                │    └─ AccountServiceProofs  (TLAPS, with SumTheorems)
                                │         └─ AccountServiceBalances
                                │              ├─ AccountServiceLedger
                                │              └─ CliProofs (with Cli)
                                │                   └─ CliHistory
                                └─ Csv ── TxGenerator ── TxGeneratorProofs (TLAPS)
```

| Module | Models | State |
|---|---|---|
| `AccountBalance` | `UnsignedAssetCount`, `AccountBalance` (`core.rs`) | none: operators |
| `Transactions` | `Transaction` with the state the service keeps for it, and the sums over a table of transactions | none: operators |
| `AccountService` | `MemAccountService` (`account_service.rs`) | `transactions`, `accounts`, `reply` |
| `FixedDecimal` | `from_str`, `lex_digits` and `Display` of `FixedDecimal<T, PRECISION>` (`fixed_decimal.rs`) | the variables of `lex_digits`, `text` (the bytes consumed), `status` |
| `Ledger` | no code: what the service promises, over transactions alone | `txs`, `locked` |
| `Csv` | rows to commands with their errors, positions, accounts to records (`csv.rs`) | none: operators |
| `Cli` | `cli::run` (`cli.rs`): the program, composed of the reader, `AccountService` and the writer | those of the service; `pc`, `sort`, `input`, `position`, `stderr`, `pending`, `buffer`, `stdout` |
| `TxGenerator` | `CommandGenerator` and the rows that `main` writes (`txgenerator/src/main.rs`) | `next_tx`, `disputable_tx`, `open_disputes`, `generated`, `file` |
| `MCAccountService`, `MCFixedDecimal`, `MCCli` | the symmetry sets, the formats and the rows for TLC | |

How the model corresponds to the code:

- An asset count is its number of fractions, `0 .. MaxFractions`; `MaxFractions`
  is `u64::MAX` in the program. `CheckedAdd` and `CheckedSub` return a set, empty
  for `None`; a chain of `ok_or(..)?` is a `UNION` over such sets.
- A `HashMap` is a function on the set of its keys; `upsert_account` and
  `upsert_tx` are `UpsertAccount`, `Repeat`, `IsNew`, `Insert` and `Post`.
- One action per handler: `SubmitDeposit`, `SubmitWithdrawal`, `SubmitDispute`,
  `SubmitResolve`, `SubmitChargeback`. Each is a whole command, with the disjuncts
  in the order of the checks of the code, and always with an answer. The handlers
  of claims look their transaction up first, so `NotFound` touches no account.
- A deposit or withdrawal command carries exactly its transaction
  (`cmd::Deposit(TransactionMeta)`), so the record of the one is used for both.
- `reply` is the last command with what `submit` returned: what a caller sees. The
  errors are the variants of the five error enums; the data inside them (ids for
  the message) is left out.
- The dispute policy is the constant `WithdrawalDisputePolicy`; the program fixes
  it when it starts.
- `get_all_accounts` reads `accounts` and changes nothing; it is not an action of the
  service, but an operator of the program.

`Transactions` also defines what the code never computes: `OwnedAssets`, the
deposits less the withdrawals of a client that were not rejected, and
`HeldAssets`, the sum of its disputed transactions. The balances are compared with
these, and `Ledger` is written with them only: it has neither balances nor replies,
and says that a transaction is accepted exactly if its client stays solvent
(`held <= owned <= MaxFractions`), and that every change of state leaves it so.

`FixedDecimal` parses one text of one format (a range of `T` and a precision), a byte
per step and with the next byte unknown, as `lex_digits` does: `ReadMinus` is the sign
of `from_str`, `ReadDigit`, `ReadPoint` and `ReadOther` are the arms of its loop, `End`
and `Shift` what comes after. The position that `InvalidChar` carries is that of the
last byte of `text`. Printing is a function, `Fmt`, with both branches of `Display`: the
usual one, which divides by `fractions_per_unit`, and the one for a number without an
absolute value. `Scaled` and `IsDecimal` are the reference: what a text says by
positional notation, as a sum over its digits in unbounded integers, where each digit counts
by the number of digits behind it (`Magnitude`). The account service does not use this
module: it sees amounts only after parsing.

`Cli` is a process around the service. It EXTENDS `AccountService`, so that a row
which holds a command takes the service's own action (`Submit`), and its answer is the
result of the row.

- `pc` is the place in `run`: `Start` (arguments), `Loop` (before a row), `Log` (before
  `print_error`), `Accounts` (in `write_all` or `flush`), `Failed` (an error came out of
  `with_io`), an exit code, or `Panicked`. The argument `--sort` is the variable `sort`,
  chosen in the beginning; `--deny-withdrawal-dispute` is the policy constant.
- `input` is the history of the rows read, each with the line it is on, the position
  that the program took for it and its result. Rows are chosen when they are read: any
  of `Rows`, in any order. A row is a record (with or without an amount), `Malformed`
  (an error of deserialisation), or `Unreadable` (an I/O error). What comes after an
  I/O error is left open too: more rows or the end; this includes all that the csv
  crate does.
- `position` is what `reader().position()` returns: records read, the header included,
  and a line. An I/O error completes no record. Blank lines are skipped in the course of
  reading the row behind them.
- `stdout` and `buffer` are sequences of *pieces*: the bytes of a line are cut into
  `LineLength` pieces, each named by its line and its place in it (`Pieces`), so that a
  line may be torn. `stdout` has what the `Output` of `with_io` has accepted; what a
  `BufWriter` or the system does with it is beyond the program. The csv writer hands its
  buffer over when it is full (`HandOver`): in `BufferFull`, as the next account is written,
  behind any part of its line, the rest of which then begins the new buffer. When that
  fails, stdout has taken a part of the buffer that ends anywhere (`TakePart`), and the
  writer keeps all of it; as it is dropped, it writes its buffer once more from the first
  byte and ignores errors (`DropWriter`). So lines may appear twice, and the torn line runs
  into the first of the buffer: `1` and `2,3.0000,...` make a line about client 12. This
  comes before a failure only.
- `stderr` is a sequence of messages; a failure to write one is a panic at every place
  (`expect`), and one that is torn counts as not written. That of the help text on stdout is
  a panic too, behind any part of it. The panic of `AccountBalance::total` is in
  `WriteAccount`, where the record of an account is made.
- A failure to read the header line is not told from an empty input, and the error chain
  behind a message is one with it.

These properties of the csv crate are external: they are modelled from its use in
`csv.rs` and from what its interface says, and its definitions are marked so in
`PROJECT.json`.

`TxGenerator` has one action for each kind of command (`gen_tx`, `gen_dispute`,
`gen_resolve` or `gen_chargeback`), each with the row written for it, or without one if the
write fails, which is a panic (`unwrap`). Probabilities are
choices, and a `Vec` that elements are swapped out of is a bag. `generated` is the
history of the commands. (`main.rs:9` imports `txdemo::core::fixed_decimal`, which
`core.rs` does not export; the module models the generator as it is written.)

Definitions whose comment begins with `Fault` are not part of the model. Each is a
plausible mistake in the definition it stands before, for instance a chargeback
of a withdrawal that forgets the refund; put in its place it must make TLC report
the property it is paired with in `PROJECT.json` (`mutants`). They show that the
properties constrain the code, and are used by nothing else.

## 3. The runs

| Run | Instance | Question |
|---|---|---|
| `service` (`MCAccountService.cfg`) | 2 clients, 3 ids, amounts 1 and 2, counts up to 3, default policy | All properties of the service, below |
| `one_account` (`MCOneAccount.cfg`) | 1 client, 4 ids, amounts 0, 1 and 3, counts up to 4 | Longer histories of one account, up to an overflow in a refund with other disputes open: `BalanceIsLedger`, `OverflowOnlyWhenFull` |
| `deny_policy` (`MCDenyPolicy.cfg`) | as `service`, `--deny-withdrawal-dispute` | `OnlyDepositsPayIn` |
| `implements_ledger` (`MCImplementsLedger.cfg`) | as `service` | `ImplementsLedger`: the refinement |
| `decimals` (`MCFixedDecimal.cfg`) | every text of up to 6 bytes; `u8` and a signed type of 9 bits; precisions 0 to 3 | `AcceptsExactly`, `RefusesOnlyUnfit`, `PrintsExactly` |
| `cli_faults` (`MCCliFaults.cfg`) | inputs of up to 3 rows: deposits of 2 clients, with and without amount, disputes, malformed and unreadable rows; any write to stdout or stderr may fail; lines of 3 pieces | `CompleteWhenOk`, `PrintedIsLedger`, `EveryFailureIsReported`, `Termination` |
| `cli_history` (`MCCliHistory.cfg`) | inputs of up to 4 rows: deposits of 1 and 2, withdrawals, disputes, chargebacks, unreadable rows; output streams that work | `LinesAreClients`, `LockedHasHistory`, `TotalsArePaidIn`, `SilentRowsAreRecorded`, `OnlyStreamsFail` |
| `generator` (`MCTxGenerator.cfg`) | samples of 4 commands, 2 clients, ids below 2 drawn at random | `ListsFollowHistory` |
| `mentioned_clients`, `dispute_equality`, `message_lines`, `generated_rows` | as `service`, `service`, `cli_faults` with blank lines, `generator` | expected to fail, see section 5 |

What `service` shows:

- `TypeOK`: keys are ids, the total of every account can be computed, and the owner
  of every transaction has an account (so `upsert_account` never creates one in a
  claim).
- `BalanceIsLedger`: for each account, `held` is the sum of the open disputes and
  the total is deposits less withdrawals that were not rejected, whatever sequence
  of commands led there.
- `OverflowOnlyWhenFull`: a balance update fails only for a deposit, or the
  chargeback of a withdrawal, whose amount does not fit beside what the client
  owns; all other `BalanceUpdateError` paths are unreachable.
- `FailuresMoveNothing`, `OnlyOwnerMoves`, `LockedFrozen`, `TransactionLifecycle`,
  `ChargebackLocks`: what a step may never do, in the words of the code's comments
  and of the repository's README ("locked forever and any modification to its state
  is prevented").
- `RedeliveryIdempotent`: the same command twice in a row moves nothing the second
  time.
- `OkMeansRecorded`: Ok to a deposit or withdrawal means that this transaction, and
  no other under its id, is on record. It does not mean that it is valid: the retry
  of a rejected one is answered with Ok too (`account_service.rs:516`, on purpose). No
  property tells these from each other; the same is true of `SilentRowsAreRecorded` below.
- `DisputesCostNothing`: a dispute or resolution, however late or often it comes, changes
  no total and locks nothing. (A dispute that is delivered again after it was resolved
  does open the transaction anew, `account_service.rs:327`. That a chargeback which is late
  as well can then revert it is what the code does, and is not asserted to be wrong.)

What the runs of the program show:

- `CompleteWhenOk`: exit code 0 means a complete report: stdout has the pieces of the
  header and of the line of every account, all of them and in order, each account once,
  sorted if asked to, wherever the writes were split and whichever failed.
- `PrintedIsLedger`: every line of which stdout has a piece, at any time, also in a report
  that is cut off or written twice, shows the sums over the transactions of the whole input;
  and the pieces follow each other as they do in their lines. Only when the program ends with
  an error may there be one place where they do not: the splice behind a failed write. What
  a reader of the text sees there is one line made of parts of two, which may be false.
- `EveryFailureIsReported`: the messages on stderr are those of the rows that failed, in
  the reader or in the service, one for each, in order and under their numbers; only a
  panic cuts them short, then nothing is on stdout, and `FAILURE` comes with a message.
- `Termination`: the program ends, whatever an input that ends and the streams do.
- `LinesAreClients`: the report is about exactly the clients with a well-formed deposit
  or withdrawal, rejected ones included.
- `LockedHasHistory`: a locked account has, in this order, a transaction, its dispute and
  its chargeback in the input, all accepted and all by this client.
- `TotalsArePaidIn`: no account shows more than its client's deposits, each id counted
  once, whatever is repeated, disputed or refunded.
- `SilentRowsAreRecorded`: a deposit or withdrawal without a message is on record as its
  row has it.
- `OnlyStreamsFail`: with output streams that work, no input, also one that breaks off in an
  I/O error, makes the program panic or end with the exit code of a failure.

What `generator` shows: the lists from which claims are drawn never hold what was not
generated, nor more often than it was; only what was disputed can be open.

What `decimals` shows: a text is accepted only for its exact value
(`AcceptsExactly`), refused only if no text beginning with what was read can be accepted,
or for want of a digit (`RefusesOnlyUnfit`, which includes both ends of the type), and
what is printed reads back as the same number with the same decimals (`PrintsExactly`).
`MaxLength` is a true bound there. Six bytes hold a sign, a point and a digit more than
any number of these types has, or leading zeros instead, so that each limit is reached
from both sides and at every place of the point; one precision (3) makes a unit too
large for the type, which is the other case of `Display`. `T: From<u8>` excludes
narrower types: eight bits unsigned and nine signed are the smallest. The program's own
instance, `FixedDecimal<u64, 4>`, is one more choice of `T` and `PRECISION`, in which the
code is generic.
Parsing stops when the text is accepted or refused, so deadlock is not checked there.

*Bounds of the service.* Nothing is cut off by a guard: the state space is finite because ids are,
and TLC visits all of it, so histories are unbounded in length. Two clients are
needed for foreign claims and reused ids, and no handler touches more than the
claimant and one owner. Three ids give a deposit, a withdrawal and a third
transaction that fills the account between the dispute and its settlement, or that
stays disputed when the account is locked; `one_account` has a fourth. The counts
end just above one amount, so that every overflow check is met. Clients and ids are
only compared for equality: permuting them is sound, also for the step properties,
which mention no id by name. That the bounds hide nothing is shown by the proofs:
every property of the service is also a theorem.

*Bounds of the program.* `MaxRows` bounds the input and `MaxBlank` the blank lines before
a row; both are guards, in `ReadRow` and `RunNext`, and the environment may end the input
earlier. Three rows are enough for a failure of each kind between two good rows and for a
report of two accounts, whose header and lines are split over the buffer in every way and
fail at every place. `LineLength` is 3 there: a line can be handed over in its midst and be
torn once more in the rest, and its middle is neither its beginning nor its end; where
stdout does not fail two pieces do, and the properties look at whole lines. `LockedHasHistory` needs three rows of one client, and the fourth
lets the other client interfere or refunds or repeats come in between. Blank lines matter to
`MessageNamesLine` only, as the other properties do not mention lines. In the generator
`CMD_COUNT` is the program's constant; four commands hold a transaction, its dispute, its
settlement and a second dispute of what the settlement returned to the list. The proofs
cover the program for any bounds, where they exist.

*Fairness and liveness.* None is assumed and none is claimed of the service and of the
generator: they are passive objects which act when they are called. A deadlock of the
service would mean a command without an answer; TLC checks that there is none as long as
there are commands. The program is a process: `RunSpec` assumes `WF_runVars(RunNext)`, that
it is scheduled until it ends and that calls on streams return, with success or an error.
The input is finite (`MaxRows`); of an endless one nothing is claimed, and neither of a reader
that fails again at every read, which would be one. `BufferFull` and
`ReadRow` cannot go on for ever, as each uses something up: no fairness among the actions
is needed, and none is assumed. The program ends where no action is enabled, so
deadlock is not checked there: `Termination` says that it is at an exit code or a panic.

## 4. The proofs

TLAPS checks, for any set of clients, any finite set of ids, any amounts and any
`MaxFractions`, under both policies:

| Theorem | States |
|---|---|
| `TypeCorrect` (`AccountServiceProofs`) | `Spec => []TypeOK` |
| `FailuresAreHarmless`, `ClientsAreIsolated`, `LockIsForever`, `LifecycleIsFollowed`, `ChargebackAndLockAreOne` (`AccountServiceProofs`) | `Spec => FailuresMoveNothing`, `OnlyOwnerMoves`, `LockedFrozen`, `TransactionLifecycle`, `ChargebackLocks` |
| `OkIsTruthful` (`AccountServiceProofs`) | `Spec => []OkMeansRecorded` |
| `BalancesAreSums` (`AccountServiceBalances`) | `Spec => []BalanceIsLedger` |
| `OnlyFullAccountsOverflow` (`AccountServiceLedger`) | `Spec => OverflowOnlyWhenFull` |
| `DisputesAreFree`, `RetriesAreHarmless` (`AccountServiceLedger`) | `Spec => DisputesCostNothing`, `RedeliveryIdempotent` |
| `DenyingIsSafe` (`AccountServiceLedger`) | under the policy `Deny`, `Spec => []OnlyDepositsPayIn` |
| `ServiceImplementsLedger` (`AccountServiceLedger`) | `Spec => ImplementsLedger`: the refinement |
| `ProgramTypeCorrect` (`CliProofs`) | `RunSpec => []RunTypeOK` |
| `NoInputFails`, `FailuresAreReported` (`CliProofs`) | `RunSpec => []OnlyStreamsFail`, `[]EveryFailureIsReported` |
| `PrintedIsTrue`, `OkIsComplete` (`CliProofs`) | `RunSpec => []PrintedIsLedger`, `[]CompleteWhenOk` |
| `NoRowIsLost`, `LocksAreExplained` (`CliHistory`) | `RunSpec => []SilentRowsAreRecorded`, `[]LockedHasHistory` |
| `ReportIsOfClients`, `TotalsAreBroughtIn` (`CliHistory`) | `RunSpec => []LinesAreClients`, `[]TotalsArePaidIn` |
| `ParserTypeCorrect`, `AcceptedIsExact`, `RefusedIsUnfit` (`FixedDecimalProofs`) | `Spec => []TypeOK`, `[]AcceptsExactly`, `[]RefusesOnlyUnfit` (of `FixedDecimal`) |
| `PrintedIsExact` (`FixedDecimalProofs`) | `Spec => []PrintsExactly` (of `FixedDecimal`) |
| `ClaimsFollowHistory` (`TxGeneratorProofs`) | `Spec => []ListsFollowHistory` (of `TxGenerator`) |

*Assumptions.* The named ones of the modules: `MaxFractions` is a natural number,
ids are finitely many (a `u32` in the code), amounts are asset counts, the policy is
one of two. For the program also: clients are finitely many numbers (a `u16`), the bounds
are natural numbers, of any size, a line has any number of pieces, at least one, and any of
stdout and stderr may fail. For the decimals: a
type is a range of integers that holds 0 .. 255, since it converts from any `u8`, and
`OtherByte` is any set of bytes that mean nothing to the parser; texts have any length.

*Argument.* The five handlers have some thirty ways to end, but only four effects
(`AccountServiceProofs`): `Quiet` (nothing moves), `Refused` (a new transaction is
recorded as rejected), `Accepted` (one is recorded as valid and the balance changes
by its amount) and `Settled` (a claim changes a state and the balance). An effect
carries what is due of the client (`Due`), the balances it leads to (`NewBalances`) and,
if it is none, what was unfit (`Unfit`). One lemma per
action shows which of them it has (`DepositEffect` and so on, joined in `NextEffect`);
every theorem is then proved effect by effect. The lemmas about the balance operators
say what each returns when it returns something: the arithmetic it did, and that the
result is sound (its total fits). `TypeOK` is inductive with them.

`BalanceIsLedger` is inductive together with `TypeOK`. Its difficulty is the sums, a
fold over a set in the community modules: the induction theorems of the library take
an operator as a parameter and cannot be used with the provers installed, so
`SumTheorems` derives what is needed otherwise. It proves induction on the naturals
for a *set* of numbers, builds tables of the partial sums, and concludes that the sum
over no ids is 0, that removing one id subtracts its amount, and that the sum depends
on the amounts only. From these follow the change of `Deposited`, `Withdrawn` and
`HeldAssets` when a transaction is added or changes its state, and `NextBalances` puts
the changes of sums and balances side by side for each effect. That the chargeback of
a withdrawal gives back twice the amount (once released, once refunded) and still
agrees with the sums is the case `Revert` of that lemma.

What `AccountServiceLedger` proves needs both invariants, and more where a property
looks back:

- For `RedeliveryIdempotent` it is `LastIsSpent`: whatever the last command was, giving it
  again finds nothing to do. A transaction is on record and its client has an account; a
  claim is no longer due, or has no balance to lead to.
- For `OnlyDepositsPayIn`, `WithdrawalsStand`: under `Deny` no withdrawal is ever under
  dispute, so none is refunded, and the total never exceeds the deposits.
- For `OverflowOnlyWhenFull` the lemmas about the operators of balances say when they
  return *nothing*. Each check that can fail is met with the sums: what is held is a part
  of what is owned, so a release fits, and only an amount from outside can be too large.
- The refinement takes the mapping `txs <- transactions`, `locked <-` the locked clients.
  Each effect is an action of `Ledger` or a stutter. The difficulty is that `Ledger`
  accepts a transaction *exactly* if its client stays solvent by the sums, and the service
  if its updates of the two counts return something: `BalancesAreSums` turns the one into
  the other, in both directions.

The theorems of the program rest on those of the service. That a step of the program is one
of the service or leaves it alone (`StepOfService`, `ProgramIsClient`) is so by construction,
as `Cli` uses the actions of `AccountService`; it is stated to carry every invariant of the
service over to `RunSpec`.
`RunTypeOK` is inductive; it says that nothing is in the buffer or on stdout while rows are
read, and that the clients that are pending have accounts. `NoInputFails` follows, as
`TypeOK` has the total of every account fit. For `FailuresAreReported` the strengthening is
`MessagesAreFailures`: stderr has one message for each failure among the rows, but for the
one that is about to be printed. The property numbers the failures by their rank among
the rows, so that a row more adds a message at the end and changes none before it.

`CliHistory` relates the accounts to the rows that were read. `NoRowIsLost` needs that
what is on record stays there (`RecordsStay`, from the lifecycle of the transactions) and
what the answer Ok means (`OkMeansRecorded`). `RowsExplain` is the strengthening for
`LocksAreExplained`: for each transaction on record there is a row that brought it, for
each that was disputed a later one that disputed it, and for each lock a chargeback after
that, all accepted and of the same client. For `ReportIsOfClients` it is
`AccountsAreClients`: accounts are exactly those of the clients of well-formed deposits and
withdrawals. `TotalsAreBroughtIn` follows the sums: a total is at most the deposits on
record (`BalanceIsLedger` has it that, less the withdrawals), each of which is in
a row, and a refund gives back what was withdrawn; `SumMonotone` carries this from
the amount of each id to the sum over all of them.

For `PrintedIsTrue` there are two. `LinesAreTrue`: every piece in the buffer or on stdout is
of the header, the help text or the record of an account *as it is now*. It is inductive
because accounts change only in the main loop, when there are no lines; with
`BalanceIsLedger` the records are the sums. `SplicedOnce`: up to the first failed write,
stdout followed by the buffer makes whole lines, wherever it was handed over, as a line more
at its end is in place (`LineBehindLines`). So stdout alone, any part of the buffer that a
failed write takes, and the buffer but for its first piece are in place
(`SplicesOfJoined`), and the one joint that is left is where the dropped writer begins
(`DropSplicesOnce`).

For `OkIsComplete` it is `ReportIsWhole`: while accounts are written, stdout followed by the
buffer is all of the pieces (`AreLines`) of the header and some records, and the clients of
these followed by `pending` are all accounts in the order chosen (`ReportSoFar`). Writing an
account, into the buffer or past its limit, adds the pieces of one line (`OneMoreLine`) and
moves its client from `pending` to the records, and an error leaves `Accounts` for a place
from which OK is not reached; so when nothing is pending and all of the buffer was taken,
the records are the whole.

The lists of the generator are bags, since `Vec` elements are swapped out. `NextGenerates`
gives each step the command it adds; `CopiesFollow` says how the numbers of copies follow
one drawn, put back or moved to the other list, and `ClaimsFollowHistory` compares them
with the number of commands of the history which `AboutGrows` counts.

The decimals are proved with the invariant `ReadsText`: while the text is read, the variables
are what it says so far (`WhileReading`: `fractions` is its digits as one number with its sign,
`decimalDigits` the bytes behind its point), and afterwards the same, shifted by the places
added (`WhileShifting`). The induction over the text is that of the machine, which reads a
byte per step; so for each function of a text a lemma says what one byte more makes of it
(`DigitPlacesGrow`, `DecimalsGrow`, `BeginsGrows`). `MagnitudeGrows` is the main one: all
digits move up by one place, which multiplies each summand by ten (`SumTenfold`).
`PowersExist` shows that the recursive `PowerOfTen` is defined at all (a case of
`RecursionIsDefined`). `RefusesOnlyUnfit` is about the order of the checks: a number is refused when
a *part* of it overflows, its digits before the last, the signed digit or a shift.
`AppendDigitFacts` and `Outside` show that then the number itself lies outside of the type, at
both of its ends, as every part has its sign and is nearer to zero.

`PrintedIsExact` holds of every number of the type, by `TypeOK` alone. Printing is defined by
recursion over the number, so two things come first: that `FmtNat` and `NegativeDigits` are
functions with these equations (`RecursionIsDefined`, for any recursion to a value of lower
rank, from approximations up to each rank), and, by induction on a set of naturals, that
their texts say the number (`FmtNatFacts`, `NegativeDigitsFacts`): each appends one digit, so
`MagnitudeGrows` is what both rest on again. `SplitFacts` is the reason for the corrections
that the code makes to floored division. `MagnitudeOfDigits` takes a text apart at any place,
hence around the point. In `FmtAbsForm` a remainder has no more digits than the precision and
an absolute value is below a unit that does not fit. `FmtWithoutAbsForm` shows that the
padding puts exactly one zero in front of the point where the number has no unit.

*Only model-checked*: `Termination` (liveness is out of the prover's reach).

## 5. Where the documentation and the code differ

- `mentioned_clients`: the README of the repository says that clients are created
  "the first time they are mentioned" (`README.md:47`). A claim about an unknown
  transaction, or about another client's, creates no account for the client who
  submits it, and none is printed. In the counterexample a client's first command is a
  dispute that is answered with `NotFound`.
- `dispute_equality`: a comment says that the dispute of a withdrawal is allowed "only
  if the amount is less than the available assets" (`account_service.rs:10`). The code,
  like `README.md:155`, also allows it when both are equal.
- `message_lines`: "Command #{} (line {}) failed:" (`cli.rs:159`). The position is taken
  before the row is read (`csv.rs:173`), and the csv reader skips blank lines in the course
  of reading: behind blank lines the message names the first of them. The number of the
  command is right (`EveryFailureIsReported`), the line is not.
- `generated_rows`: the header that the generator writes is "type, client, tx, amount"
  (`main.rs:65`), but the rows of claims (`main.rs:78`, `82`, `86`) have the client in both
  columns: in the file a claim is about the transaction whose id is the client's number.

## 6. Not modelled, and the plan

- The benchmarks: they run the program on samples and keep no state.
- `main.rs` only passes the arguments and streams of the process to `cli::run`; `lib.rs`
  lists modules.
- The tokeniser of the csv crate, the texts of errors, and serde's derived code.
- In the generator: the distributions, directories and seeds of the samples, and the
  counters for its log.

Every safety property of the passing runs is proved; `Termination` stays with TLC.
