# Stratagema in TLA+

Stratagema (Go, one SQLite file) coordinates agents that share a machine: named
locks with optional leases, subscriptions to what happens to a lock, and a
durable log of longer pieces of work. There is no daemon that owns the state.
Every `stratagema ...` command is an operating-system process of its own that
opens the database, runs a few statements and ends; `stratagema serve` is a
long-lived reader. All concurrency is therefore between processes, at the
granularity of a single SQL statement, and this project models exactly that.

## 1. The system

| Part | Source | State | Operations |
|---|---|---|---|
| Locks | `lock.go` | `locks` (one row per held resource), `lock_events` (append-only) | acquire, renew, release |
| Interests and propagations | `interest.go` | `interests`, `propagations` | create, pause, resume; `matchAndPropagate` (called by lock commands); inbox, ack |
| HTTP server | `serve.go` | per connection: a cursor | SSE stream, `/locks`, `/health` |
| Strategies | `strategy.go` | `strategies`, `strategy_events` (append-only) | create, activate, observe, log, close, next, log-usage, usage |
| Identities | `identity.go` | `identities` | create, list, check of a token |
| Tactics | `tactic.go` | one markdown file each | create, list, show |
| Store | `store.go` | the connection | `exec` with retries, `migrate`, `addEvolvedColumns` |
| Ids, command line | `ids.go`, `main.go`, `cli.go` | none | |

How they interact:

* Lock commands call `recordLockEvent` after the row has been decided, and, for
  everything but an uncontested claim, `matchAndPropagate` after that. It reads
  `interests` and `lock_events` and appends to `propagations`.
* `propagations` is read by `inbox`, changed by `ack`, and polled by the SSE
  stream of `serve`.
* A lock may name a strategy; `AcquireLock` checks that it exists, and
  `strategy next` prints the locks linked to it. Strategies are never deleted,
  so the check cannot become stale.
* Every command opens the store, and so migrates it, before anything else; one
  that acts for an identity then checks its token. Commands of `tactic` touch no
  database, only files that any process or person may change.

What is hard. `Store.exec` and `QueryRow` run each statement outside any
transaction, so a command is a sequence of atomic steps:

* between two statements of one command any other process may act. What was read
  (the holder, the lease, the interests, the newest event, the length of a log)
  may be stale when it is used;
* a command may die between two statements, or give up when a statement keeps
  failing, and what it wrote so far stays;
* leases are judged by Go on a row read earlier and by SQL on the current row,
  with one time stamp taken before both;
* notices are delivered by whichever process happens to log an event, and a
  reader polls them in batches with a cursor;
* the schema itself is created and extended statement by statement, by whoever
  comes, on files in any state that an older or interrupted program left;
* a tactic file is created empty and written afterwards, with no rename.

What makes each part correct:

* locks: one holder per resource; a holder loses its resource only to its own or
  a forced release or to a takeover after its lease really ran out; the audit
  trail accounts for the table; an acquire gives up only under real contention;
* interests: who was listening when something happened hears of it or of
  something newer; nobody hears more often than there was news;
* stream: every row once, in order, all of them in the end;
* strategies: every close leaves a trace; a recap is right for some moment of
  the log; usage totals are the sum of what was recorded;
* store: whoever is let in sees the whole schema, and somebody is let in;
* identities: nobody acts for a protected identity without its token, and every
  token that is needed was shown once, unless its process died;
* tactics: one creator per file, nothing overwritten, nothing read as a tactic
  that nobody asked for, no bad file hiding a good one.

## 2. The modules

| Module | What it is |
|---|---|
| `GoInt` | int64, as wide as the constant `IntHalf` says |
| `LockTable` | rows of `locks`, `leaseColumns`, and the places that judge a lease: `Lock.Expired` in Go, whose product wraps, and the `WHERE` clauses of reclaim and renew |
| `LockService` | the abstract lock: owners and deadlines, no statements, no log |
| `LockProtocol` | `lock acquire`, `renew`, `release`, one action per statement; extends `LockTable`; refinement mapping to `LockService` |
| `Coordination` | extends `LockProtocol` with `interest.go`: composes lock commands, `matchAndPropagate` and subscriptions |
| `PropagationStream` | reading and acknowledging `propagations`, and the SSE stream |
| `UsageNotes` | the notes of resource usage, written by `log-usage` or by hand, their parser, one event's part in a total |
| `StrategyLedger` | `strategies` and `strategy_events`, recaps and usage totals |
| `Migration` | `openStore`: `migrate`, `addEvolvedColumns`, `addColumnIfMissing` |
| `Admission` | extends `Migration` with `identity.go`: commands that have the store open create identities or pass the token check |
| `TacticFormat` | `render` and `ParseTactic` over lines, as operators |
| `TacticFiles` | `tactic create` and `list` on a directory |
| `*MC` | symmetry sets and constant values for TLC that a cfg cannot express |
| `Counting` | lemmas on cardinalities that change by one, on least and greatest numbers, on counting up and on loops |
| `LockProtocolProofs`, `LockAuditProofs` | theorems about `LockProtocol` |
| `CoordinationProofs` | theorems about `Coordination` |
| `StreamProofs` | theorems about `PropagationStream` |
| `StrategyLedgerProofs`, `AdmissionProofs`, `TacticFilesProofs` | theorems about those modules |

### How state and actions correspond to the code

**A process** is a slot in which commands run one after the other. `pc[p]` names
the command's next statement, `cmd[p]` holds its Go locals: the arguments,
`now` (`at`), the loop counter (`attempt`), the row read (`seen` for
`existing`), and, once the command has settled, the `kind` it will log
(`event`). Locals that a later statement does not read are not kept.

**Tables.** `locks` maps a resource to its row or `NoRow`. A row keeps what
later statements branch on; `note` and `acquired_at` are written but never
decide anything. `lockEvents`, `interests`, `propagations`, `strategies` and
`strategyEvents` are sequences: rows are never deleted, so an index is a rowid,
and `ORDER BY rowid` is the order of the sequence.

**AcquireLock** is `StartAcquire` (validation and the time stamp), `Insert`
(`INSERT ... ON CONFLICT DO NOTHING`), `ReadHolder` (`GetLock` and the branch
after it), `Reacquire`, `Reclaim`, then `RecordEvent`, and `Propagate`.
`RejectAcquire` is the refusal of a negative lease or an unknown strategy.
`Retry` is the loop's `continue`: it goes back to `Insert` with the same time
stamp or ends in "too much contention". `MaxAttempts` is 3 in the source.

**RenewLock** is `RenewRead`, `RenewCheck` (a step of its own, because `now` is
taken after the read) and `RenewWrite`. **ReleaseLock** is `ReleaseRead`,
`Delete`, then event and propagation. The `GetLock` that only words the error of
a lost `DELETE` decides nothing and is part of `Delete`.

**matchAndPropagate** is `SelectInterests`, `SelectLatestEvent` and one
`InsertPropagation` per selected interest, in any order, since the query gives
none.

**Death.** `Abort` ends a command at any statement: a kill, or an error that
outlives `exec`'s fifty tries. The slot can then start another command, the
tables keep what was written.

**The clock** is one integer that never goes back, in milliseconds or any coarser
unit; both sides of the code use `UnixMilli`. A wall clock set back is not
modelled.

**openStore** is `OpenStore`, one `CreateTable` per `CREATE TABLE IF NOT EXISTS`
of the block (SQLite runs the block statement by statement, each in its own
transaction; `RetryBlock` is `exec` beginning it again), and for each entry of
the list `CheckColumn` and, if the column was missing, `AddColumn`, which fails
when another process was faster. `MigrationInit` is any file that is new, old or
half migrated. `NextColumn` after the last entry is `migrate` returning nil.

**Identities.** `Admission` continues from there: `CreateIdentity`,
`CreateProtectedIdentity` and `PrintToken` are `identity create`;
`VerifyIdentityToken` with `ResolveToken` is the gate of every other command that
acts for an identity, and `Act` stands for that command's own statements, which
the other modules model (there are eight such commands, in `lock.go`,
`interest.go` and `strategy.go`; `strategy log` is the one given as its source). A token is represented by the identity it was made for,
and hashing by that being all one can compare.

**Tactic files.** A file is its lines; `StartCreate` is the checks of the flags,
then `Stat`, `Open` (`O_EXCL`) and `WriteString`. `Stop` cuts a write after any
number of lines. `StartList` is `ReadDir`, then one `ParseTacticFile` per name.
`Remove` is a person's `rm`: the error message "refusing to overwrite" leaves no
other way. Deleting a file that is open for writing leaves the writer with a
file of no name (`StillThere`), as on any Unix. A flag's value is its first
line, whether there are blanks around it, and the lines that follow a line break
in it. A tool list that goes on after a line break is still read as a list when
its first line happens to end in a bracket (`closed`).

**Usage.** A note is the sequence of its blank-separated fields: a harness, an
amount, a cost that can be read or not, a word without `=`, an unknown key.
`StartLogUsage` writes `ResourceUsageNote` of its flags, whose harness may be any
text but the empty one: it may begin with a blank, and go on after one with
fields of any kind. `StartLog` writes any note under any kind, one in
log-usage's format under `resource_usage` included. `ParseResourceUsageNote` is
the parser's loop with its refusals, of an empty harness among others, and
`TotalIn` the loop of `usage`, adding up in `GoInt`'s width. An event also keeps
the flags of the `log-usage` that wrote it (`usage`, a history field no action
reads), so that properties can speak of the writer.
The passes over a log or a note (`EventsIn`, `TotalIn`, `ParseResourceUsageNote`)
are written as loops: a function from the number of rounds to the variable's
value.

**History variables.** `overtaken`, `unlogged`, `own`, `since`, `lost`, `closes`,
`lostCloses`, `sent`, `altered`, `admitted`, `refused`, `stopped`, `printed`,
`lostTokens`, `torn`, `wins`, `removals`, an event's `outcome` and `usage`, a
file's `maker` and `flags` and a listing's `steady` exist to state properties; no
action of the code reads them (`maker` also tells an open file from a later one of
the same name).

**Deaths are counted, not forbidden.** Nothing in the code completes what a
command that died left half done: an event, a notice, a close's outcome or a
token. `unlogged`, `lost`, `lostCloses` and `lostTokens` record such losses where
they happen, and the properties say that nothing is lost in any other way. They
do not say that nothing is lost.

In `PropagationStream` a connection's batch is the set of rowids that one read
returned; `Send` takes the oldest of them, and the cursor moves with the last
one, as in the handler. A disconnect may come at any point.

## 3. The runs

All runs of `pass` finish with the complete state space of their instance.
Deadlock checking is off where commands, clock or events are bounded: such a run
really ends when the bound is used up. The stream run has no such end, and it is
on.

| Run | Instance | Question |
|---|---|---|
| `lock_protocol` | 2 processes, 2 identities, 1 resource, leases -1, 0, 2 and 5 where an int64 ends at 4, clock to 2, 4 commands, 2 attempts, a known and an unknown strategy | `TypeOK`, `AuditBalance`, `NoSilentEviction`, `RetryOnlyWhenOvertaken`, `RenewalsAreOwn`, `ImplementsLockService` |
| `coordination` | 2 lock processes, 1 subscriber, 2 interests, 3 commands | `CoordTypeOK`, `NoNewsMissed`, `NoSpuriousNotice` |
| `news_arrives` | 2 commands, leases 0 and 1, clock to 1, 1 interest, fairness | `NewsArrives` |
| `strategy_ledger` | 2 processes, 1 strategy and an unknown id, 3 events, 2 closes, recaps of 2; `log-usage` with ` harness=codex` (beginning with a blank) and a cost, with `claude cost=?` and with -1 tokens; notes typed as `tokens=2 harness=codex` and `harness= tokens=2`; 3 tokens where an int64 ends at 4 | `LedgerTypeOK`, `EveryCloseIsTraced`, `RecapIsRecent`, `UsageAddsUp` |
| `propagation_stream` | 1 connection, 2 identities, 5 rows, batches of 2, fairness | `StreamTypeOK`, `InOrderWithoutGaps`, `EveryRowIsPushed` |
| `admission` | 3 processes, 3 tables, 3 evolved columns of two of them, every initial schema, 1 identity and 1 plain label, every token by flag and by environment | `AdmissionTypeOK`, `AdmittedSeesSchema`, `SomebodyGetsIn`, `ActsAreAuthorised`, `TokensAreKnown` |
| `tactic_files` | 2 processes, 2 names, 7 sets of flags, a write cut at any line, 1 deletion | `TacticTypeOK`, `OneCreator`, `ReadBack`, `NothingFineIsHidden`, `NothingIsOverwritten` |
| `reacquire_race` | 3 processes, 3 commands and attempts, leases -1..2 | violated: `ReacquireTouchesOwnHold` |
| `forced_release_log` | as `reacquire_race` | violated: `ForcedReleaseIsLogged` |
| `claims_are_quiet` | as `coordination`, 1 interest | violated: `ClaimsAreQuiet` |
| `one_active_interest` | as `coordination` | violated: `OneActiveInterest` |
| `recap_heading` | as `strategy_ledger` | violated: `HeadingIsTrue` |

### What the properties say

* **AuditBalance**: for every resource, claims less frees in `lock_events`, with
  those still to be written by a live command and those lost with a dead one,
  are 1 if it is held and 0 if it is free. Two winners of one claim, or two
  releases of one row that both report success, break it.
* **NoSilentEviction**: a row changes holder only when its lease, as it stands at
  that moment, has run out on the clock, and disappears only through its
  holder's release or a forced one.
* **RetryOnlyWhenOvertaken**: an acquire goes round its loop, or gives up, only
  after another process wrote the row since its `INSERT`, or on a row whose
  lease does not fit Go's integers.
* **RenewalsAreOwn**: a renewal that reports success wrote a row that was, at that
  moment, the caller's own and under a lease that had not run out at the time
  stamp the command took, whoever took over, claimed or released the resource
  since the row was read. The stamp may be old by then; the code allows that.
* **ImplementsLockService**: the table, seen as owners and deadlines, behaves like
  the abstract lock.
* **NoNewsMissed**: if an interest was active when a denial, a release or a
  takeover was logged, it has a propagation of that event or a newer one on the
  resource, or the process that logged it is still on its way, or it died.
* **NoSpuriousNotice**: an interest has no more propagations than its resource had
  newsworthy events.
* **NewsArrives**: the liveness form of `NoNewsMissed`.
* **EveryCloseIsTraced**: status writes of `CloseStrategy` equal its outcome
  events plus those under way plus those lost to a death.
* **RecapIsRecent**: what `strategy next` prints is what the log called recent at
  one moment.
* **UsageAddsUp**: `usage` prints, for each harness, the sum of what was recorded
  for it, as an int64 holds it. What `log-usage` recorded is told from the
  writer's side, without the parser: `Booked` says which name an amount counts
  for, namely the text of `-harness` up to a blank or, if words after it name a
  harness, the last of them, and none if one of those words cannot be read or
  the name is empty. A note typed into `strategy log` is looked at as a whole:
  it counts, with its last amount and under its last name, exactly if it is in
  log-usage's format (`SpeaksOf`), because the program cannot tell it from one
  of `log-usage`. Prose, unknown fields, refused amounts and costs and an empty
  harness keep a note out.
* **AdmittedSeesSchema**: a command whose `openStore` succeeded finds every table
  and column, now and later.
* **SomebodyGetsIn**: if an open failed because another process had just added
  the column, and nobody was killed, then somebody was let in or is still
  opening. A loser may simply be run again.
* **ActsAreAuthorised**: whoever acts for a protected identity gave its token, by
  flag or, without a flag, by environment. The check is an earlier statement
  than the act; that it cannot become stale rests on ids being generated, so
  that nobody uses one before its row exists, and on nothing ever changing
  `token_hash`.
* **TokensAreKnown**: the protected identities are those whose token has been
  printed, is about to be, or went down with its process.
* **OneCreator**, **NothingIsOverwritten**: of racing creators one says "created";
  content changes only by deletion and an empty file is filled only by its own
  creator, although `Stat`, `O_EXCL` and the write are three calls.
* **ReadBack**: a file made from values of one line without blanks around them is
  read as those values, or not at all while its creator is at work or when it
  was stopped.
* **NothingFineIsHidden**: a listing shows every file that was readable all the
  time it ran.
* **InOrderWithoutGaps**, **EveryRowIsPushed**: a stream sends each of its
  identity's rows once and in order, and all of them unless the client leaves.

### Bounds, and why they are enough

A resource's row is touched by no other resource's commands, so one resource
carries every race. Two identities give owner and rival. In `lock_protocol` two
slots run four commands one after another, dead ones included, so that a command
meets the leavings of several others, and two attempts (three in the source) are
used up both by being overtaken and by a wrapped lease; the two runs that end in
a counterexample use three slots and three attempts. What two slots cannot show,
three commands in the middle at once, is covered by the proofs, which hold for
any number. Leases of 0 and 2 over a clock that reaches 2 contain no lease, one
that runs out exactly at the read and one that runs out between read and write;
-1 is what validation must refuse, and 5 is beyond `IntHalf` = 4. Process and
identity are symmetric in the safety runs.

Three lock commands and two interests let two passes overlap with a third event
in between. Five rows in batches of two make three batches. A recap of two
events over a log of three has the last completed step inside, at the edge of
and outside the cap. Two notes of 3 tokens exceed an int64 that ends at 4; of the
three harness texts one is booked under a name in its rest, one under none, one
is refused with its amount, and of the two typed notes one counts and one is
refused for its empty harness, so that sums mix both writers.

Three processes on a schema of three tables let one be refused by a second while
the third is still at an earlier column; two columns of one table and one of
another are every shape of the list, and all subsets of them are initial. One
generated id is enough, since a row is touched by commands on that id only.

Two processes and one deletion let a file be created, torn, deleted and created
again while a writer still holds the first one and a listing is under way. The
seven sets of flags are two that can be stored, of different names, a blank value,
a value whose second line closes the header, one whose second line repeats a key,
a tool list with an empty entry, and one that goes on after a bracket of its own.

### Fairness

`FairCoordSpec` assumes weak fairness of every step of a running lock command:
the operating system keeps running a started process, and none of its
statements waits for another process longer than SQLite's writer lock. Nothing
is assumed of starting commands, of the clock, of subscribers, or of dying.
`FairStreamSpec` assumes that a connection's ticker keeps firing and its sends
are carried out while it is open (`serve.go` 56-84), and nothing of clients or
writers.

## 4. What is proved

The theorems hold for any sets of processes, resources, identities, strategies,
tables, columns, names and texts, any leases, attempts and bounds. They rest on
the named assumptions of the modules: processes are finitely many, bounds are
natural numbers, no lease argument exceeds `MaxLease`, lists of tables and
columns are not empty, and the values that stand for "nothing" are not values of
the other kind.

| Theorem | Says | In |
|---|---|---|
| `TypeCorrect` | `TypeOK`, and that a command which acts on a row it read has read one | `LockProtocolProofs` |
| `NobodyIsEvictedSilently` | `Spec => NoSilentEviction` | |
| `IInvAlways` | the inductive invariant `IInv` | |
| `RetriesAreJustified` | `Spec => RetryOnlyWhenOvertaken` | |
| `RenewalsTouchOwnHold` | `Spec => RenewalsAreOwn` | |
| `ProtocolImplementsService` | `Spec => ImplementsLockService` | |
| `TheAuditTrailBalances` | `AuditBalance` | `LockAuditProofs` |
| `CompositionIsTheProtocol` | `CoordSpec => Spec` | `CoordinationProofs` |
| `NoNewsIsMissed`, `CoordTypeCorrect` | `NoNewsMissed`, `CoordTypeOK` | |
| `NobodyIsToldTooOften` | `NoSpuriousNotice` | |
| `NoGapInAStream`, `StreamTypeCorrect` | `InOrderWithoutGaps`, `StreamTypeOK`, from the invariant of `StreamInvAlways` | `StreamProofs` |
| `EveryCloseIsAccountedFor` | `EveryCloseIsTraced`, from the invariant of `LedgerInvAlways` | `StrategyLedgerProofs` |
| `RecapsAreRecent`, `UsageIsAddedUp`, `LedgerTypeCorrect` | `RecapIsRecent`, `UsageAddsUp`, `LedgerTypeOK`, from the invariant of `LogInvAlways` | |
| `AdmittedWorkOnWholeSchema`, `RacingOpensHaveAWinner` | `AdmittedSeesSchema`, `SomebodyGetsIn` | `AdmissionProofs` |
| `ProtectionHolds`, `NoTokenIsUnaccountedFor`, `AdmissionTypeCorrect` | `ActsAreAuthorised`, `TokensAreKnown`, `AdmissionTypeOK` | |
| `OneCreatorWins`, `FilesAreKept` | `OneCreator`, `NothingIsOverwritten` | `TacticFilesProofs` |
| `ListingsAreComplete`, `NoOtherTacticIsRead`, `TacticTypeCorrect` | `NothingFineIsHidden`, `ReadBack`, `TacticTypeOK` | |

**Locks.** `TypeOK` is not inductive: `EventOf` uses the holder of the row a
command read, so `LocalsInv` adds that at those labels `seen` is a row. With
them each action has its lemma, and `NextInv` gives `TypeCorrect`.

For the action properties one needs to know about time: `ClockInv` says that no
row and no command carries a time stamp ahead of the clock. `RowSteps` then sums
up all of `Next` for the table: a step leaves it alone, or writes one row that
is no newer than the clock, into a free place, a lapsed one, or under the same
holder, or deletes one on behalf of its holder or by force. Reclaiming is the
interesting case: the SQL condition holds for the command's old time stamp, and
because that is not ahead of the clock, it holds for the clock too.
`NobodyIsEvictedSilently` and `ProtocolImplementsService` both follow from
`RowSteps`; the refinement maps a new row to `Claim`, `TakeOver` or `Restate`, a
deleted one to `Free`, and everything else to `Tick` or a stutter.

For retries `FreshInv` says what an acquire knows unless it was overtaken: after
a failed `INSERT` that the row is there, before a reclaim that the row is still
the one it read and that Go found it run out at its time stamp, which implies the
SQL condition exactly when the lease fits Go's integers. `OtherSlots` shows
that another slot's step either leaves this knowledge alone or marks the command
as overtaken, `OwnSlot` that a command's own step establishes it. `BusyInv` (a
running command has reported nothing) excludes an old "contention" being taken
for a new one, and in `RenewalStep` an old "renewed" being taken for that of the
`UPDATE` at hand.

**The audit trail.** `AuditBalance` is inductive with the types. A claim moves
from the table to "about to be logged", to the log or to the lost ones, and each
move changes two cardinalities by one; module `Counting` has the facts about that,
and `ProcessAssumption` makes the sets finite.

**Composition.** `CoordStepIsStep` shows that every step of `Coordination` is one
of `LockProtocol` or leaves its variables alone, so all of the above holds of the
composition. `NoNewsMissed` is inductive with `PassesInv`: a pass knows which
event it is about, the event it has selected is no older, and it is telling
interests in that event's resource. The last one is why a propagation of a newer
event counts as notice. `NoSpuriousNotice` needs the future counted in
(`NoticeInv`): what an interest was told, plus the passes that have yet to tell
it, is at most the news on its resource; and since an interest that is only being
created may be selected by every pass on the resource, those passes alone are at
most the news as well.

**The stream.** `InOrderWithoutGaps` speaks of what was sent and is not
inductive: it needs to be known that the batch is the beginning of what is left
(no row of the identity beyond the last one sent is older than a row of the batch
and missing from it), and that between batches the cursor is the last row sent
(`Streaming`). `Recent` keeps this because a `LIMIT` of an ascending read cuts
off the newest rows only, and `Send` because it takes the oldest one; rows
inserted meanwhile are newer than all of these. `Reset` is what a closed
connection leaves.

**The ledger: closes.** A close is with its process, in the log, or lost
(`LedgerInv`), and only a process on its way to the `INSERT` carries one
(`Carries`).

**The ledger: what is read from the log.** `LogInv` adds that each note in the
table, or about to be inserted, is the line that `resourceUsageNote` makes of
the event's flags if `log-usage` wrote it, and otherwise any note at all
(`Loggable`), and that a recap fits the log of its strategy by now (`Fits`): the first read saw
no more than there is, and the window of the second is right for the first `to`
events. `EventsOneMore` shows that an `INSERT` adds at most one event at the end
of a strategy's log, so `FitsStays` keeps both; `RecentIs` says what
`RecentStrategyEvents` selects, whatever the log and the cap. For usage,
`ParseIs` says what the parser makes of any note: it accepts exactly those that
are a usage line as a whole, and makes out the last harness and the last amount
(`ReadUpTo` is the invariant of its loop, `OneMoreField` one round of it).
`NoteShape` says what a line of `log-usage` looks like, and `UsageIsRead` follows
from both: such a line speaks of exactly the harness its flags are booked under.
`OneEventAdds` says that one event, whoever wrote it, adds to the printed total,
modulo 2^64 (`WrapAdds`), what it adds to the sum. `TotalIsTheSum` then compares
the two loops round by round. Nothing in it depends on how wide an integer is.

**Loops.** A recursive function over `0..n` is unfolded by the definition of
`CHOOSE`, which says nothing until it is known that such a function exists.
`LoopExists` constructs it, from `CountingUp`, which is induction on numbers up
to n for a set instead of a predicate, and follows from there being a least
counterexample. In this form the prover can use it, since nothing has to be
instantiated with an operator.

**Opening and identities.** Tables and columns are never removed, so what a
process has seen of the schema stays true (`Seat`). Who wins the race of two
`ALTER`s is less obvious: columns are added in the order of the list (`InOrder`),
so the process that added the latest one is ahead of every column anybody else
has added (`Ahead`, `Winner`) and nobody can refuse it. For tokens `IdentityInv`
says what each running command knows of its identity's row; it stays true because
an id is used by others only after its row exists and a row never changes.

**Tactic files.** `TacticInv` says that a command about to write has an empty file
before it, if it still has one, and that creators are counted: those who said
"created", and those still writing, are no more than the deletions, plus one if
the file is there. `ReadBack` is inductive with it, given what the operators do: `RenderedLines`
shows the seven lines that storable flags give, `HeadedIsRead` that such a header
is read back, `UnclosedIsUnreadable` that a header cut before its second delimiter
is not read at all, and `PrefixIsRead` puts them together for every cut.

Only model-checked: the liveness properties `NewsArrives` and `EveryRowIsPushed`.
Liveness under fairness is out of the prover's reach. Every invariant and every
action property that a passing run checks is also a theorem.

## 5. Where code and text disagree

Five runs end in a counterexample to a sentence of the repository.

1. **A re-acquire overwrites somebody else's lock** (`lock.go` 314). The `UPDATE`
   of the re-acquire path has no condition on the holder. In the counterexample
   alice's lease runs out, her repeated acquire reads her own row, bob takes the
   resource over with a lease of his own, and alice's `UPDATE` then replaces bob's
   terms by hers: his row has no lease any more and never expires, and alice is
   told that the lock is granted. A release and a claim in between do the same.
   The property is silent when the row is gone at the `UPDATE`, which does no
   harm. The holder column itself stays, which is why `NoSilentEviction` and the
   refinement still hold: the abstract lock calls this step `Restate`.
2. **A forced release is logged as unforced** (`lock.go` 530). The event's holder
   and flag come from the row read before the `DELETE`.
3. **A claim is propagated** (`interest.go` 183). The pass selects the newest
   event, which may be a claim made since.
4. **Two active interests** (`interest.go` 41). The search and the insertion are
   two statements; a resume has no search at all.
5. **The heading of a recap** (`strategy.go` 863). A log whose first event is the
   last completed step is printed as one in which none was completed.

Further observations, met while modelling. They follow from the actions named
and are within what the checked properties allow:

* **A close may leave no outcome** (`strategy.go` 195). `strategy.go` 191-192 and
  README.md 37 promise a final event; the status is written first, and a process
  stopped in between leaves a closed strategy without one. `EveryCloseIsTraced`
  counts these closes in `lostCloses`.
* **Opening an old file can fail** (`store.go` 213). Of two processes that add the
  same column at once the later one ends with an error, which `exec` does not
  retry. `SomebodyGetsIn` says how far this can go.
* **A wrapped lease** (`lock.go` 83). The comment above it promises that Go and SQL
  compute "the exact same thing" for any real lease. From 2^63/1000 seconds on
  they do not: Go calls such a lease expired at once, the reclaim never succeeds,
  and an acquire reports contention that there is not.
* **`render` is not an inverse of `ParseTactic`** (`tactic.go` 211) for a value with
  a line break or with blanks around it; `create` says "created" of a file that
  `list` then skips or shows with other fields.
* **Usage is not always read back as it was written** (`strategy.go` 337), although
  `strategy.go` 332-333 says that the format is the one "log-usage writes and
  parseResourceUsageNote reads back" and `strategy_test.go` 426-428 speaks of
  inverses. A harness name goes into the note as it is: with a blank in it the
  note is one that `usage` skips, or, if a later word reads `harness=codex`, the
  amount is codex's. `UsageAddsUp` states where each amount ends up.
* **A typed note counts like one of `log-usage`** (`strategy.go` 585-606, 716): plain
  `strategy log` with kind `resource_usage` and a note in the format is added to
  the totals. `strategy.go` 662-668 speaks of such notes only as ones that do not
  parse.
* **Totals may wrap** (`strategy.go` 716): `usage` adds up in an int64 and can print
  a negative number of tokens.
* **A lost token** (`identity.go` 262): a process that dies before the token is
  printed leaves an identity nobody can ever use.
* **A torn tactic file** (`tactic.go` 297-305) can be neither read nor replaced; it
  must be deleted by hand.
* **closed_at of an open strategy** (`strategy.go` 161): `activate` and `observe`
  reopen a closed strategy and leave its closing date.

## 6. What is not modelled

Left out for good: the wording of output and errors, reading commands that print
and end (`list`, `show`, `status`, `/locks`, `/health`), random ids (which are
taken to be distinct), flag parsing (`main.go`, `cli.go`), what the costs in usage
notes sum up to (whether a cost can be read is modelled), the notes of other
kinds of events, which only a person reads, the clamp of a negative limit in
`RecentPropagationsForIdentity` (its one caller passes 50), and a wall clock that
goes back. Names of tactics contain no separator, and words in a tactic file no
comma and no bracket, but for the tool list that goes on after one.

What could still be added: a third process in `lock_protocol`, which the time of
one run does not allow together with four commands; the order of `lock_events` against the order of the table's changes,
about which the code promises nothing.
