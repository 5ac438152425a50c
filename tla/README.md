# A TLA+ model of portal-testutil

`portal-testutil` is a Go package that tests of the Lume portal use to run service code against
a mocked database: it scripts a go-sqlmock connection under GORM, hands out transaction
helpers, mock services and a captured mailer, and runs test cases, some of them concurrently.
This directory models the parts of it whose behaviour depends on order, on interleaving or on
what happened long before, checks them with TLC and proves most of what is checked, for every size,
with TLAPS.

## The system

| part | state | operations | hard behaviour |
|---|---|---|---|
| `ConcurrentTestHelper` (`concurrent_test_helpers.go`) | none between calls; in a call: goroutines, a wait group, a result channel each, one error channel, a deadline | `RunWithConcurrency`, `RunWithConcurrencyAndTimeout`, `RunParallelQueries`, `RunConcurrentTests` | interleaving, a deadline racing results, abandoned goroutines |
| `DBTestContext` (`db_test_context.go`) | the mock's queue of expectations, `skipVerification`, `registeredModels` | `NewDBTestContext`, `MockWithDefaults`, `SkipVerification`, `VerifyExpectations`, `Teardown`, `DB`, `RegisterModel` | one queue for every purpose, matched out of order; verification sees its first element only |
| `ExpectationsBuilder`, `TransactionExpectationBuilder` (`expectations_builder.go`) | a table name; everything else is in the queue | `ExpectTransaction`, `ExpectCreate`, `ExpectInsert`, `ExpectUpdate`, `ExpectDelete` and their errors; the transaction chain; find, search and count | long sequences of legal calls |
| `TransactionTestHelper` (`transaction_test_helpers.go`) | the queue, a `*sql.Tx`, registered callbacks | `ExecuteInTransaction`, `WithRollbackOnly`, `WithCommitOnly` | shared by goroutines without a lock; errors and panics half way |
| `TransactionTestCase` (same file) | a service wrapped in layers | `WithTimeout`, `WithRetry`, hooks, `RunTransactionTests` | tries of a service that was given up and goes on |
| table resolution, GORM callbacks | callbacks on a shared processor, `registeredModels`, a mutex | `DB`, `Transaction`, `setTableFromModel`, `tryGetTableName` | accumulation, self-deadlock, recursion |
| `ServiceMockRegistry`, `MockServiceBuilder` | a map of factories under a RW mutex | `RegisterMockFactory`, `CreateMock`, `SetupRegisteredMocks` | callbacks under a lock, two locks |
| `TestMailerService` | sent emails under a mutex, templates without | `TemplateSend`, `TemplateRegister`, `ClearSentEmails` | a half-locked object |
| relationship preload | callbacks on the shared processor | `ReturnModelsWithPreload` | never removed |
| find, search and count expectations | a chain of calls; then a pattern and arguments in the queue | `ExpectFind`, `ExpectCount`, `ExpectSearch`, their chains and endings | seven branches that must agree with the SQL GORM writes |
| row building, pagination | none | pure functions | boundaries; a column stands for another field |
| runners, validation, JSON, fixtures | none | loops and assertions | none of their own |

How they interact: the builders, the transaction helper and the code under test share nothing
but the mock's queue. A builder appends to it; a call of the code under test, through GORM and
`database/sql`, takes the first unmet expectation that covers it; verification reads what is
left. `RunParallelQueries` hands one context, hence one queue, to several goroutines.

What makes each part correct: a concurrent run reports every failure once, is never brought
down by its own channels and returns; each call is answered from what was scripted for it; what
was scripted and not used is reported; a transaction helper leaves the mock as it found it and
says the truth about the commit. The hazards, each at its line, with the properties that
cover it or the reason none does yet, are in `PROJECT.json`.

## Modules

| module | role |
|---|---|
| `RoutineOutcomes` | abstract: what a concurrent run promises its caller |
| `ConcurrentRun` | detailed: goroutines, channels, wait group, deadline; implements `RoutineOutcomes` |
| `ConcurrentRunProofs` | its inductive invariant, its safety theorems and the refinement, proved |
| `Sqlmock` | the expectation queue of go-sqlmock 1.5.2 (external), as operators |
| `ScriptedDatabase` | abstract: each call is answered from its own list of outcomes |
| `DBTestContext` | detailed: one queue for everything; implements `ScriptedDatabase` |
| `DBTestContextProofs` | its inductive invariants, its safety theorems and the refinement, proved |
| `CountingLemmas` | least positions, positions and counts of elements of a sequence; used by six of the proof modules |
| `TransactionHelper` | the helper's calls, interleaved between clients of one context |
| `TransactionHelperProofs` | its inductive invariant and all its properties, proved |
| `TransactionCases` | a test case's service under timeouts, retries and hooks, on the mock |
| `TransactionCasesProofs` | its inductive invariant and its safety properties, proved |
| `SqlPatterns` | statements and the patterns for them, as sequences of tokens |
| `SearchPatterns` | the patterns of searches; extends `SqlPatterns` |
| `FindExpectations` | chains of the find, count and search builders against GORM's queries; extends `SearchPatterns` |
| `TableNames` | how each resolver names the table of a statement |
| `ResolverCallbacks` | the callbacks that contexts, `DB()` and helpers register and remove, and statements that run them; extends `TableNames` |
| `ResolverCallbacksProofs` | its inductive invariant and all its properties, proved |
| `ModelRows` | the columns made of a struct and what GORM scans back |
| `PreloadExpectations` | expectations that answer with models, and the callbacks that inject relations; extends `ModelRows` |
| `Pagination` | the arithmetic of pages and a walk over them |
| `QueryProofs` | the inductive invariant of `FindExpectations` and all its properties, and that the pages of `Pagination` count every item, proved |
| `MockServices` | the registry of mock factories and its lock |
| `TestMailer` | the mailer and its half-locked state |
| `ConcurrentTests` | `RunConcurrentTests`; extends `MockServices` and `TestMailer`, which its services use |
| `ConcurrentTestsProofs` | an invariant for the reports, one for the mailer, one for the registry, and the safety properties of the three modules, proved |
| `MC...` | instances for TLC |

### ConcurrentRun

`main` is the program counter of the caller, `waiter[i]` that of the goroutine started in turn
`i` of the loop, `worker[i]` that of the goroutine it starts to run `fn`. `Start` is
`wg.Add(1); go ...`, `StartWorker` is `make(chan error, 1); go ...`; `ReceiveResult` and
`SeeDeadline` are the two cases of the `select`, both enabled when both are ready, as in Go.
`SendError`, `WaiterDone` (the deferred `wg.Done`), `WaitReturns` (`wg.Wait` and `close`),
`Drain` and `Return` (with the deferred `cancel`) follow. A send on a full channel is an action
that is not enabled. `fn` may return nil, an error, or never. An error is the number of its
routine and whether it is `fn`'s or a time-out; its text is left out. The two functions of the
source differ in the length of the deadline only, which the model does not know: one module
stands for both, and for `RunParallelQueries`, which calls the first.

### Sqlmock, DBTestContext, ScriptedDatabase

An expectation is its kind (begin, commit, rollback, query, exec), the operation and table its
pattern is for, its outcome and whether it was met. Regular expressions are reduced to which of
the modelled calls they cover: `Covers` says it, with the one pattern that covers more than its
own statement, `(?i).*version.*`. `Defaults` is `configureSQLMockDefaults` in its order, with the
numbers of repeated expectations (50 and 10) as parameters. The author's actions append to
the queue what the builder's method appends: for an insert both the `Exec` and the
`Query ... RETURNING` form, within a Begin and a Commit (a Rollback for an error) unless
told not to. `VerifyExpectations` and `Teardown` log the first unmet expectation, unless it is
one of the ignored ones or verification is skipped. The code under test makes writes as GORM
does (a transaction of its own around each, ended by a Commit or a Rollback according to the
outcome), explicit transactions, and background queries. GORM and go-sqlmock are external:
their behaviour is what the source relies on. `ScriptedDatabase` keeps, for each call, the
outcomes configured for it by number, and is what a test author believes in: a call takes its
first outcome that is left. The refinement maps the script of a call to the unmet
expectations of the queue that cover it, numbered by their positions.

`style` is no variable of the code. It says which methods the author and the code use in one
behaviour, so that five families of tests are each explored deeply instead of all at once and
shallowly. The proofs hold for any set of styles, the one that uses everything included.

### TransactionHelper

A call of the helper is: tell the mock to expect Begin, call Begin, run `fn`, tell it to expect
Commit or Rollback, call that. "Telling" is `mock.expected = append(mock.expected, e)` with no
lock, hence two actions, `Tell` (the slice is read) and `Told` (the longer one is written);
"calling" is `CallMock` (the slice is read) and `Answered` (it is scanned, the expectations in
it being shared and marked under a lock of their own). `append` is modelled as if it always
made a new array and slice headers as if they were read and written whole: a torn read,
which the Go memory model allows, is left out, and so is a scan of a shared array whose last
slot is overwritten meanwhile. `fn` may return, with an error or without, end the transaction
itself, or panic. The two appends and calls of one client run in order, those of different
clients in any order. `disturbed`, `rejected`, `commits` and `endedByFn` are history
variables; no action of the code reads them.

### TransactionCases

`calls` holds every call of a layer or of the service with its own program point, because a call
that a timeout gives up goes on while its caller has returned. `Enter` is a layer calling the one
below, `Receive` its taking the result (and, in a `WithRetry`, trying again), `TimeOut` the other
case of the `select`. The service makes one transaction per attempt, on the queue of `Sqlmock`,
returns nil just when it was committed, and may stop anywhere. An error is its innermost cause;
the delay between tries is left out. `EndTest` is the assertions and the teardown: a nil error
that is asked for its text is a panic, which ends the binary.

### SqlPatterns, SearchPatterns, FindExpectations

A statement is a sequence of tokens, a regular expression a sequence of sets of tokens with `Gap` for
`.*`; `Matches` decides by how much of the text can be read with the first members of the pattern
(`Reached`), for every length of both. A condition is one token with its placeholder. What is lost is
spelling; what is kept is what the patterns tell apart: exact or open, with or without a `deleted_at`
condition, which tables, which ending, how many placeholders. `chain` is the builder the author is
calling. A call that describes the query sets fields of it as the method does (`OrderBy`, `Limit` and
`Offset` replace the clause, as in the code), and the calls that end a chain compute the pattern
(`RowsPattern`, `ErrorPattern`, `CountPattern`, ...) and the expected arguments by the branches of the
source and append an expectation. `Query` is then any statement GORM can make for the table: star or
count, any clause and value, by `Model()` or by `Table()` (`scoped`: with the soft-delete condition),
ending in `First` or not, with a fresh destination or one filled by an earlier query (`loaded`: GORM
then adds its ID).

The builder and the query each have a name for the table. `NewExpectationsBuilder` puts the prefix before
the name, unless the registered model has a `TableName` method. GORM is never told of the prefix
(`config.TablePrefix` is read by the builder alone): it uses what `TableName` returns, and for another
model the code under test queries the plain name or, as a service with prefixed tables does
(`db_test_context.go:306-315`), the prefixed one (`TablesQueried`). A pattern with one of the names does
not match a query with the other.

`WithArgs` gives an argument to each placeholder of the clause, and one where there is no clause: the
code compares these too (`expectations_builder.go:1145`, `:1967`), no query has as many, and its
documentation marks that use as wrong (`:946-947`, `:1439-1440`). `Documented` lists, with the line of
each, the uses the documentation and the tests show; a query must have the name of the builder for one
of them, and `WithArgs` without `Where` is none of them. The rest of the properties are about all uses.

### TableNames, ResolverCallbacks

`processors` are the callbacks of queries and of creates, in order, each with the session ID of the
helper that registered it (0 for the context's own). `DB`, `Transaction`, `ExecuteInTransaction`,
`WithRollbackOnly` and `WithCommitOnly` put into `todo` the steps they register and remove callbacks by;
steps of several goroutines interleave. GORM locks nothing: to register a callback or to remove one it
reads the callbacks of the processor, changes them, writes them back and compiles them, which are two
actions here, `ReadCallbacks` (into `seen`) and the one that writes (`DBRegisters`, `Registers`,
`Removes`, all by `WriteCallbacks`). What another goroutine wrote in between is lost: a registration, or
a removal, whose callback is back. `overwritten`, a history variable, keeps on which processors this has
happened. The list of callbacks and the functions compiled of it are one variable, and slices are read
and written whole, as in `TransactionHelper`. A statement runs the callbacks there were when it started
until one names its table. What a resolver makes of a destination is a set of outcomes of `TableNames`:
a name, nothing, "blocked" (it locks the mutex that it holds) or "endless" (`tryGetTableName` calls
itself). There is more than one where Go iterates over the map of registered models. A type is a record
of what reflection sees of it. Updates, deletes and raw statements have the resolvers of queries and are
not kept apart. What one call registers on both processors is one read and one write: a statement and
each of the properties look at one processor at a time, so what happens on the other between two of its
steps makes no difference to them. One statement runs at a time: two have only the mutex in common.

### ModelRows, PreloadExpectations, Pagination

The columns of a row are a function from name to the path of the field it is read from, built field by
field in the order of the source's walk, so that a later field takes the column of an earlier one as it
does there. `Scanned` is GORM's side. `PreloadExpectations` adds the queue of expectations and the
callbacks, which run after every later query for as long as the context lives. `Pagination` is the
arithmetic of the helper and a walk over its pages. The last page of no items is page 0, which ends
where the first begins and from which the walk goes on. `CreatePagination` takes any size from the test,
0 too, and what divides by it then panics (`panicked`); a request never makes a page of size 0.
`MCMockData` explores the two side by side; they share nothing, and each is explored from the initial
state of the other.

### MockServices, TestMailer, ConcurrentTests

`todo[r]` is what is left of the registry call of a goroutine, step by step; a factory adds its own
steps in front, so that a factory that creates another mock, or registers a factory, does so under the
read lock, as in `CreateMock`. A call from outside ends with `Fatalf` when there is no factory; the
nested one of a factory gets no mock and goes on (`MakeNested`). The lock is Go's `RWMutex`: no reader
enters while a writer waits. In the mailer each access of the template map has a beginning and an end,
and an overlap of a write with another access may end the binary (`crashed`), as Go's runtime may notice
it or not. In `ConcurrentTests`, `service[r]` is the goroutine of an operation, `inner` and `outer` the
two channels of `WithErrorHandler` (without it there is only `outer`), `Waiter` the goroutine that waits
for the first answer or the timeout. A service may make calls, answer more than once, return, never
return, or end by `Fatalf` in the registry, which does not end the test, and panics once it is over.

## Runs

| run | instance | properties |
|---|---|---|
| `concurrent_run` | three routines | `TypeOK`; no send after close; a report never blocks; every failure reported once; time-outs are real; no routine left running in silence; implements `RoutineOutcomes`; terminates; workers do not leak |
| `db_context` | two tables, one named like the version pattern and created with RETURNING; five styles | `TypeOK`; silent until SELECT 1; a scripted create is never rejected half way; implements `ScriptedDatabase` |
| `tx_helper` | two clients, three calls, two scripts | `TypeOK`; an undisturbed client is never rejected; the mock is left as found; the outcome is honest; the transaction is ended |
| `transaction_cases` | six orders of layers, two scripts, 0 or 2 tries | errors are honest; attempts are made one at a time and follow the script; nothing outlives the test but what a timeout gave up; every case with a timeout ends |
| `find_expectations` | a table with soft delete and one without, registered or not, with a prefix or not | documented uses are never rejected; exact patterns answer only their First; given arguments are compared; rows and errors agree |
| `resolver_callbacks` | two goroutines, a helper used twice and the `DB()`s of a test | pointers resolve alone; registered names agree; only pointers to slices block; one callback of each per helper, where no write was lost; only own callbacks are removed; `ForTable` names GORM's table |
| `mock_data` | three model types, three expectations; four items to page | plain rows and preloaded rows scan back; relations come back; pages count every item, and no page of a request divides by zero |
| `concurrent_tests` | two services, two IDs, one of whose factories creates the other's mock and registers itself again | only nested factories block; emails are captured and rendered; reports are honest, and a service that has not answered is abandoned only after the timeout; every test ends |
| `masked_expectations` | as `db_context` | `UnmetIsReported` is violated |
| `begin_fails` | as `db_context` | `BeginFailsAsConfigured` is violated |
| `first_example` | as `find_expectations`, without prefix and `TableName` | `FirstExampleMatches` is violated |
| `reused_helper` | as `resolver_callbacks`, with two helpers | `NoDuplicateCallbacks` is violated |

Bounds. Three routines are enough for a success, an error and a time-out in one run and for errors that
arrive in another order than the routines started (75,935 states). In `db_context`, `MasterChecks` and
`SchemaChecks` are 1 instead of 50 and 10: the repeated defaults are equal and only their exhaustion
matters, which comes sooner. The room of a style is the number of expectations a test adds: 12 is three
scripted creates of four expectations each, 5 is a transaction chain with a create in it, 6 a create
among failing transactions, 3 and 1 are the least in which hand-made expectations meet every write and
every background query (126,765 states). In `tx_helper` three calls let one client make a call after,
during and before those of the other; the scripts hold a Begin that fails, a Commit that fails, and an
expectation of the test's own that a helper may take (1,647,485 states, up to the exchange of the
clients; the properties of this run are invariants and do not name a client, so the symmetry is sound).

In `transaction_cases` (150,093 states) the layers are each alone, in both orders, and a retry within a
timeout within a retry, which makes up to four attempts; the scripts hold a first Begin that fails or
not, and a Commit more or less than the attempts need. In `find_expectations` (1,961,132 states) ten
clauses stand for the kinds the branches tell apart, two values for a right and a wrong argument. `Room`
1 means that a chain is begun when all expectations before it are met: a call of the search helper
queues two, and a loaded destination survives from one chain to the next. In `resolver_callbacks`
(5,372,759 states, up to the exchange of the goroutines: its properties name none and none is a liveness
property) one helper and four sessions let `Transaction`, which makes three of them once a model is
registered, be followed by a use, a `DB()` of the other goroutine come at any point of either, and the
helper be used again, by the same goroutine or the other; `reused_helper` has two helpers and three
sessions; the types include a namesake of an unregistered one, one whose name is spelled otherwise by
inference and one with hooks and no `TableName`. In `mock_data` (29,592 states) three models share an ID
among them, so that a later registration disturbs an earlier one; three pages of at most two over at
most four items have a full last page, a short one, none and pages beyond the end. In `concurrent_tests`
(2,271,490 states) a service makes one call, which is up to nine steps of the registry, and two answers
are one more than its channel holds.

Deadlock is not checked where a behaviour really ends: the call has returned, the context is torn
down, the calls are used up.

Fairness is weak, and is used in three runs. In `concurrent_run` it is of the caller, of each waiter, of
a worker's send and of the timer; in `concurrent_tests` of the test with its clock and of each waiter;
in `transaction_cases` of the layers and the test. Go's scheduler runs every goroutine that can run and
the clock does not stop. Nothing is assumed of the code under test: `fn` and the services are not fair,
and the tests end though they never return.

### What the violated properties show

- `masked_expectations`: the comment of `VerifyExpectations` (`db_test_context.go:484-487`) says
  that unmet expectations are logged unless they are SQLite-related. The mock names only
  the first unmet one, the defaults come first, and an ignored default hides all the rest. The
  run finds an unmet Begin, Commit or write and an empty log. `SilentUntilSelect1`, checked and
  proved, states how far this goes: nothing at all is logged until a `SELECT 1` was run.
- `begin_fails`: `WillFailWithError` (`expectations_builder.go:1349`) is to make Begin
  fail, and `ExpectTransaction` has queued a Begin that succeeds before it.
- `first_example`: the documentation of `First` (`expectations_builder.go:1575-1580`) says that
  `Where("username = ?", "john").First().ReturnRows(rows)` matches a query by `First` with that
  condition. For a registered table with soft delete the expectation asks for a second argument, the ID
  of a loaded destination; for a fresh one GORM sends one and the query is rejected. `WithDeletedAt` or
  `HandleStandardFirstRows` avoids it, which `DocumentedUseNeverRejected` checks. (An equality with its
  argument is taken for a `First` too, as in the example at `expectations_builder.go:1826-1827`, so
  `FindUse` leaves equalities out.)
- `reused_helper`: the documentation says that there are no more warnings of duplicate callbacks
  (`README.md:759-760`). Two callbacks of a helper (`transaction_test_helpers.go:351`, `:516`)
  are never removed, and a second use registers them again under the same names.

What the passing properties except is as telling. `UndisturbedNeverRejected`: two transaction helpers of
one context that tell the mock at the same time lose an expectation, because `ExpectBegin` and the
others append to a slice without a lock, and one of them is rejected; a client is only ever rejected
when another was between telling and being answered at the same time. `OnlyPointersToSlicesBlock`: a
statement for a pointer to a slice that GORM cannot parse waits for the context's mutex for ever unless
just one model is registered. `OneOfEachPerHelper` and `OnlyOwnCallbacksAreRemoved`: two goroutines that
register or remove callbacks of one processor at the same time lose one of the two changes, because GORM
reads and writes its list without a lock. A helper is then left without its `ensure_table`, or has it
twice, and a callback is gone that its helper never removed; what does not change is that no helper
removes another's. `RegisteredNamesAgree` holds all the same, but for `create_table_resolver`, which is
reached where the helper's `ensure_table` was lost. `DocumentedUseNeverRejected`: with a table prefix,
an expectation for a model with a `TableName` method is for the prefixed name, and the model's queries
are rejected, unless the model was registered before the builder was made. `PagesCountEveryItem`: the
last page of no items starts below zero, and a size of 0 given to `CreatePagination` ends the test.
`PlainRowsScanBack` and `PreloadedRowsScanBack`: the key of a relation within an embedded struct is read
from the wrong field, and a key named by a relation's tag comes back as the ID of the related struct.
`OnlyNestedFactoriesBlock`: a factory that uses the registry can stop every later call of it.
`EmailsAreCapturedAndRendered` holds while the binary lives: registering a template while an email is
sent may end it. `ErrorsAreHonest`: after a timeout, an error may hide a commit.

## Proofs

Eight modules hold theorems. Of the forty properties of the passing runs thirty-three are proved for
every value of the constants, among them both refinements and all three action properties. Each proof
goes through an inductive invariant, since hardly any of the properties is inductive as it stands; TLC
checked the invariants on the instances of the runs before they were proved (`QueryInvariant`, which
asks of every expectation about every query, with four clauses and one argument). The assumptions are
the `ASSUME`s of the modules and nothing else.

**`ConcurrentRunProofs`**, for every number of routines. Assumed: `NumRoutines \in Nat`. None of the
safety properties is inductive. `IInv` adds what the code relies on without saying so: the
wait group counts the waiters that are born and not exited (`WaitGroupCounts`); closing comes
after the count reached 0 (`ClosedLast`); errors in the channel are no more than the waiters that
have passed their send (`RoomToReport`), so that a waiter about to send finds room; what was
sent, drained or not, is one entry for each finished routine whose verdict is a failure
(`ReportedRight`, `ReportedOnce`, `ReportedAll`); a result channel is used once
(`ResultUsedOnce`); the deadline is cancelled only by the return (`DeadlineHonest`). `StepPreserves`
proves it action by action. `NoSendAfterClose`, `ReportNeverBlocks`, `TimeoutsAreReal`,
`ErrorsAccountForRoutines` and `NoSilentOrphan` follow from it, and so does the refinement
`PromiseKept`: each step maps to a step of `RoutineOutcomes` or to none.

**`DBTestContextProofs`**, for every set of tables, every set of styles and every number of
defaults. Assumed: the version tables and the returning tables are tables, the numbers of
defaults are naturals, a style is a set of groups of methods, tables and a room. Three arguments:

- `IInv` is the type, that the first expectation is and stays the default `SELECT 1`
  (`FirstIsSelect1`), and `SilentUntilSelect1`, which is inductive only with it: the queue grows at its
  end, an expectation once met stays met, and the first unmet one is the first while that is unmet.
- `FollowsScript` rests on `NoCatchAll`, that the pattern for any version was used up while connecting.
  After that an expectation covers one call only, so that taking the first candidate of a call takes the
  least number of its script and leaves those of other calls alone; what a builder appends has higher
  numbers than what is left. Each step maps to `Configure`, `Take`, `Reject` or to none.
- `ScriptedCreateNeverRejected` rests on a balance of counts (`Balanced`): the unmet Begins that succeed
  and the write in flight are at least the unmet inserts, in the form that the table is created with;
  the unmet Commits at least the inserts that succeed and the write that is to commit; the unmet
  Rollbacks at least those that fail. Each builder's method adds to both sides and each call takes from
  both. A failing Begin of another transaction never tips it, because it is not counted.

**`TransactionHelperProofs`**, for any clients, methods, scripts of the test and number of calls.
Assumed: the methods are the helper's, a script is a sequence of expectations. A client is exposed from
its reading of the mock's slice to its answer. While it was never exposed together with another
(`ExposedAlone`), the slice it read is the one there is (`SeenIsCurrent`), so that what it told is
unmet when it calls (`ToldIsUnmet`); no expectation is in a slice twice (`SlicesAreDistinct`). Of
each kind as many are unmet as the test's script has, and one more just while a call is
pending (`OnePendingMore`). All five properties of the run follow, `UndisturbedNeverRejected` and
`LeavesTheMockAsFound` among them.

**`TransactionCasesProofs`**, for any layers in any order, any number of tries, any script. Until
something times out, the calls that run are a chain from the first one down: each is awaited by one of
the layer above, and a layer has at most one (`Chain`). So a nil travels up and ends it, the calls of a
layer are those above it times its tries, and the n-th attempt has the n-th Begin. `ErrorsAreHonest` and
`AttemptsFollowTheScript` follow, and the action property `NothingOutlivesTheTest`. After a timeout only
the types, that a nil comes from a commit and that the test ends after the return are left of the
invariant, and they are what the properties still need.

**`ResolverCallbacksProofs`**, for any models, statements, goroutines and helpers. Assumed: models and
statements are of named types (a pointer, a value, slices or maps of them), and no goroutine is called
"free". The registry has every model under the name that `ExtractTableName` gives it. The context's own
callback is the first of each processor. What a goroutine has still to do is the rest of one of the
plans that the calls of the code lay out (`Plans`), at most one goroutine is in a plan of a given
helper, and each phase of the plan says how many of the helper's `ensure_table` callbacks there are on a
processor that was not overwritten (`HelperInv`): one or none before the removal, none between that and
the registration, one after it. There what a goroutine writes back is based on what the processor holds
(`Writing`). Of an overwritten processor less is left: a goroutine has read what it once held
(`SeenInv`), so that the context's own callback is first in whatever is written. All six properties of
the run follow. `RegisteredNamesAgree`, an action property, is a case analysis of every resolver on top
of it, with the order of Go's map and what other goroutines registered, lost or brought back left open.

**`ConcurrentTestsProofs`**, for any services, IDs, factories and bounds on calls and answers. Assumed:
the IDs are finitely many and a factory creates or registers what has an ID. `ReportInv`: until it is
reported, a channel that a waiter or the handler reads holds nothing but the first answer of its
service, and the handler is told it before the waiter; `MailerInv`: templates only grow in number, so
that what is rendered is no older than the call; `RegistryInv`: the steps that a goroutine has still to
do release just the read locks it holds, the one that waits for the write lock is about to write, and
only a call from outside ends when a factory is missing, never a factory's own. `ReportsAreHonest`,
`EmailsAreCapturedAndRendered` and `OnlyNestedFactoriesBlock` follow, and `NoLockIsLeaked`, which no run
checks: outside a call a goroutine holds no lock, `Fatalf` or not.

**`QueryProofs`**, for any tables with and without soft delete, `TableName` method, prefix and
registration, any names with the prefix, any of the clauses, any arguments and any number of
expectations. Assumed: there is an argument, and none is the placeholder for any argument, for a key or
for none given; the tables with soft delete and with a `TableName` method are tables, and each table has
a name with the prefix. What is proved is about the texts themselves, in four parts:

- *Matching.* `Reached` is a function by induction on the length of the pattern (`ReadingExists`, with the
  least counterexample in place of an induction rule). A pattern whose parts fit the parts of a text
  matches it (`FittingConcat`, `FittingMatches`), and one without gaps matches just the text it spells
  (`MatchingIsExact`).
- *Statements.* What GORM writes of a query is its head, `WHERE`, the conditions and the ending
  (`SqlParts`). The clause is found again in it (`ScopedInverse`, `PlainInverse`): no clause ends in the
  soft-delete condition, a loaded destination puts its key last, and what GORM puts in parentheses is
  spelled like no other clause.
- *Builders.* Each documented use ends in a pattern and arguments that admit its query (`SoftFirstUsed`
  to `SearchUsed`), in whichever branch the code gets there.
- *The queue.* The inductive invariant `QueryInvariant` says of each expectation what was true when it
  was queued (`Good`): it admits each query it is documented for (`Serves`) and none that its exact
  pattern or its `WithArgs` exclude (`Keeps`). Both are about all queries there could be, not those of
  the current state, since a `First` that loads its destination changes what can be asked later. The
  answer to a query is kept with what its expectation allowed, or with the fact that none admitted it.

`DocumentedUseNeverRejected`, `ExactPatternsAnswerOnlyTheirFirst` and `ArgumentsAreCompared` follow.
`RowsAndErrorsAgree` needs no invariant: the branch that only `ReturnRows` has is never reached.
The proof showed one thing about the model: where the branches of the source overlap (a clause that
mentions a deleted row and is also a `First`), a `CASE` of TLA+ leaves open which of them is taken, and TLC
takes the first. They are `IF`s in the order of the source now.

The last part is for every number of items, every size of a page and every walk (`PagerSpec`, the walk
alone). `PagerInvariant` says that the start is a whole number of pages, not below zero but for page 0 of no
items, and that a page a request made has a size of at least one and no operation has panicked. The
number is then found again in the start by division, and the total is the quotient rounded up.

Left to TLC:

- The liveness properties `Termination`, `WorkerNeverLeaks`, `EveryTestEnds` and `EveryTimedCaseEnds`,
  which need fairness.
- The three properties of `PreloadExpectations`. The columns of a row, and the data that its callbacks
  inject, are folds over the fields of a type and over models. For every type there might be they are
  false: two fields that share a column, or a name, take each other's values. A proof would have to assume
  how types spell their columns, which nothing in the code asks for; TLC checks three types as the
  tests write them.

Where a definition filtered or folded a sequence and could be said by positions and counts
instead, it is (`Keeping` in `ResolverCallbacks`, `Nth` and `CallsOf` in `TransactionCases`, the
captured emails in `TestMailer`, `ArgCount` and
`Conditions` in `SqlPatterns`): the provers know cardinalities and not folds.

## Not modelled

Operations still outside:

- `SetupRegisteredMocks` replacing an instance registered before: `MockServices` keeps which services a
  context has and not which instance.
- The functions of `transaction_test_helpers.go` that nothing but a test calls (`createWithCorrectTable`,
  `addCreateInterceptor`, `SafeTransactionDB`, `getRegisteredTableName`,
  `modelHasHooksAndRelationships`), and `WithPagination` of a transaction case, whose value nothing reads.
- `RowsWrapper`, the `With...` methods of `RowBuilder` and rows from maps: lists of values that a
  test gives one by one.
- `GenericExpectationBuilder`, the SQL diagnostics and the debug switches, which wrap or print.

Left out for good: the runners of scenarios, services and models, the generic service helpers,
validation assertions, map serialization, template rendering, the text of SQL and of errors, aliases,
examples and fixtures. They are sequential, keep no state and depend on no order; unit tests reach
them.
