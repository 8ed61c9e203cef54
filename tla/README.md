# TLA+ models of dynamic-streams-eventstore-go

This directory is a formal model of the event store library in `../src`: TLA+
modules translated from the Go code and the SQL it builds, TLC configurations
that check them on small instances, and proofs that the TLA+ proof system
(TLAPS) checks. `PROJECT.json` lists the runs, their properties, which lines of
code every definition stands for, the findings, the hazards and the theorems.

    tlc -workers 2 -config EventStoreRetry.cfg MCEventStore     # a run
    tlapm SnapshotStoreProofs.tla                               # a proof

Contents: 1 inventory, 2 modules and how they correspond to the code, 3 runs,
4 proofs, 5 assumptions, 6 fairness, 7 findings, 8 what is not modelled,
9 plan.

## 1. Inventory

`eventstore` stores events in one PostgreSQL table and lets a caller choose its
consistency boundary per decision. The caller queries the events that match a
`Filter`, gets them with the greatest sequence number of this "dynamic event
stream", decides, and appends new events with the same filter and the number it
expects. The append is one guarded `INSERT ... SELECT`; if the filter's greatest
number is not the expected one, no row is inserted and the call returns
`ErrConcurrencyConflict`.

| Component | State | Operations | Talks to | What makes it correct |
|---|---|---|---|---|
| Event store core (`postgresengine/postgres.go`) | none of its own; the events table, the pools, the calls under way | `Query`, `Append` | adapters, database | an append is decided on the stream as it is; results tell what happened |
| Consistency levels and adapters (`consistency.go`, `internal/adapters`) | handles of the primary and the replica | `Query`, `QueryRow`, `Exec` | pgx, `database/sql`, sqlx | strong reads and all writes go to the primary |
| Filter and builder (`filter.go`) | items (slices shared by copies), boundaries | the builder's methods, `Finalize`, `ReopenForSequenceFiltering` | — | the filter selects what was asked for; a finished filter never changes |
| Snapshots (`snapshot.go`, `postgres.go`) | the snapshots table | `SaveSnapshot` (conditional upsert), `LoadSnapshot`, `DeleteSnapshot` | projections, database | a snapshot's data and number fit; a projection that continues from one misses only what has committed late |
| Observability (`postgresengine/observability.go`) | span and metrics observers of a call | phases of `Query` and `Append` | collectors, loggers | every call is counted; metrics, spans, logs and results agree |
| OpenTelemetry adapters (`oteladapters`) | maps of instruments | `RecordDuration`, `IncrementCounter`, `RecordValue`, spans, logs | OTel SDK | usable from all calls at once |
| Constructors and options | — | `NewEventStoreFrom...`, `With...` | — | stateless checks |
| `StorableEvent`, errors | — | immutable values | — | a row that is no valid event ends a Query with an error |
| SQL schema, tuning (`testutil/.../initdb`) | the two tables | — | — | `BIGSERIAL` key, key of the snapshots |
| Test utilities (`testutil`) | fixtures, spies | — | — | not part of the library |

Behaviours that are hard here:

* **Interleaved appends.** The guard is evaluated on the snapshot of a READ
  COMMITTED statement. Two statements that overlap see neither's rows.
* **Numbers that do not follow the commits.** `nextval` is drawn while a
  statement runs, so a row can become visible below a number that a reader has
  already seen.
* **Rows that arrive one by one** while others commit, on a connection of a pool
  that Query shares with Append, and errors in the middle of them.
* **Abandoned statements.** A cancelled call returns, its statement may still
  commit; the caller may retry meanwhile.
* **A lagging replica**, from which events and snapshots may be read.
* **Snapshots saved by several projections** of different age, late or after a
  reset, while rows commit below the numbers they carry.
* **Slices shared by copied builders.** Every builder method has a value
  receiver, but `append` may write into the shared array.
* **Instrument maps without a lock**, used by every call, and instruments that the
  meter may refuse.
* **Calls that end early** and must leave consistent metrics and spans.

The complete list, each at its line and with the properties that cover it, is
"hazards" in `PROJECT.json`.

## 2. Modules

    EventStreams ── EventStore ── EventStoreInvariants ── MCEventStore
         │              │  └─(INSTANCE) ConsistencyBoundary
         │              └─ SnapshotStore ── SnapshotInvariants ── MCSnapshotStore
         │              └─ QueryExecution ── MCQueryExecution
                  EventStoreInvariants ── EventStoreProofs ─┬─ EventStoreSerialProofs ── SnapshotStoreProofs
                                                            ├─ EventStoreResultsProofs
                                                            └─ QueryExecutionProofs
    EventFilter ─┬─ FilterBuilder ── FilterInvariants ─┬─ MCFilterBuilder
                 └─ EventFilterProofs ─────────────────┴─ FilterBuilderProofs
    Observability ── ObservabilityInvariants ─┬─ MCObservability
                                              └─ ObservabilityProofs

**EventStreams** — rows, filters (the kinds of events they accept and the
boundary of `WithSequenceNumberHigherThan`), the selected stream, Append's
`COALESCE(MAX(sequence_number), 0)` and the number Query's result loop ends
with. A *kind* stands for all that an item expression looks at: type, payload
and time.

**EventStore** — Query and Append with the server below them.

| Variable | In the code |
|---|---|
| `wal` | the committed `INSERT`s, in the order their rows became visible |
| `applied` | the replica's position in it |
| `nextSeq` | the sequence behind `sequence_number` |
| `stmt` | what each server session is running |
| `view` | what a caller keeps of its last Query: filter, events, number |
| `calls` | the Append calls of a caller and their results |

| Action | In the code |
|---|---|
| `Query`, `QueryFails` | `EventStore.Query`: one SELECT, routed by the consistency level; all its error paths |
| `AppendCall` | `Append` up to the statement; no events: nil at once |
| `Execute` | `db.Exec` gets a connection: the statement's snapshot is taken and the guard decided |
| `InsertRow`, `Commit`, `Abort` | the INSERT on the server, row by row; its autocommit; its failure |
| `Return` | `executeAppendQuery` and `validateAppendResult`: error, conflict or nil |
| `Cancel` | the context ends or the connection breaks: Append returns an error, the statement is left to the server |
| `Reap` | the session of an abandoned statement becomes free |
| `ReplicaApply` | streaming replication |

**ConsistencyBoundary** — the abstract specification: an atomic
check-and-append. `EventStore` implements it with `AppendLog` as the mapping —
if there is one session (below).

**QueryExecution** (extends EventStore) — Query in detail. `query` is the call a
client is in: `Acquiring` a connection of the pool it is routed to (`Pool`),
`Reading` with the rows that are still to come (`pending`), the events read and
the last number, or `Closing` after an error. `reader` says whose rows a session
delivers; the sessions of the primary are those of `EventStore`, so Query and
Append compete for them (`IsFree`). `StartSelect` is `db.Query`, `SelectFails`
all that ends before the first row, `ScanRow` one turn of the loop in
`processQueryResults`, `ReadingFails` its three error paths,
`CloseAfterFailure` and `FinishQuery` the deferred `closeRows` with the results.
`Core` is `EventStore` with the view a client is about to have
(`ViewAtSnapshot`): the detailed Query implements the atomic one.

**EventStoreInvariants** — the inductive invariants `GuardInv` and `AttemptInv`
(any number of sessions) and `SerialInv` (one session).

**EventFilter** — values: items, predicates, the sanitizing of their arguments,
the WHERE clause that `addWhereClause` builds (an item without any condition is
dropped from the OR by goqu) and what `Hash` is taken of (`Serialize`). The four
functions of Go's `slices` that sanitizing calls are one operator, `InOrder`:
keep some places of a list and order them by a key and then by their place.
`DeleteFunc` keeps the order of the places, `Sort` and `SortFunc` keep all places,
`Compact` keeps the first of each run.

**FilterBuilder** — the builder as a state machine: `Slots` are variables of a
client that hold builders and filters, `arrays` is the memory behind their slices,
`stage` is the interface a builder was returned as and so decides which methods
exist. `meant` remembers what the calls asked for, as sets. **FilterInvariants** —
`MeaningInv`, which relates the two call by call.

**SnapshotStore** (extends EventStore) — `writes` is the history of the
snapshots table (the row under a key is its last write), `replayed` the
replica's position in it, `projections` what each projection is doing.
`LoadSnapshot`, `SaveSnapshot` and `DeleteSnapshot` are the three operations;
`Upserted` is the `ON CONFLICT DO UPDATE` with `GREATEST` and the two `CASE`
expressions. `Fold` is the incremental query and fold of `docs/snapshots.md`,
the way the operations are meant to be used; `Scope` is what a filter selects
once it has been reopened, whatever boundary it had before. The replica replays both tables in
one order (`at`, `InCommitOrder`).

**Observability** — `call` is the call a goroutine is in, with its phase
(`QueryBuild`, `QueryExecution`, `QueryProcessing`; `AppendBuild`,
`AppendExecution`, `AppendValidation`; `Finish`) and `todo`, the measurements
this phase has still to record, in the code's order. `logs` counts the lines of
the plain and the contextual logger at each level, `spans` the finished spans by
error type, `codes` by the status code the OpenTelemetry adapter gives them.
`Lookup` and `Insert` are `getOrCreate...` of the collector, `Refuse` their error
path: the meter does not create the instrument, the measurement is dropped
(`lost` counts these, the code does not) and the next one tries again. `Races` says that two of them are at the same map and one is about to write it,
and then the outcome is open: the write is lost, or the runtime ends the process
(`Crash`). **ObservabilityInvariants** adds to what has been recorded what the calls
under way have `Due`, and to the finished spans the calls whose outcome is decided
(`Decided`); with that, the laws hold at any time (`AccountInv`).

**MC modules** give the constants their values. **Mutants** are operators next
to the definition they replace; each is a plausible bug that breaks one of the
properties ("mutants" in `PROJECT.json`).

## 3. Runs

| Run | Checks | Bounds |
|---|---|---|
| `retried_appends` | `MissedOnlyConcurrent`: an append misses only rows committed while its own statement ran, or rows numbered below the expected number; `ConflictHasCause`: no spurious conflict; `ResultsAreTruthful`: nil means stored exactly once and in order, conflict means never stored, error means at most once and as a whole; `GuardInv`, `AttemptInv` | 2 clients with 2 calls each, 2 sessions, single events |
| `one_session` | `NoLostUpdate`, `ImplementsBoundary`; `ReadYourWrites`: a batch whose append returned nil is stored whole and shown by the next strong read; `ResultsAreTruthful`, `AppendReturns`; `GuardInv`, `SerialInv` | 2 clients, 1 session, replica, overlapping filters with and without a boundary, batches of 0, 1 and 2 |
| `lost_update` (violation) | `NoLostUpdate` | 2 clients, 2 sessions |
| `query_execution` | `RefinesEventStore`: the row-by-row Query is the atomic one; `CallsReturn`: no connection is lost on the way; `QueryInv` | 2 clients with an append each, 1 connection to the primary, 1 to the replica, batches of 2 |
| `filter_building` | `SelectsWhatWasMeant`: a filter each of whose items has a condition selects what its calls asked for; `SerializationIsCanonical`: what means the same serializes alike, if no item has two values of one key; `MeaningInv`; `TypeOK` | all chains with up to 3 items; arguments out of order, repeated and empty, items left without a condition |
| `filter_sharing` (violation) | `FinalizedFiltersAreImmutable` | 2 variables, up to 4 items |
| `filter_without_conditions` (violation) | `FiltersHaveConditions` | 1 or 2 items |
| `snapshots` | `SnapshotsMissOnlyLate`: of the events up to its number a stored snapshot lacks only such that have committed late; `ProjectionsMissOnlyLate`: continuing from a snapshot equals reading everything, but for those; `SnapshotInv` | 2 projections, 1 client with 2 calls, 2 sessions, replica, 2 writes, a filter with a boundary of its own |
| `snapshot_reset` (violation) | `NumberIsLastProcessed` | 2 projections, 1 call, 4 writes |
| `snapshot_overwrite` (violation) | `UpdatedOnlyIfHigher` | 2 projections, 2 clients, 2 sessions |
| `observability` | `CallsAreAccountedFor`, `SignalsAgree`, `LogsAgree`: the signals account for the calls and agree with each other and with the results whenever no call is under way; `AccountInv`: with what is still to come, they do at any time; `TypeOK` | 2 calls, interleaved at every access to the collector; the meter may refuse the counter of conflicts (`Refusable`), each time anew |
| `collector_race` (violation) | `ThreadSafe` | 2 calls |

Why the bounds are enough for what they are to show:

* A row that commits late takes somebody who holds a low number, somebody who
  commits a higher one and somebody who reads in between. An abandoned statement
  can be the first of them, so two clients with two calls and two sessions give
  this, the retry beside one's own statement, with and without a query in
  between, and two overlapping appends of different clients. That more clients,
  sessions or larger batches add nothing new is what the theorems say.
* Batches of two, the empty batch, filters that overlap and a boundary are in
  `one_session`; there a statement has a state in which it has drawn some of its
  numbers, and a caller may decide on what it read from a replica that lags.
* With one connection per pool every call of `query_execution` waits for
  another; two rows make an order, and a state with one read and one to come.
* The upsert compares two snapshots of one key. Two projections give every order of
  two loads, folds and saves, on a row that is absent, present or deleted; two
  appends make three different numbers, and a cancelled call leaves a statement
  behind that draws its number before the next one and commits after it. A save
  over a reset takes a third write, which `snapshot_reset` has; that more writes
  break nothing is what the theorems say.
* `append` finds room first when a fourth item follows a third (capacities 1, 2,
  4). Up to three items every append copies, so `filter_building` is about what is in
  the items and not about sharing; `filter_sharing` has the fourth item, and a second
  variable for the second filter.
* Two calls meet on every pair of places in the collector; every path of a call
  is taken beside every path of another. All instruments fail alike; one that every
  path of Query asks for is enough to lose a measurement on each of them.

`CHECK_DEADLOCK FALSE` appears where the process really stops (a crash of the
Go runtime, or all calls of the bound made); elsewhere queries go on forever.

## 4. Proofs

All theorems hold for any sets of clients, sessions, filters, batches and
projections, and with or without a replica.

**For any number of sessions** (`EventStoreProofs`): `TypeCorrect`,
`GuardInvariant`, `MissedEventsAreConcurrent`, `ConflictsHaveCauses`. Neither of
the last two properties is inductive: that an append missed nothing else is
decided when its statement takes its snapshot (`Execute`), long before it shows
in `wal`. `GuardInv` carries the verdict along: what a client remembers was read
from the log and its number is the last of what it saw (`ViewsAreReads`), a
statement has passed or failed its guard on the first `base` transactions
(`StatementsAreGuarded`), and so has every transaction
(`TransactionsAreGuarded`). As the log only grows (`WalPrefix`), such facts stay
true. `GuardDecides` shows that equality of two maxima means what `Passed` says;
it needs that numbers are unique (`Numbered`) and that Append's `MAX` is Query's
last row (`MaxIsLast`).

**Results** (`EventStoreResultsProofs`): `AttemptInvariant`, `ResultsTruthful`
and `ReadsOwnWrites`, for any number of sessions. What a result says of the
table depends on which statement a transaction came from, so `AttemptInv` gives
every statement and every transaction to one call of Append: a call has one
statement at most (`OneStatementEach`), whose rows spell the first events of its
batch and which has not been committed unless it is done
(`StatementsAreAttempts`); a transaction spells the whole batch of a call that
is executing, has failed or has returned nil, and is the only one of that call
(`TransactionsAreAttempts`). `ReadsOwnWrites` joins this with Query: a nil result
leaves a transaction behind (`AcknowledgedAreStored`), its rows are the whole batch,
and a strong read, which reads the primary, selects from all of them.

**Query** (`QueryExecutionProofs`): `QueryInvariant` and `QueryRefinesEventStore`.
Every step but the last of a Query leaves the store as
it is or is a step of it (`StoreStep`), so the invariants of `EventStore` carry
over. The snapshot is decided when the SELECT starts, the view of the client
changes when the rows are read; `ViewAtSnapshot` moves the second to the first.
What makes this sound is `ReadsInOrder`: the number of the last row read is the
maximum of the whole snapshot once nothing is left (`QueryIInv`, with the
unique numbers of `GuardInv`).

**For one session** (`EventStoreSerialProofs`): `OneSessionLosesNoUpdate` and
`OneSessionImplementsBoundary`. `SerialInv` adds that numbers follow the commits
(`CommitOrder`), that nothing commits while a statement runs (`RunsAlone`) and
that what a client has seen is the whole stream of some earlier state, also if
read from the replica (`ViewsArePrefixes`). Then an unseen row is numbered above
all seen ones, and the guard detects it (`GuardIsComplete`). The `lost_update`
run shows that the assumption is needed.

**Snapshots** (`SnapshotStoreProofs`): `SnapshotsRefineEventStore` — every
behaviour is one of `EventStore`, so all of the above carries over;
`SnapshotTypeCorrect`, `SnapshotInvariant`, `SnapshotsLackOnlyLate` and
`ProjectionsLackOnlyLate`, all for any number of sessions. `SnapshotInv` says that
whatever is stored or held by a projection is `Sound`: only events of `Scope`, with
their last number or 0, and of the events below that number it lacks only such that
are `CommittedLate` for it; what was loaded from the replica is no newer than the
replica's events (`WritesAreOrdered`). There are two ways to lose an event, and the
proof has a lemma for each. `SoundKept`: a commit adds a row below the number of a
snapshot, and the row of that number was committed before it. `FoldIsSound`: the
fold brings a higher number along; a row between the old number and the new one
that the query did not see was committed after the one that has the new number
(`LateAfter`). What was late once remains so (`LateStays`, `LateForMore`). With one
session nothing is late (`NothingIsLate`, from `CommitOrder`), and the two theorems
become `SnapshotsExact` and `ProjectionsComplete`: a snapshot holds exactly the
events up to its number, a projection all of them (`SnapshotsAreExact`,
`ProjectionsAreComplete`, which are no properties of a run: with two sessions they
do not hold). The filters may have a boundary of their own: reopening replaces it,
so all of load, fold and save mean the events of `Scope`. The theorems assume
`DistinctHashes`.

**Sanitizing** (`EventFilterProofs`), for lists of any length: `SanitizedTypes` and
`SanitizedPredicates` say that what is left are the elements that are not empty, in
the order of their keys, and, if no key is used twice, each of them once. No
induction is needed: the rank of a place, the number of places before it, is
injective because the order is total (`BeforeIsTotal`, `RanksGrow`), and an
injection of a finite set into 1..n is onto, so every place has its turn
(`PlacesTakeTurns`, `InOrderProperties`). In a sorted list the first place of an
element is one that `Compact` keeps (`FirstPlace`, `CompactProperties`).

**The builder** (`FilterBuilderProofs`), for any arguments, any number of variables
and any order of calls. `BuilderTypeCorrect` is about memory. `MemoryInv` says that the slice of every builder and filter lies
within its array and is as long as what the caller asked for; what is in the items
does not matter. Two facts carry the proof. `ArraysSuffice` counts: 2·|Slots| + 1
arrays are more than can be reached, so append always finds a new one, and writing
it touches nobody (`SlicesStay`, `ItemsStay`). `ArraysAreFull`: capacities grow
1, 2, 4, so up to three items append never has room to write into; a builder whose
slice has three items has room for a fourth, and with `MaxItems` above 3 the
`filter_sharing` run shows what happens then.

`ItemsAreMeant`, `SmallFiltersSelect` and `SmallFiltersSerialize` are about what the
items mean. `SelectsWhatWasMeant` and `SerializationIsCanonical` only look at
filters; `MeaningInv` says it of every builder too: the items that can be read
through its slice and the item under construction fit what was asked for (`Fits`),
and the next call finds the lists it appends to still empty (`IsReady`). For the
calls that describe an item this follows from what sanitizing returns (`TypesFit`,
`PredicatesFit`); append adds the item under construction to those before it and
leaves all others as they are (`AppendMeans`, `OthersMean`). A list in the order of
its keys is determined by its elements (`ListingOfSeq`), hence the canonical form.
The three theorems assume `MaxItems <= 3`: with more items another builder may
overwrite what was meant. `SmallFiltersSelect` speaks of filters each of whose items
was left a condition by sanitizing; for the others see `filter_without_conditions`.

**Observability** (`ObservabilityProofs`): `ObservabilityTypeCorrect`,
`AccountInvariant`, `CallsAccounted`, `SignalsAlwaysAgree` and `LogsAlwaysAgree`,
for any number of callers and calls, whatever the collector loses in a race and
whichever instruments the meter refuses: a measurement that is lost that way is
counted in `lost`, so the theorems say that nothing else is missing. The laws speak of the moments without a call under way and say nothing of a step;
`AccountInv` is inductive because every sum includes what is still to come. The
sums over all callers are numbers of members of finite sets — a measurement that is
due is a caller and a place in its list — so that `CallChange` can say, without
induction over callers, how they change when one call does: by its contribution
after less that before. What an outcome records and logs is stated once as a table
(`Measures`, `Reports`); one lemma per phase shows that the code's lists have the
rows of these tables, and `OutcomeEffect` that adding a row keeps the sums equal.

**Only model-checked:** the liveness properties (`AppendReturns`, `CallsReturn`:
fairness and ENABLED are out of the prover's reach), and everything about filters
of more than three items.

## 5. Assumptions

* Append uses the pool's default, READ COMMITTED with autocommit (the code sets
  no isolation level): the guard and the INSERT of one statement share one
  snapshot, and there is no serialization failure.
* Transactions become visible, and are replayed by the replica, in one order.
* Query is one SELECT: the rows it iterates over are those of one snapshot of the
  server (`StartSelect`). Cursors, `FETCH` sizes and buffers of the drivers do not
  change which rows arrive.
* A row is lost to the caller only with an error (`rows.Err`), as the drivers
  document.
* "One session" means that the primary runs one Append statement at a time, for
  all processes together, the abandoned ones included. A pool of one connection in
  one process is not quite that: a pool replaces a connection that was cancelled or
  broke, while the server may still be running the statement of the old one. A lock
  in front of the store has the same gap unless it is held until the statement has
  ended on the server.
* The rows of a multi-row INSERT get their numbers in the order of the batch
  (`InsertRow`): the code builds them as a `UNION ALL` cross-joined with the guard's
  CTE and has no `ORDER BY`, so this is what PostgreSQL does and not what SQL promises.
* PostgreSQL evaluates an upsert on the newest version of the row, under its
  lock: `SaveSnapshot` is one step. A save that is abandoned and arrives later is
  one of another projection, of which there may be any number.
* A projection loads its snapshot and queries its events at one consistency level
  (`Fold`), as with one context; loading at one level and querying at another is not
  modelled.
* A filter and its batches do not change between Query and Append (`view`).
* The arguments of the builder are lists of at least one element
  (`BuilderAssumption`: the methods take the first one apart from the rest).
* `SortedBy` is stable, as `slices.SortFunc` is for up to 12 elements only. With more
  it shows in the order of predicates with the same key, which no property depends
  on: `SerializationIsCanonical` excludes two values of one key.
* Finitely many goroutines call the store (`CallersAssumption`). The loggers are safe
  for concurrent use, as `slog` and the OpenTelemetry loggers document.
* Names, types and payloads are opaque. In particular two filters share a hash
  only if the `Hash` of a model says so; which strings do is not modelled.

## 6. Fairness

`one_session` checks `AppendReturns` under `Fairness` (`EventStore`): the server goes
on with a statement it has started (`InsertRow`, `Commit`, `Reap`: weak) and an
answer reaches its caller (`Return`: weak). `Execute` is strongly fair for each client:
others may take the free session again and again, but not for ever. `pgxpool` queues
its callers; `database/sql` gives a free connection to one of the requests that wait
and not to later ones, in no fixed order, and that it leaves nobody waiting for good is
assumed here. Nothing is assumed of replication.

`query_execution` checks `CallsReturn` under `QueryFairness`: the same for the
server, strong fairness for whoever waits for a connection (`StartSelect`,
`ExecuteAppend`), and a call that holds rows goes on (`ScanRow`, `FinishQuery`,
`CloseAfterFailure`: weak). Nothing obliges a client to call, a context to end, a
statement or a row to fail, and nothing is assumed of replication there.

## 7. Findings

* **Lost updates** (`lost_update`). Two appends whose statements overlap both pass
  the guard and both are stored, each decided on a stream without the other's
  events; the documentation promises that the second fails. What does hold is
  `MissedOnlyConcurrent`.
* **Finished filters change** (`filter_sharing`). `Finalize` and `OrMatching`
  append to an array that copies of the builder share. From the fourth item on:
  a builder with three items, two different last items on copies of it, and the second
  `Finalize` rewrites the last item of the first filter.
* **Filters without conditions** (`filter_without_conditions`).
  `Matching().AnyEventTypeOf("").Finalize()` gives a filter that selects every event,
  though a comment on `Finalize` says that it has at least one event type or predicate.
* **A reset during a projection stores number 0** (`snapshot_reset`). A query
  above the snapshot's number that finds nothing returns 0, and the documented
  projection saves that. The upsert refuses it only while the old row is there.
  After a reset in between, complete data is stored with number 0, and the next
  projection folds every event a second time — a counter in it is doubled.
* **Equal numbers overwrite** (`snapshot_overwrite`). The `CASE` of the upsert says
  `>=` where its comment says "higher". When a row commits late, a projection
  without it replaces a snapshot with it.
* **The collector's maps race** (`collector_race`). `MetricsCollector` is not safe
  for concurrent use, but every call of an event store uses it.

Met on the way, and without a run of their own: an item without conditions next to
other items is dropped (`filter.go:580`); `sanitizePredicates` sorts by the key and
compacts whole predicates, so `P(k,a), P(k,b), P(k,a)` keeps its duplicate, which
`filter.go:431` says is removed, and predicates with two values of one key
hash by the order of the arguments (`filter.go:516`; `SerializationIsCanonical`
excludes them); a cancelled Append counts as a database error *and* as a
cancellation (`postgres.go:738`), where the repository's README.md:166 promises
"Distinct tracking for cancellations vs timeouts vs regular errors" (`AccountInv`
describes what the code does; `SignalsAgree` asks for distinct counts of Query alone),
a failure to build the INSERT counts and is
logged twice (`postgres.go:652`), a cancellation while rows are read counts as an
error only, and such errors do not reach the contextual logger (`postgres.go:425`);
an Append whose context allows eventual consistency runs on the primary and is
labelled `replica` (`observability.go:145`; labels are not modelled). What is said
of counts and logs is in the laws of `CallsAreAccountedFor`, `SignalsAgree` and
`LogsAgree`, so a change to any of it shows.

## 8. Not modelled

The wording and the attributes of log records; durations and values; labels other
than the status; strings character by character (`Serialize` is modelled by the
lists it joins, the collisions of unescaped separators are not); JSON validation
(a row may be invalid, which ones are is left open); constructors and options, which
are stateless checks; the checks for empty arguments and the logging of the snapshot
operations; indexes and tuning; the test utilities. The three adapters differ only
in the driver they wrap and are one component here. The rows of a single-row query
(`QueryRow`, used by `LoadSnapshot`) are read in one step.

## 9. Plan

Done, in this order: the core with its abstract specification and proofs; filters
and the builder; snapshots and their proofs; observability with the collector; the
results of Append for any number of sessions; Query row by row; log lines and span
codes; filters with a boundary of their own below the snapshots; proofs about
observability, sanitizing and what filters mean; snapshots under any number of
sessions.

What would come next:

1. Filters that share a hash, in `SnapshotStore`.
2. The statements of `SaveSnapshot` on sessions of their own, so that an abandoned
   save is told apart from another projection's.
3. `FinalizedFiltersAreImmutable`, and with it the theorems about what filters mean,
   for filters of any size and clients that use each builder once: there append does
   write in place, but nobody else holds the array.
4. Loading a snapshot at one consistency level and querying at another.
