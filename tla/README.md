# Formal model of the FX engine

TLA+ specifications of the FX engine in this repository, the TLC runs that check
them on small instances, and TLAPS proofs of the theorems that hold for every
instance. Module comments say what a definition stands for; `PROJECT.json` maps each
one to the source lines it models.

## 1. The system and its parts

A FastAPI service whose handlers are plain functions, run by threads of a pool, each
with its own SQLAlchemy session on one PostgreSQL database at READ COMMITTED. Threads
share nothing in memory but metrics; they interact through rows, row locks, one
advisory lock and the clock.

| component | state | operations | what makes it correct |
|---|---|---|---|
| Money path (`services/executions.py`, `services/customers.py`, `repositories/balances.py`, `repositories/ledger.py`) | `customers`, `balances`, `ledger_entries`, `credit_adjustments`, `executions`, `idempotency_keys`; row locks | `create_customer`, `credit_balance`, `execute_quote` | balance = sum of ledger; both legs or none; a quote executes at most once, under one key, before its expiry; replies are true; no deadlock |
| Rate refreshes (`services/rates.py`, `repositories/rates.py`) | `rate_refreshes`, `rate_snapshots`, `current_rates`; advisory lock `rate_refresh` | `refresh_rates`: lock, fetch, store, commit, or roll back and record the failure | current rates are one whole refresh, never an older one; history is whole; failures leave an audit row |
| Quotes and pricing (`services/quotes.py`, `utils/money.py`) | `quotes`, `quote_legs` | `create_quote`: load the book, freshness, route, legs, amounts | a quote can be rebuilt from stored snapshots of one fresh refresh; no leg beats its mid rate |
| Readiness (`api/routes/health.py`) | none | `rates_freshness_status` | says "fresh" exactly when quotes pass the same check |
| Start-up: schema and triggers (`main.py`, `db/models.py`, `db/session.py`) | the catalog: tables, constraints, append-only triggers; table locks | `create_all` in the lifespan of each process | tables appear whole, with their triggers; starts and requests do not deadlock; constraints are only backstops |
| Metrics and logs (`utils/observability.py`) | counters per process | increments around the transactions | what a request counts is what the repository's README says, and successes are executions |
| HTTP layer (`main.py`, `middleware`, `api/schemas`, `utils/errors.py`) | the request's ID | content type, routing, validation, exception handlers | every answer names its request; no endpoint runs on what the layers before it should refuse |
| Connection pool (engine of `db/session.py`) | connections | check out with the first statement, return at commit, rollback or close | waiting ends, whatever holds the connections |

Hard behaviours, each listed at its line under `hazards` in `PROJECT.json`: transactions
that overlap and wait for each other's locks; values read before a wait and used after
it; retries under the same key while the first request runs or after its answer was
lost; a failure or crash between the flushes of a transaction, or between its commit
and its answer; refreshes that finish in another order than they started; connections held
while a transaction waits; processes that start beside each other and beside requests;
amounts and rates at the edge of their rounding and of their columns.

## 2. Modules

| module | models | 
|---|---|
| `FxTables` | row types, constants with their assumptions, the ledger entries of a transfer and of a credit |
| `FxLedger` | abstract: what the money path promises; four atomic operations, no requests, locks or time |
| `FxExecution` | the money path, statement by statement, with its properties; `INSTANCE FxLedger` |
| `FxExecutionProofs` | the inductive invariant `IInv` and its proof |
| `FxExecutionTheorems` | the theorems about the properties |
| `FxMetrics` | composes `FxExecution` with the counters: every action again, with what it counts |
| `FxMetricsTheorems` | that `FxMetrics` implements `FxExecution`, and the theorems about the counters |
| `FxPricing` | the pricing of a quote as functions of a rate book |
| `FxPricingTheorems` | bounds of that arithmetic |
| `FxRateBook` | abstract: a refresh is published whole or rejected, a quote is priced from one fresh refresh |
| `FxRates` | refreshes, quotes and readiness, with their properties; `INSTANCE FxRateBook` |
| `FxRatesProofs`, `FxRatesTheorems` | their inductive invariant, and the theorems about the properties |
| `FxPool` | composes `FxRates` with a bounded connection pool: every action of `FxRates` again, with what it does to the pool |
| `FxPoolTheorems` | that `FxPool` implements `FxRates`, and that the pool never waits on itself |
| `FxStartup` | processes that run `create_all` beside the requests of others: the catalog, table locks and their queues |
| `FxStartupTheorems` | the theorems about it |
| `FxHttp` | the way of a request through middleware, router, validation and handlers |
| `MCFxExecution`, `MCFxMetrics`, `MCFxRates`, `MCFxPool`, `MCFxStartup`, `MCFxHttp` | values of the constants for TLC |

`FxExecution` implements `FxLedger`, `FxMetrics` implements `FxExecution`, `FxPool` implements `FxRates`, and `FxRates`
implements `FxRateBook`; each mapping leaves out locks, requests and time and keeps the
committed rows.

### FxExecution

A worker is one thread serving one request in one transaction. An action is one
database statement that can wait for another transaction, or the code between two of
them; nobody else can see inside such a stretch.

| variable | in the code |
|---|---|
| `customers` ... `responses` | committed rows. `executions` is the set of executed quotes (UNIQUE `quote_id`); `responses[k]` the payload of a completed key row |
| `lock` | owner of each row lock; inserting a key row locks the key, because any other insert of it waits |
| `held[w]` | `Balance.balance` in memory of the accounts the worker has locked |
| `staged[w]` | `ledger_entries` flushed, not committed |
| `pc`, `req`, `reply` | the line reached, the request, the answer (none if the process died first) |
| `now` | the clock, in quote lifetimes |

| action | lines of `execute_quote` |
|---|---|
| `Submit`, `CheckKey` | the empty key, the lookup of the key, hash check, replay |
| `ClaimKey` | flush of the new key row, IntegrityError |
| `LockQuote`, `CheckQuote` | SELECT FOR UPDATE; executed?, expired? |
| `LockAccount` | `get_balance_for_update`, one currency at a time, alphabetically |
| `Debit`, `CreditDestination` | funds, execution row, both entries, values in memory |
| `Commit`, `Respond` | stored response, commit; success log and answer |

`BeginCredit`, `LockCreditAccount`, `PostCredit`, `CommitCredit` and `RespondCredit`
are `credit_balance`. `Fault` (the database fails a statement) and `Crash` (the
process or its connection dies) may strike at every point of a request. Every refused
check is `Fail`: roll back, release, answer.

The execution row has the quote's identity; the key row's hash is the quote, since
method and path are fixed (SHA-256 is taken to be injective). Customers get all their
balance rows at creation, so `ensure_balance` never inserts. Money is in cents.

### FxMetrics

`counted[w]` is what the request of worker `w` has added so far to the six counters of
executions; a counter of a process is the sum over its requests. `Count` takes the
increments with the statement before them: those of an `except` clause (`Raised`) belong
to the step that raises, the success of line 239 to the commit in front of it. A process
that died, and a request that begins, have counted nothing (`Restart`). A scrape of
`/metrics` between a statement and its increment is not distinguished from one before
the statement.

### FxRates

`AcquireLock` to `CommitRefresh` are the steps of `refresh_rates`: the advisory lock
and the start time, the provider's answer, one `StorePair` per canonical pair
(invisible to others until the commit), the commit. `RefuseRates` and `RecordFailure`
are the two transactions of a failed attempt. `MisreadPayload` is an answer that
raises an exception no clause names. `Fault` covers failed statements and dying
processes. A quoting thread reads the book in `LoadBook` (one SELECT) and prices it in
`PriceQuote`, any time later; between lines 103 and 126 of `create_quote` nothing
waits, so the freshness check and `created_at` share one clock reading. Amounts and
rates are integers; `RoundHalfEven` is `round_rate` and `round_money`. The 28 digits
of intermediate Decimals are not modelled: quotients are rounded once.

The failures of the provider that are recorded (timeout, HTTP error, invalid JSON,
unusable rates) share their control flow and are one outcome, `refused`.
`OverflowRate` is a rate that `fetch` accepts and the column does not hold; a rate too
small for it is stored as 0, and a quote that would divide by it, or whose amounts the
columns do not hold, can only be refused (`CanPrice`, `Storable`).

### FxPool

`connected` are the threads with a connection, `waiting` those that want one. A session
has a connection from the first statement of a transaction to its end: `Enter` and
`Leave` bracket a request, `Reconnect` is the end of a transaction whose request sends
more statements: the audit row of a failed refresh, and any committed row that the log
or the answer reads again (`reading`, `ReadBack`), because a commit expires the
session's objects. A refresh that waits for the advisory lock is connected. `PoolSize`
is `pool_size` and `max_overflow` together. `PooledFault` adds the pool's timeout to
the faults of `FxRates`.

### FxStartup

`create_all` is one transaction. `Start` looks which tables are missing;
`DefineFunction` is the `CREATE OR REPLACE FUNCTION reject_modification` of
`models.py`, which every start runs first and of which only one can be open at a time;
`ReplaceTrigger` takes the ACCESS EXCLUSIVE lock of the next table of
`IMMUTABLE_TABLES`; `CommitStart` shows what the transaction has made of the catalog
(`guard`: absent, or which function the table's trigger calls). A start that waited
while another one committed fails on the changed function, or on a table that exists
(`Refuse`), and with it the process. `Plan` lists, for each kind of transaction, the
locks of tables and rows in the order of its statements; a lock is granted when neither
a holder nor an earlier waiter conflicts with it, which is PostgreSQL's queue. What a
commit has expired is read again in a transaction of its own: after an execution the
quote and then the execution (`ReadExecutedPlan`, lines 243 and 245), and both tables
stay locked until it ends; after a new quote, or a failed execution, the quote alone
(`ReadBackPlan`). All
requests meet on one key, one quote and one balance; `FxExecution` has several.
The tables whose triggers are not replaced are not locked by a start once they exist.

### FxHttp

`id` is `request.state.request_id`, `answer` what was sent: its status, the ID in the
body (`instance`) and in the header. `RefuseContent` is the middleware's own 415;
`ReturnThrough` an answer that comes back through `call_next`; `HandleUnexpected` an
exception that passes the middleware and is answered outside of it. The middleware
takes `application/json` alone and only looks where there is a `content-length`;
FastAPI, behind it, reads a body as JSON by a wider rule (`Parsed`).

## 3. Runs

| run | question | instance | result |
|---|---|---|---|
| `money` | can any interleaving, fault or crash lose, repeat or halve a movement, make an answer false, or let workers wait in a circle? Does a request ever go back? Which internal errors are no fault of the system? Is every step one abstract operation or none? | 2 workers, 2 quotes, 2 keys, 2 credits, 1 customer, 2 currencies | holds |
| `liveness` | does every request end? Are the counters what they are said to be? | 2 workers, 2 quotes, 2 keys, 1 credit | yes, the first under fairness |
| `rates` | are current rates and quotes always those of one refresh and of one answer, and priced on the right side of it? Is a refused attempt on record? | 2 refreshers, 1 quoting thread, 2 attempts, 3 payloads, 3 currencies, 2 pairs | holds |
| `refreshing` | can requests wedge the pool? Does every refresh and quote end? | 2 refreshers, 1 quoting thread, 2 connections | no; yes, under fairness |
| `startup` | is the schema ever half there? Do starts and requests wait in a circle, or for ever? | 2 processes, 2 threads of one of them, 4 kinds of requests | no |
| `http` | does every answer name its request, whichever layer gives it? Does an endpoint succeed on a body that should have been refused? | 1 request, all combinations of its parts | yes; no |
| `rolled_back`, `system_fault`, `replays`, `provider_base`, `refresh_audit`, `zero_rate` | statements of documents and comments that the code does not keep | smallest that shows it | violated |

The properties of each run are in its `.cfg`. Each stands below a comment in its module,
and each is broken by a mutant of the code listed in `PROJECT.json` (the definitions
commented "Mutant").

**Bounds.** Two workers on two quotes and two keys give every pair of overlapping
requests: same key, same quote, both, and opposite directions over the same two
balances. A circle of waits among three or more workers is beyond the instance; the
theorems `NoDeadlock` and `LocksInOrder` remove the bound. The offers include an amount
that rounded to nothing; `MaxMoney = 2` lets two transfers overflow the column.
`TTL = 1`, `LastInstant = 1` let a quote live and lapse. In `liveness` two quotes and
two keys make executions wait for a key, for a quote and for each other's balances, and
for those of a credit; both quotes go in one direction, because the order in which
balances are locked does not depend on it (`NextAccount`), and `money` has both. Two attempts, two pairs and two
storable payloads are the least with which a mix of two refreshes, or of their pairs,
could be seen, and a third payload overflows its column at the second pair;
`LastInstant = 2` with `Freshness = 1` lets a rate be fresh, exactly at the cutoff, and
stale. `MaxQuotes` bounds the quotes of `rates`. The pairs and the scale of rates are
small (a rate counts quarters, so that rounding happens). In `refreshing` the two
connections can both be held by refreshes, one of which waits for the lock, while the
quote waits for a connection. In `startup` two processes are the least that collide,
and the two threads can hold locks in front of and behind a waiting start; the proofs
remove the bound. The symmetric identities of workers, quotes, keys, credits, refreshers
and attempts are permuted in safety runs only. Requests share nothing in `FxHttp`, so one
shows what many would. `Refreshing.cfg` and `Http.cfg` turn the deadlock check off: with
all attempts used up, or the request answered, those instances really stop.

**Fairness.** A thread that waits for nobody goes on (weak fairness); PostgreSQL
grants a row or advisory lock to those queued for it in turn, and the pool its
connections, so a waiter is not passed over for ever (strong fairness on those steps).
In `FxStartup` the queue is part of the state, and weak fairness is enough. The provider
call has a timeout. Clients, the clock, the start and the death of processes, and
failures get no fairness; neither has the pool's timeout, so waiting ends without it.

## 4. Proofs

### FxExecution

For every set of workers, customers, currencies, quotes,
keys, credits, offers and bounds that satisfies the assumptions in `FxTables` and
`FxExecution`:

- `TypeCorrect`, `LedgerRecords`, `ExecutedOnce`, `TrueAnswers`, `Backstops`:
  `Spec => []P` for the invariants of `money`;
- `BalancesAreSums`, `UpdatesKept`: the committed balance is the sum of the account's
  ledger entries, and the balance in memory differs from it by what is staged;
- `Backstops` is about what lies behind the claim of the key: the unique index of the
  keys itself is how a conflict is noticed (`ClaimKey`);
- `LocksInOrder`, `NoDeadlock`: locks are climbed, hence no circle of waits;
- `ImplementsLedger`: `Spec => LedgerSpec`;
- `HistoryKept`, `LapseIsFinal`, `RequestsOnlyAdvance`, `ErrorsExplained`: the action
  properties;
- `NeverAllWaiting`: while requests are under way, one of them waits for no row.

**The inductive invariant.** No property is inductive alone: that the commit of a
worker is right depends on what it checked several steps ago, and on nobody having
changed it since. `IInv` is `TypeOK`, `BooksInv` (executions, keys, adjustments,
quotes and ledger correspond) and, per worker, `WorkerInv`: at each program point,
which locks it holds, what the checks behind it established (the quote exists and is
unexecuted while its lock is held, the key is free while it is claimed), what it has
staged and how `held` differs from the committed balance. A step of one worker keeps
the others' part because what those depend on is locked by them (`UndisturbedInv`);
`FxExecutionProofs` has one lemma per action.

**Sums.** `BalanceMatchesLedger` adds amounts over a set of entries, with the fold
`MapThenSumSet`. The library's induction over finite sets cannot be used here, so
`TotalOfFold` takes, among the subsets for which the fold is not what it should be, a
smallest one (`SmallestSubset`, by well-foundedness of strict inclusion), and refutes
it. What is used of sums afterwards is `TotalWith`: one more entry adds its amount.
`SumsInv` is `BalanceMatchesLedger` with a finite ledger, without which sums mean nothing;
only `Settle` and `Credit` change either, and by the refinement they are the only
steps that do (`StepKeepsSums`). In memory, a transaction stages at most one entry per
account, so `NoLostUpdate` follows from `IInv`.

**Progress.** `RequestsOnlyAdvance` and `NeverAllWaiting` are what safety can say of
`EveryRequestEnds`: a request has ten steps at most, and the requests under way cannot
all wait. What remains is that the scheduler lets the one that can go on do so, and
that it is not always another one.

**Errors.** `ErrorsExplained` bounds finding 2: an internal error that is no fault of
the system is an amount rounded to zero or a balance beyond its column, and no other
constraint, check or exception of the two handlers can cause one.

**Locks.** `OrderInv` adds which locks a worker has at each point; the wanted lock is
then above all of them (`LocksClimb`). In a set of waiting workers, take the one
waiting for the highest lock: its holder would wait for a higher one
(`ClimbingLocksMakeNoCycle`, by well-foundedness). `RankAssumption` says that currency
codes are ordered and one is last.

**Refinement.** `Commit` maps to `Settle`, `CommitCredit` to `Credit`,
`CreateCustomer` and `CreateQuote` to their counterparts, all other steps to a
stutter.

### FxMetrics

Every step that counts is a step of `FxExecution` (`MeteredImplementsExecution`), so
`IInv` holds. `MetricsInv` adds that a request counts nothing until it commits or ends,
that in the end it has counted one of eight sets of counters (`Tallies`), each at most
once, and that a success belongs to an executed quote and its completed key. The commit
is the only step that counts a success, and at that point the quote is locked and not
executed, so no other request has counted it. This gives `CountersDocumented` and
`SuccessesExecuted`.

### Pricing

`FxPricingTheorems`: `RoundHalfEven` is within half a unit of the exact quotient, and
keeps bounds that are whole numbers; hence selling pays at most the mid rate
(`SellingPaysAtMostMid`), buying costs at least that up to half a unit
(`BuyingCostsAtLeastMid`), and a round trip over one pair gains at most that rounding
(`NoGainFromRoundTrip`), for all rates, scales and spreads. In money: more, or a better
rate, never buys less (`MoreBuysNoLess`); two quotes for the parts of an amount differ
from one for the whole by a cent at most (`SplittingGainsAtMostACent`); and an amount
exchanged there and back grows by no more than three named roundings
(`RoundTripInMoney`). `VanishingQuotients`: exactly what is at most half a unit becomes 0.

### FxRates

For every set of pairs, payloads, refreshers and quoting threads:
`RatesTyped`, `CurrentWhole`, `HistoryWhole`, `QuotesAuditable`, `SpreadsHold`,
`ReadyIsQuotable`, `RefusalsOnRecord`, `OneAnswer` (`Spec => []P` for the invariants of
`rates`), `NoRegression`, and
`ImplementsRateBook`: `Spec => RateBookSpec`.

`IInv` of `FxRatesProofs` has three parts. `RefreshersInv`: exactly the holder of the
advisory lock is between lock and commit, no completed refresh is later than its start
time, its attempt has no row yet, and what it has staged is at most one row per pair, of
its attempt and time. `HistoryInv`: snapshots are whole, one row per pair and refresh.
`BookInv`: the book a quoting thread has loaded is empty or the rows of one completed
refresh; since history only grows (`HistoryGrows`), it remains so while the thread
works on it. `CommitRefresh` maps to `Publish`, `RecordFailure` to `Reject`,
`PriceQuote` to `Price`, all other steps to a stutter.
Three smaller invariants stand beside it. `AuditInv`: a refused attempt is about to be
recorded or is on record, and attempts are unique, so no other refresh touches its row
(`RefusalsOnRecord`; finding 5 is about the failures that are not refusals). `StagedInv`:
what is staged is rounded from the answer in hand, each rate from its own currency
(`OneAnswer`). `PrefixInv`: the staged pairs are the first few canonical ones, hence a
refresh that stores can always store the next one or commit, since the others, without
the lock, have staged nothing (`StoringNeverWaits`); with `RefreshesOnlyAdvance` it is
what safety can say of `EveryRefreshEnds`. `ReadyUnlessVanishing` bounds finding 6: if no
answer holds a rate of at most half a stored unit (`RatesSurviveRounding`), `/readyz`
says fresh only while every two currencies can be priced.
`PayloadsAssumption` says what `fetch` lets through, `RoutesAssumption` that the pairs
connect all currencies through the two pivots.

### FxPool

Every step of the pool is a step of `FxRates` or leaves it unchanged, so
`PooledSpec => Spec` (`PoolImplementsRates`) and `IInv` holds there too. With it,
`PoolInv` (who is between lock and commit is connected; nobody both waits and is
connected) gives `WaitersHoldNothing` and `PoolNeverWedged`: an exhausted pool has a
connected thread; if all of them are stuck, they are refreshes waiting for the advisory
lock, and its holder is connected and is not.

### FxStartup

`CatalogInv`: the catalog is empty or whole, at most one start holds any lock, and until
it commits the tables are as it found them. It gives `SchemaWhole`, `ServedAfterSchema`
and `CollisionsAreHarmless`. `QueueInv`: who waits wants one lock more, and those in
front of it want the same lock and have a part of the same queue in front of them.
Every plan takes its locks upwards in one order of levels (`PlansClimb`), starts
included: `IMMUTABLE_TABLES` happens to be in the order in which requests use the
tables. In a group of sessions that all wait for each other, take those at the highest
level, and of them the one with the shortest queue: whoever blocks it holds its lock,
and waits higher, or is in front of it, with a shorter queue (`QueuesMakeNoCycle`).
That holds for any number of processes and threads.

**Only model-checked.** All liveness (`EveryRequestEnds` twice, `EveryRefreshEnds`,
`EveryQuoteEnds`, `EveryStartEnds`): it rests on fairness, hence on ENABLED, which the
provers do not handle; its safety halves are proved as said above. Every other invariant,
action property and refinement of the passing runs is a theorem, but for that of
`FxHttp`: its requests are independent and its inputs finite, so the run has seen
every request there is.

## 5. Where documents and code differ

1. `rolled_back`: "If any step fails, rollback all balance, execution, and idempotency
   writes" (`SPEC.md:137`). The success log reads rows again after the commit and
   inside the `try`; when that fails the client is told `internal_error` and the money
   has moved.
2. `system_fault`: `execution.failed` is for "true system faults"
   (`executions.py:54-56`). Amounts that round to zero, and overflow of a balance,
   also end there.
3. `replays`: a completed key with the same hash "returns stored response"
   (`SPEC.md:160`). A retry that began before the original committed gets 409.
4. `provider_base`: "every stored pair has the provider's base currency as its base"
   (`rates.py:113`). `fetch` accepts any supported base, and stores its rates as if
   per dollar.
5. `refresh_audit`: "the failed attempt is recorded" (`SPEC.md:83`). An answer that is
   JSON but no object, or a rate of 10^10 or more, escapes both except clauses.
6. `zero_rate`: "Report readiness for quote traffic" (`health.py:21`). A positive rate
   rounded to 0 in its column leaves `/readyz` fresh while quotes that buy its base
   divide by zero.

## 6. Not modelled

- The counters of quotes and refreshes, the histograms, and the text of logs
  (`utils/observability.py`). `fx_stale_rates_total` never moves, because
  `ensure_fresh_rates` has no caller. That the log of a request reads committed rows
  again is modelled.
- Settings and constants: values, taken as constants of the modules.
- `GET .../balances` only reads (its inserts find every row present). The database ping
  of `/readyz` keeps no state.
- Fields and wording of requests and answers; `FxHttp` has whether they are valid.
- The server's thread pool: threads are a fixed set. A request that waits for a thread
  has not begun, and holds nothing.
- Executions and credits in `FxPool`: like quotes they take one connection per
  transaction; what they wait for besides is in `FxExecution`.
- The 28 digits of intermediate Decimals.

The bounds `Attempts`, `MaxQuotes`, `LastInstant`, `Adjustments` and the identities of
rows are finite in every run; the theorems hold for all of their values.
