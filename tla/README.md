# Verification of the prediction-market data platform

TLA+ models, TLC runs and TLAPS proofs for `predmkts_backend`: a pipeline that
takes prediction-market data from public APIs into S3 (Bronze), from there into
Iceberg tables (Silver), and from there into wallet positions, ledgers and
metrics in ClickHouse (Gold), with a FastAPI service on top.

Paths below are relative to `src/prediction_data/` unless they start otherwise.

Contents

1. The system: components, state, operations, interaction
2. The modules
3. Bronze: `OrderFilledIngest`
4. Bronze: `BronzeIngest`
5. Silver: `SilverCatchup`
6. Silver: `SilverTables`, and Gold's dimensions on top of it: `GoldDimensions`
7. Gold: `GoldTradeProcessor`, `TradeSettlement`
8. The position engine: `PositionAccounting`, `PositionFills`
9. Gold: `GoldDaily`
10. The API's proxy: `PolymarketProxy`, `CircuitBreaker`
11. The API's account tables: `AccountTables`
12. The disturbances the properties except, and known divergences
13. Runs and bounds
14. Fairness
15. Theorems
16. What is abstracted and what is not modelled
17. Plan

## 1. The system

No process of the pipeline is long-lived; only the API is. Every component is a batch command,
started by EventBridge as an ECS task or by an operator, that reads what an
earlier one left in S3, Iceberg or ClickHouse, does a number of storage calls
one after the other, and exits. There is no lock and no transaction across two
of those calls. What makes the system correct is the order of the calls, what is
logged when, and what the next run concludes from what the last one left. That
is what the models are about.

| Component | State it keeps | Operations | What makes it correct |
|---|---|---|---|
| Bronze ingestion (`bronze/`, `storage/`, `cli/main.py`) | part files and manifests in S3, under date partitions; the newest manifest is the cursor | `backfill run`, `backfill catchup`, `ingest` | a manifest lists only files that exist; no event between two stored ones is missing; what is stored twice is bounded; what a cursor passes over is stored; a snapshot of a catalog is complete; every event arrives in the end |
| Silver processing (`silver/`, `cli/silver.py`) | Iceberg tables; `processed.jsonl`, the log of processed manifests | `process`, `catchup`, `init`, `compact`, `expire`, `maintenance` | a logged manifest is in the table; no file is in it twice; the log is not lost; every manifest is processed in the end |
| Silver records (`normalize`, `dedup`, `quality`) | none | normalize, deduplicate, check one file | one record per key, the latest one; a file that fails a check is not written |
| Silver tables (`silver/writer.py`, `tables.py`, `maintenance.py`) | Iceberg snapshots, data files in S3 | append, merge, overwrite, compact, deduplicate, expire snapshots, remove orphans | a table's files exist; no rewrite loses or doubles a row, however writers and maintenance overlap |
| Gold dimensions (`gold/dimensions.py`) | `dim_*` in ClickHouse | `load-dims`, streaming or not | the latest version of every id; counts without double counting |
| Gold trade processor (`gold/trade_processor.py` and what it calls) | S3 ledger partitions, ClickHouse ledger and `wallet_position_state`, a log of processed days | `process-trades` | every trade is in the positions exactly once; no update is lost; the ledger is one chain per position |
| Position engine (`gold/accounting.py`) | one position | `apply_fill` | no money made or lost, cost basis of the present position only |
| Gold metrics (`wallet_mtm`, `wallet_pnl`, `wallet_position_snapshot`, `market_marks`, `on_demand`, `ch_loader`) | metrics tables per day | `daily-run`, `ch-load`, on-demand snapshots | a day's metrics are of that day's positions; replaying the ledger gives the positions |
| Gold operations (`gold/ops_metadata.py`) | pipeline runs, freshness | record a run, check freshness | a failed run shows |
| API, proxy (`api/polymarket_proxy/`, `api/clob_client.py`) | circuit breakers, caches, time of the last request, in one event loop | proxied GETs | a failing API is not hammered; cached answers are no older than promised; the rate limit holds |
| API, accounts (`api/tracked_traders`, `watchlist`, `tag_templates`, `auth`) | PostgreSQL rows | CRUD in one transaction per request | limits, uniqueness, one default template |
| API, queries (`api/markets`, `events`, `traders`, `trades`) | none | SELECTs | - |
| Core (`core/`) | none | HTTP retries, ECS guard, logs | overlapping tasks are avoided, not excluded |
| Web frontend (`web/`) | - | presentation | - |

How they interact:

    Goldsky, Gamma, Kalshi --(HTTP)--> Bronze --(S3 part files, manifests)--> Silver
      Silver --(Iceberg tables)--> Gold trade processor
        Gold trade processor --(S3 ledger partition)--> ch-load --> ClickHouse
        Gold trade processor --(positions, ledger)--> ClickHouse --> daily tables, API
      Silver --(markets, events, trades)--> dimensions in ClickHouse
      daily tables --(an S3 partition per table and day, then an insertion)--> ClickHouse
    EventBridge: order-filled catch-up every 5 minutes, Silver trades every 10,
      Silver catalog every 30, Gold daily

The hard behaviours:

* **Crashes between two storage calls.** Each pair of adjacent calls is a place
  where a task can be killed, and the next run sees a state nobody designed.
* **Errors taken for absence.** Several reads answer "nothing there" when the
  GET failed, and what follows writes that conclusion back.
* **Overlap.** `--skip-if-concurrent` lists the running sibling tasks and then
  proceeds; two tasks that start together both may, and on any error it proceeds.
* **Order.** Trades arrive after their day was processed, manifests after a
  later date was, days are backfilled after newer ones; ReplacingMergeTree keeps
  the row with the greatest `last_fill_ts`, not the one inserted last.
* **Cursors.** Where a run goes on is inferred from the newest file of the
  latest date partition.
* **Optimistic commits.** Two writers of an Iceberg table both upload files, and one of
  them cannot commit; a removal of orphans looks at S3 meanwhile.
* **Delete, then put, then insert.** Gold replaces a partition in two S3 calls and tells
  ClickHouse in a third; a command over several days and tables does so many times.
* **Pages of moving data.** A catalog is read page by page while its records change,
  appear and move to the front, or anywhere, where no order is asked for.
* **Coroutines.** The API handles its requests in one event loop; they share
  circuit breakers, a cache and the time of the last request, and interleave at
  every `await`.
* **Transactions that check and then write.** Requests of one user overlap, and each
  checks its limits and duplicates against what the others have committed so far.

PROJECT.json lists every component, modelled or not, and every hazard at its line.

## 2. The modules

| Module | Models | Used by |
|---|---|---|
| `OrderFilledIngest` | the OrderFilled branch of Bronze: `backfill run`, `backfill catchup` | `MCOrderFilledIngest`, `OrderFilledIngest_proofs` |
| `BronzeIngest` | the other branches: catalogs and trades of both platforms, with their commands, the HTTP retries and the ECS guard | `MCBronzeIngest`, `BronzeIngest_proofs` |
| `SilverCatchup` | `silver catchup`, `silver process` | `MCSilverCatchup`, `SilverCatchup_proofs` |
| `SilverTables` | one Iceberg table: what a part file becomes, the writer's three modes, maintenance | `GoldDimensions`, `GoldDimensions_proofs` |
| `GoldDimensions` | the dimension loads, composed with the table they read | `MCSilverTables`, `GoldDimensions_proofs` |
| `PositionAccounting` | `PositionState.apply_fill`: pure operators | `PositionFills`, `GoldTradeProcessor` |
| `PositionFills` | one position under any sequence of fills | `MCPositionFills`, `GoldTradeProcessor_proofs` |
| `GoldTradeProcessor` | `gold process-trades` and what ClickHouse makes of its inserts | `MCGoldTradeProcessor`, `GoldTradeProcessor_proofs` |
| `TradeSettlement` | abstract: what the trade processor promises | instantiated by `GoldTradeProcessor` |
| `GoldDaily` | the daily tables: marks, PnL, valuations and snapshots in S3 and ClickHouse, with all commands that write them | `MCGoldDaily`, `GoldDaily_proofs` |
| `PolymarketProxy` | `PolymarketProxyClient.get_clob`, `get_data`, `get_gamma` | `MCPolymarketProxy`, `PolymarketProxy_proofs` |
| `CircuitBreaker` | abstract: what a circuit breaker promises | instantiated by `PolymarketProxy` |
| `AccountTables` | the transactions of tracked traders, watchlist, tag templates and registration | `MCAccountTables`, `AccountTables_proofs` |
| `*_proofs` | the theorems of section 15 | |

The pipeline modules have one shape. The storage is a few variables; `Jobs`
are processes that may run the command; a job has a next step and a record of its
local variables; every storage call is one action, and what a job does in memory
between two calls is part of the action of one of them. What the program has no
control over (crashes, failed calls, late data, overlapping runs, operators who
force a run) is an action or an alternative of its own, admitted by the constant
`Disturbances`. A history variable `events` remembers which kinds of them have
happened, so that a property can say exactly which ones it survives:
`Without({"crash"}) => ...` reads "unless a run has died so far". A disturbance
that is not named in such a premise may happen and the property still holds.

Definitions such as `SelectAll` or `AppendAlways`, whose comments say what
they forget or do wrong, are not part of any `Next`. They are plausible slips in
the code; each property is tested against one of them, and TLC must refute it.

## 3. Bronze: `OrderFilledIngest`

**State.** `parts`: the part files, keyed as in S3 by run, day and part number.
`manifests`: one per run and day, overwritten after each batch. `job`: cursor,
end, buffer of events fetched and not yet written, the batch being written, the
number of files and the latest timestamp of each day of this run. `indexed`: how
much of the feed the subgraph answers queries from.

**Actions.** `StartCatchup` and `StartBackfill` are the commands of `cli/main.py`.
`FindPartition` and `FindSource` are the two halves of
`find_latest_manifest_source`: the latest date partition (a LIST of prefixes,
which any part file creates), then its newest manifest by `generated_at`.
`FetchPage` is one GraphQL query above the cursor with `iter_order_filled_batches`
up to its next `yield`. `UploadPart` and `UploadManifest` are the two PUTs for one
day of a batch in `ingest_order_filled_incremental`; a batch that spans days is
written day by day. `Fail` is a call that raises: `_run_backfill` notes it and goes
on with the next day. `Crash` ends the process. `Index` is the subgraph taking in
the next block.

**Properties.**

* `ListedFilesExist`: every file a manifest lists exists.
* `PartsKept`: no part file is ever overwritten. Two runs share partitions, so this
  depends on the run id and on how the part numbers are counted.
* `NoHoles`: an event between two listed ones is listed, in spite of crashes,
  overlapping runs, failed catch-ups and repairs. It depends on the order in which
  the days of a batch are written.
* `TwiceOnlyAtCursor`: what is listed twice has the timestamp at which some
  manifest ends.
* `EventuallyIngested` (under fairness): every event after a listed one is listed.

## 4. Bronze: `BronzeIngest`

**State.** `updated` is what the API would say: the tick at which each record last
changed (a trade appears once), `place` the order in which it lists records when it is asked for
none. `parts` and `manifests` are S3. `job` is one run of
`_ingest_one` with its page offset, batch and files. A behaviour is about one
`stream`: markets, events or trades, of either platform.

**Actions.** `StartCatchup` (with the ECS guard), then `CatchupDays` for trades (the days
after the latest partition), `CatchupFull`, or `CatchupCatalog` and `FindSource` (the cursor of the
newest manifest); `BackfillRun` and the six `ingest` commands. A page is one of eight
actions named after the client's methods: full snapshots go by offset until a short page,
incremental fetches go from the newest change back to an older one than the cursor, the others
follow the API's cursor. `Retry` is an attempt that is made again, `UploadPart` and `Publish`
are the PUTs. `Tick`, `Change` and `Rearrange` are the API: records change and appear between any
two pages, and Gamma may list them in another order. A full snapshot sends a limit and an offset
and no order (`bronze/polymarket/client.py:141-148`, 262-269), so its answer is in whatever order
`place` has at that moment (`Before`); an incremental fetch asks for `updatedAt`, descending, and
`place` only orders the records of one tick.

**Properties.**

* `CursorCovers`: whatever changed up to the cursor of the newest manifest is stored, so that
  the next catch-up, which asks for later changes only, misses nothing. The exceptions are
  what no order of calls could save: a change within the second some run has already seen
  (the cursor has no fraction), one behind the back of a running snapshot, one that comes
  to the front of a delta that is being read, in the second of the newest change its next page
  shows it (`Overtaken`), and one of a record that the API, listing in another order, moves from
  a page a run has yet to read to one it has read (`Jumped`). All of these are `slipped`.
* `SnapshotComplete`: a snapshot lists every record that existed when it began, whatever changes
  or appears between its pages, but for those that jumped (`known` loses them). Silver drops
  everything before the latest snapshot.
* `DayComplete`: the trades of a day that a run undertook are stored, once a later partition
  or the run's end keeps any catch-up from coming back to it, unless the run died or failed on
  that day, or read it before it was over.

## 5. Silver: `SilverCatchup`

**State.** `bronze`: how many files each run's manifest lists and when it was last
written. `state_log`: `processed.jsonl`. `silver`: how often each part file has been
written to the table. `job`: the loaded log, the dates still to be listed, the
manifests found, the queue, the file at hand, what the job has read and written of
it, and the copy of the log it is about to write back.

**Actions.** `Start` (both commands with their flags), `Load`
(`SilverStateStore.load`), `ListDates` and `ListManifests` (`discover_manifests`),
`Select` (the log filter, then `select_manifests_for_day`), `Take`, and per part file
one of `WriteFile`, `SkipUnread`, `SkipRefused`, `FailWrite`
(`process_manifest_chunked`), then `EndManifest` and `MarkGet`, `MarkPut`
(`mark_processed`, a read-modify-write of one S3 object). `Upload` is Bronze, at
any time, writing a manifest for the first time or again with more files.

**Properties.**

* `MarkedMeansStored`: the log is honest. What it says is processed is in the table,
  could not be read, or was refused by a check.
* `NoFileTwice`: no part file is in the table twice. Overlapping runs are excepted, and an
  append after a crash, a failed write, an unread log or a forced run; a table that is only
  written to with `--merge` or `--overwrite` has no file twice, not even then. (`events`
  remembers the commands, too: `Without({"catchup", "append"})`.)
* `MarksKept`: the log only grows.
* `EventuallyStored` (under fairness): every published manifest is stored or
  superseded in the end.

## 6. Silver: `SilverTables`, and Gold's dimensions on top of it: `GoldDimensions`

`SilverCatchup` counts files; `SilverTables` looks into them. A behaviour is about one
table: a part file has records with an id and a time, some of them undated, some
two versions of one id.

**State.** `stored`: the data files in S3. `current` and `snapshots`: the metadata the
catalog points to. `job`: a writer or a maintenance run with the snapshot it has loaded, the
files it is about to add and drop, and the partitions and operations it has left.

**Actions.** What a part file becomes (`DedupBatch`, `NormalizeBatch`, `PassesQuality`) are operators.
`WriteToIceberg`, `MergeToIceberg` and `OverwriteToIceberg` upload files; `Commit` succeeds when
the table is still the snapshot that was loaded, `LoseCommit` otherwise, and nobody tries
again. Maintenance is `StartCompact` or `StartDedup`, `CompactPartition`, `DedupPartition` or
`SkipPartition` for each partition with a `Refresh` in between, `ExpireSnapshots`, `ListOrphans` and
one deletion per file. `Crash` leaves uploaded files that no snapshot has. `NextDay` is the clock
that the ages of files and snapshots are measured with.

`GoldDimensions` EXTENDS it with a load of a dimension (`market`, `outcome`, `event`, `category`,
`wallet`): `StartLoad` pins the current snapshot, the streaming loaders take its files in any
order and insert as they go or count, the others read everything first. Between two batches
the table is written to, compacted, and its orphans are removed.

**Properties.**

* `CurrentReadable`: every file of the current snapshot is in S3. The removal of orphans compares
  S3 with one snapshot while other jobs have uploaded files that are in none; what protects
  them is their age alone ("slow" is a job that takes longer).
* `NewestStored`: of every id in a committed part file the table holds that version or a later
  one, whatever rewrites, appends and merges commit in between, or do not.
* `RowsOnce`: no row is in two files. A rewrite that lost the race leaves nothing.
* `DimensionLatest`: after a load, a dimension shows every id (and every outcome) of the load in a
  version as late as any the load has read, through later loads that die half-way. The streaming
  loaders, the default, keep this only where the table has one version of the id; and an outcome
  that a later version of its market no longer has is promised nothing (`load_dim_outcome` never
  deletes one).
* `CountsRight`: the counts of categories and wallets are those of the snapshot that was read.

## 7. Gold: `GoldTradeProcessor` and `TradeSettlement`

**State.** `silver`: the trades that have reached Silver. `processed`: the log of
processed days in S3. `partition`: the S3 ledger file of each day. `ledger`: the
ClickHouse ledger in insertion order. `position_state`: the rows of
`wallet_position_state` as `FINAL` shows them, with `Survivor` for what
`ReplacingMergeTree(last_fill_ts)` does and `Expire` for the TTL. `commits` is
history: in how many position inserts each trade was included.

**Actions.** `Start` with a range of days, then for each day `SkipDay`, `PassCheck`
or `CheckFails` (the idempotency check), `ReadNothing` or `Read`, `Load`, `Apply` per
trade or `Raise`, `DeletePartition`, `PutPartition`, `InsertLedger`,
`InsertPositions`, `MarkGet`, `MarkPut`.

**Properties.**

* `NoTradeTwice` and `NoTradeMissed`: exactly once, with the disturbances each side
  survives. `NoTradeMissed` survives everything but late trades: nothing is logged
  before its trades are in the positions. `NoTradeTwice` does not survive a crash,
  because nothing is logged atomically with them.
* `NoUpdateLost`: stored quantities are the sums of what was inserted.
* `LedgerChains`, `PositionsMatchLedger`: the ledger is one history per position, and
  the positions are where it ends.
* `PartitionComplete`: the S3 partition of a logged day holds all its trades.
* `LogKept`: the log of processed days only grows.

**Refinement.** `TradeSettlement` is what the processor promises, with two
variables: `balance`, a quantity per key, and `settled`, a set of trades. Its one action
settles a whole day's batch at once, after all earlier days. `GoldTradeProcessor`
implements it with `balance <- position_state[k].qty` and
`settled <- {t : commits[t] > 0}`, as long as nothing but late trades disturbs it
(`SettlesInOrder`: the next step of the abstract specification, or a stutter, unless
some other kind of disturbance has happened by the end of the step, which may be the
one that brings it about). All steps but `InsertPositions` stutter, the TTL that drops
a closed position among them: a key without a row has quantity 0.

## 8. The position engine: `PositionAccounting` and `PositionFills`

`PositionAccounting` is `gold/accounting.py` with money as exact fractions: an
average cost is a quotient, so `<<n, d>>` stands for n / d. `PositionFills` offers any
fills to one position and keeps the cash they moved, the PnL reported and what
belongs to the present position ("era"): `AccountingIdentity` (PnL = cash + fees of
opening fills + cost of what is held), `CostWithinEra` (no price of a closed
position leaks into the cost of a new one), `OpenedSince` (`first_open_ts` is the
moment the position took its present direction). The run tries every sequence of four fills;
`GoldTradeProcessor_proofs`, which has the theorems of both modules, proves the three for any
number of fills, quantities, prices and fees.

## 9. Gold: `GoldDaily`

**State.** The inputs: the trades that have arrived in Silver, those that `process-trades` has
settled (here in one step, day by day), how often ClickHouse has the ledger of a day, which
insertions of positions it has merged (`merged`), the watched wallets. `s3` maps each of the four tables to its partitions, `ch` to what ClickHouse
shows of each day. `job` is a command with the tasks it has left (a table and a day each) and
the rows it is about to write. A fill is one change of one position; a row says which fills,
positions and marks it was made of, by number or by value.

**Actions.** `DailyRun`, `ComputeMarks`, `ComputePnl`, `ComputeMtm`, `ComputePositionSnapshot`,
`ComputeWalletMetrics`, `Rebuild` with and without `--force`, `ComputeSnapshot` with and without
`--skip-ch`, `ChLoad` and `LoadMarksCh` start a command. A task is computed in one step
(`ComputeMarketMarks`, `ComputeWalletPnl`, `ComputeWalletMtm`, `ComputeWalletPositionSnapshot`; `Plan`
for all days of a snapshot command), or skipped (`SkipExisting`, `NoWatchlist`, `PassOver`), then
`Delete`, `Put` and `Insert`. `LoadRead` and `LoadLedger` are `ch-load`, which inserts the ledger
again into a table that replaces nothing. `Fail` is an exception, which the command notes
and passes over, or the end of the process.

What a valuation reads is not what a position is. `wallet_position_state` replaces the rows of a
position when parts are merged, and `_read_positions_for_wallets` selects `qty != 0` without
`FINAL` (`gold/wallet_mtm.py:70-74`, `gold/wallet_position_snapshot.py:73-77`). So `OpenPositions`
has every row of a position that no `Merge` has taken away: `Written` are the days whose run
inserted one (all positions, closed ones too), `Kept` those whose row is still there. And marks
are stored under the trade's `nonusdc_side` (`gold/market_marks.py:119`), positions under
`{market_id}_{0|1}` (`gold/fill_splitter.py:57`), so `MarkOf` looks up a mark under an id
(`OutcomeId`) that none has. An outcome of the model is a market and a `nonusdc_side`.

**Properties.**

* `PartitionsKept`: a partition once written is there, whatever is recomputed, except between a
  deletion and its put, and after a process ended there ("lost").
* `MirrorAgrees`: ClickHouse shows of every wallet what S3 says, once the commands have ended, if
  none failed, overlapped or left the insertion out.
* `RowsOfTheirDay`: a partition that was computed while positions, ledger and fills were
  those of its day holds the marks and the PnL of its day and no others, and of a wallet it
  values every position open after that day, with its quantity; whatever else it counts is a
  position the wallet had at the end of an earlier day. When it was computed in time, is a history
  variable (`timely`): the code reads positions as they are now, whatever day it is asked for.
  Its part about snapshots is `SnapshotsOfTheirDay`, which `compute-snapshot` violates by
  itself when some days exist already: see section 12.
* `ExistingKept`: `rebuild` without `--force` and `compute-snapshot` change no partition that
  exists, whoever wrote it.

## 10. The API's proxy: `PolymarketProxy` and `CircuitBreaker`

**State.** `circuit`, `cache` and what is left of its clock times: `cooldown` of
`recovery_timeout` since the last failure, `gap` of the interval since the last
request, `left` of the lifetime and the stale period of a cache entry. `request` holds
the coroutines: idle, `pacing` (asleep in `_rate_limit`), `sent` (awaiting the
response), `backoff` (asleep before the next attempt). Everything between two of
these is one step, as the in-memory cache never suspends. `healthy` is the upstream
API: while it is healthy it neither fails nor throttles. The rest is history.

**Actions.** `Hit`, `Refuse` (circuit open) and `Miss` begin a call; `Wake`, `Retry`;
a response is an `Answer`, a `Reject` (a 4xx, or a 429 to the last attempt, both of which
the circuit counts as a success), a `Throttle` (429) or a `Fail` (5xx, timeout, connection);
`Tick` is time, `Change` the API breaking down or recovering.

**Properties.**

* `ActsAsBreaker`: `PolymarketProxy` implements `CircuitBreaker` with
  `state <- circuit.state`, where the abstract breaker counts every answer and failure
  of whatever request in the order they come back: it opens after `FailureThreshold`
  failures in a row, or any failure while half-open, half-opens only after a full
  cooldown without a failure, and closes only after `HalfOpenCalls` answers in a row.
  What makes this hard is the late answers: of requests sent before the circuit opened,
  and of any number of test calls at once.
* `NoNewLoad`: while the circuit is open, no request joins the ones that were running.
  Those do not stop: the retry loop never asks the circuit again.
* `Spaced`: attempts leave an interval apart, except those that paced while another paced
  or left. The exception is what the code's read, sleep, write of the time allows.
* `CacheKeepsUp`: answers overtake each other, but what the cache hands out was asked for at
  most one timeout before anything a caller was given.
* `RequestsEnd`, `CircuitRecovers` (under fairness): every request ends; once the API is
  healthy for good, the circuit closes.

## 11. The API's account tables: `AccountTables`

**State.** `rows` counts the committed rows of each list with each key (users by email,
tracked traders by address, watched markets); `name` and `defaults` are the committed
templates of a user. `request` is where each request is in its transaction, `unset` what
it has unset and not committed. The rest is history: how many requests added or set a
default at once (`adders`, `setters`), whether the last change to the default was to set
one (`wanted`), and whether a request took it away for a template that was gone (`robbed`).

**Actions.** A request is a session of `db/session.py`, one transaction that
PostgreSQL runs READ COMMITTED; every statement is an action, and so are `Commit` and
`Rollback`. `CountTracked`, `CheckTracked`, `Insert` are the three statements of
`add_tracked`; `register` and `add_market_to_watchlist` have two. `CreateTemplate` and
`UpdateTemplate` begin with the check for the name or the template (`CheckName` is the
second check of an update that renames); `FindDefaults` and `UnsetDefaults` are the one
UPDATE of `unset_default_template`, which sees what is committed when it begins, waits for
the rows it found and then looks at those again; `InsertTemplate` and `WriteTemplate`
follow. What waits is a disabled action: a writer waits for the transactions that hold its
rows, or its value of a unique column. A violated unique constraint ends the transaction.

**Properties.**

* `UniqueKeys`: nothing is there twice. The checks for duplicates cannot see to that; the
  constraints do.
* `LimitOverrun`: the tier limit holds for one request at a time, and is exceeded by at most
  the number of further requests that were adding at once.
* `DefaultsBounded`: there are no more default templates than requests set one at once:
  earlier defaults are always found.
* `DefaultKept`: changing the default does not lose it, except for an update that finds its
  template deleted.

## 12. The disturbances the properties except, and known divergences

A premise `Without(kinds)` is a statement about the code: without it, TLC finds a
counterexample. One of them needs no disturbance at all, only commands that are meant to be
given, and has a run of its own (`expect: violation`):

| Run | The code | What the repository says |
|---|---|---|
| `gold_replay` | `compute_wallet_snapshots` replays the ledger for the days whose partition is missing (`gold/on_demand.py:202`). The fills of a day in between whose partition exists are read and never applied, so the snapshots of the days after it show the positions before these fills, and are not computed again, as they exist from then on. The check for existing partitions does not look at the wallet, so a daily run or another wallet is enough to make such a gap. | `on_demand.py:4`: "replays fills from wallet_position_ledger to rebuild the position state at each day boundary" |

In the run, one process computes the snapshot of the second of three days, then those of all
three. In `RowsOfTheirDay` the event "gap" excepts it.

Others that the models contain and a premise excepts, or that no property speaks of:

* **A retry applies fills again.** A run that dies between `write_position_states`
  (`gold/trade_processor.py:286`) and `_mark_processed` (299) leaves the day unlogged; the retry
  loads positions that already contain it and applies its fills again, while line 15 says
  "Position state uses ReplacingMergeTree (idempotent upsert)" ("crash" in `NoTradeTwice`).
* **A catch-up that never resumes.** A run that dies between the first part file of a new day
  and its manifest leaves a date partition without a manifest. `find_latest_manifest_source`
  (`storage/discovery.py:159`) looks at the latest partition only, so this and every later
  order-filled catch-up is skipped until that day is backfilled, while the comment at
  `bronze/polymarket/ingest.py:642` says "if the process dies, the next catchup resumes from the
  last flushed batch". (`EventuallyIngested` speaks of events after which another one is
  listed only.)
* **Forced runs double.** `--force-reprocess` of `process-trades` applies a day to
  positions that contain it ("force" in `NoTradeTwice`). In Silver it appends, while
  `docs/silver-operations-runbook.md:83` says "Because Silver uses upsert (not append),
  reprocessing is safe".
* **An unreadable file is passed over.** `silver/processor.py:378` promises "ProcessingError: On
  read, normalization, or write failure", but a file that cannot be read is only counted
  (450-453), and its manifest is logged and never read again ("unread" in
  `MarkedMeansStored`).
* **Errors read as an empty log.** `_load_processed_dates` (`trade_processor.py:105`),
  `_mark_processed` (138) and `SilverStateStore` (`silver/state.py:98`, 151) take any
  error of the GET for "no log", and the two marks write the shortened log back
  ("getError" in `LogKept`, `MarksKept`); the Silver runbook (109) calls the log
  append-only.
* **Older days lose.** A backfilled older day inserts rows with an older version than
  the stored row, and loses for those keys which a newer day has touched, and only for
  those ("backfill" in `NoUpdateLost`).
* **TTL.** The 90-day TTL of `wallet_position_state` drops open positions; the next
  sell is then booked as a short ("expire" in `NoUpdateLost`).
* **A quality check fails one file.** Its file is passed over and the manifest is
  logged ("refused" in `MarkedMeansStored`); the runbook (147) says the first failure
  aborts the manifest.
* **Superseded deltas come back.** The snapshot selection runs on what the log filter
  leaves (`cli/silver.py:633`), so a delta that a snapshot superseded in one run is
  selected by the next, in which that snapshot is filtered out; compare
  `silver/discovery.py:273` and runbook 130. `NoFileTwice` still holds: it is processed
  once.
* **`--overwrite`** overwrites once per manifest (`cli/silver.py:404`).
* **Growing manifests.** Bronze writes a manifest after each batch; a Silver run may log
  it after the first ("growing" in `MarkedMeansStored`). The rest is never read.
* **One timestamp over two pages.** The next page starts above the last timestamp of the
  page before (`goldsky.py:286`); further events of that timestamp are skipped
  (`CutOff`). The catch-up that asks for the timestamp again fetches them, but only when
  it is the last one.
* **The last 429 is a success.** A 429 to the last attempt falls through to
  `record_success` and surfaces as an `HTTPStatusError`; the comment
  (`api/polymarket_proxy/client.py:753`) says "will be raised below", and the docstring
  promises an `UpstreamRateLimitError`. That error is raised only if a 5xx follows a 429.
* **`half_open_max_calls`** is described as "Test calls in half-open state"
  (`client.py:59`) and only counts successes; any number of calls pass (line 105).
* **Stale answers are not revalidated.** A stale entry is returned like a fresh one, and no
  request refreshes it until its stale period is over; the class promises
  "stale-while-revalidate" (`client.py:380`). After an error, the fallback can only find
  what another request has stored meanwhile.
* **Races show as errors.** When two requests add the same email, address, market or template
  name, the unique constraint stops the second one, and as nothing handles its
  `IntegrityError` the answer is not the 400 the endpoints document
  (`api/tracked_traders/router.py:126`). The tier limit has no constraint at all; it is 6
  for the free tier (`service.py:23`), and 5 in the documentation (`router.py:125`).
* **Several defaults.** "any existing default template will be unset"
  (`api/tag_templates/router.py:83`) holds for those that are committed when the UPDATE
  begins (`DefaultsBounded`).
* **A 404 that changes something.** `update_template` commits before it finds that its
  template is gone (161-164): the answer is 404, and the former default is unset (`robbed`).
* **A backfill goes on after a failed day** (`cli/main.py:411`), and the catch-up then
  starts from the latest day ("error" in `NoHoles`). The date-scoped catch-up of trades does so,
  too, even if that partition holds a part of the day (778; `due` in `DayComplete`).
* **Changes of one second.** The cursor of a catalog has no fraction, and the next fetch asks
  for later ones: a change within a second some run has seen is not fetched, nor is one
  that lands behind the pages a snapshot has read (`slipped` in `CursorCovers`).
* **Schedules without `--dt`.** `infrastructure/eventbridge-schedules.yaml:211`, 248, 285 and 322
  start `ingest` commands without the `--dt` they require.
* **Undated rows.** A deduplication that meets an undated row before a dated one of the same
  id compares None with a timestamp and ends (`silver/maintenance.py:454`; `Incomparable`).
* **Duplicates in other partitions** survive `compact --dedup`, which works on one at a time.
* **Two versions in one part file** make the uniqueness check refuse it whole, unless they have
  the same time; two fills of one transaction with the same parties and asset are one to the
  deduplication, and the first copy of a record is the one that stays, though it may be the one
  that does not normalize (`Shadowed` in `NewestStored`).
* **An older file, merged later, wins** (`cli/silver.py:633`; "older" in `NewestStored`).
* **Orphans.** `remove_orphans` compares with the current snapshot (`silver/maintenance.py:733`),
  so it also deletes files that only retained older snapshots refer to.
* **Dimensions show the row inserted last**, not the latest one (`Doubtful` in `DimensionLatest`),
  and outcomes that a market no longer has stay;
  the comment in `silver/processor.py` that leaves duplicates to Gold's read-time
  deduplication holds for the loaders that are not streaming. A category without events
  keeps its last count.
* **No order, moving pages.** `bronze/polymarket/README.md:159` says "Use
  `order=id&ascending=false` for consistent pagination"; the full snapshots ask for no order
  (`bronze/polymarket/client.py:141-148`, 262-269). A record that the API lists earlier than
  before, between two pages, is in no page and in no later delta (`Jumped`).
* **Superseded positions are valued.** The runbook (132) says to query `wallet_position_state` "with
  `FINAL` to get latest state", and `position_state.py:90` relies on `WHERE qty != 0` to leave out closed
  positions. Without `FINAL`, a valuation or snapshot that runs before the parts are merged reads
  earlier rows beside the current one, and the open rows of a position that is closed. Hence
  `RowsOfTheirDay` promises every open position, and of the rest only that it was one.
* **Marks and positions never meet.** Their outcome ids differ (`market_marks.py:119`,
  `fill_splitter.py:57`), so the lookups at `wallet_mtm.py:146`, `wallet_position_snapshot.py:138` and of
  the replay find nothing. A valuation then only counts its positions as missing marks; a nightly
  snapshot has no rows, though "For each active watchlist wallet and each open position" it
  "creates a daily snapshot row" (`wallet_position_snapshot.py:3`); a replayed one has no prices.
  The empty partition of a nightly snapshot exists, so `compute-snapshot` passes over its day
  (`on_demand.py:63-85`).
* **Positions as they are now.** `compute-wallet-metrics` and `rebuild` of a past day value it by
  the present positions, which `docs/gold-operations-runbook.md:242` admits; the run that computes
  the marks of a day does not give them to ClickHouse before it values the day
  (`daily-run` has no client for `compute_market_marks`, `compute-marks` has).
* **The ledger twice.** The nightly `ch-load --all` (`eventbridge-gold-schedules.yaml:245`)
  inserts `wallet_position_ledger` again into a MergeTree; a PnL that is computed later counts
  its rows twice. The runbook (64) does not list this table among those that can be loaded.
* **A rebuilt PnL of a day that is older than the ledger's 30 days** is empty ("expire").
* **A daily run replaces a snapshot partition** that `compute-snapshot` wrote for a wallet that is
  not watched; ClickHouse goes on showing it (`MirrorAgrees` says that ClickHouse shows what S3
  has, not the converse).
* **Errors read as missing.** A failed head_object makes `rebuild` replace what exists
  (`cli/gold.py:1058`), and `ch-load` pass over it ("error").

## 13. Runs and bounds

| Run | Instance | Shows |
|---|---|---|
| `order_filled` | 2 jobs (symmetric), 5 events over 2 days, two of them at one time, pages of 2, batches of 3, any 2 of the 7 kinds of disturbance; 649 000 states | the four safety properties of section 3 |
| `order_filled_fair` | 1 job, 6 events over 3 days, crashes, errors, late events, any 2; 54 000 states | `EventuallyIngested` |
| `bronze_ingest` | 2 jobs (symmetric), six streams, 2 records, pages of 1, batches of 2, 2 runs. Markets change up to 4 times, undisturbed; events 3 times, with any one of the 5 kinds; the other streams twice, trades over two days, an order changed counting as a change; 4.22 million states | section 4 |
| `silver_catchup` | 2 jobs (symmetric), 2 manifests, 3 files, 2 days, `catchup`, `--merge` and `--overwrite`, any 2 of the 10 kinds; 6.69 million states | the three safety properties of section 5 |
| `silver_fair` | 1 job, a catalog entity: a delta on day 1, a snapshot and a delta on day 2, any 2 of 6 kinds; 192 000 states | `EventuallyStored` |
| `silver_tables` | 2 jobs (symmetric), 3 tables, five dimensions, 6 records in up to 3 part files, 2 days, 3 uploads (2 to markets), one load (two of markets and outcomes), one run of all four operations after another, any one of the kinds of its table; 915 000 states | section 6 |
| `position_fills` | up to 4 fills of 1 or 3 units at prices 1, 2, 4, fees 0 or 1, refused quantity -1, equal and increasing timestamps; 212 000 states | section 8's three invariants |
| `gold_disturbed` | 2 jobs (symmetric), 2 runs, 2 days, 3 trades (a flip, one refused by `apply_fill`), TTL 0, all 7 kinds of disturbance, any number of them; 1.35 million states | seven properties of section 7, the refinement of `TradeSettlement` among them |
| `gold_daily` | 2 jobs (symmetric), 2 wallets, 2 outcomes, 4 fills over 2 days, all 7 kinds of command, 2 of them, merges of the first day's positions at any time, any one of 8 kinds of disturbance; 1.33 million states | section 9 |
| `gold_replay` | 1 job, 3 days, one position changed on the second, `compute-snapshot` twice | violation of `SnapshotsOfTheirDay` |
| `polymarket_proxy` | 2 requests, 2 keys in a cache of 2, thresholds and attempts 2, recovery after 2 ticks, all other times 1; 199 000 states | five properties of section 10 |
| `account_tables` | 2 requests, 2 keys, limit 1, 3 templates, 3 names (all symmetric), any number of requests one after the other; 598 000 states | four properties of section 11 |

Why these are enough. Two jobs are what an interleaving of read-modify-write needs,
and no code compares more than two. Two days (three where a range must pass a gap or
the calendar must overtake a partition) are what the order of days needs. Batches are
larger than pages, and a day has fewer events than a batch, so batches span days, pages
end inside a timestamp and the rest after the last page is not a full batch. Two
disturbances are a fault and the fault of its repair; where a third matters, the
theorems cover any number. In the three largest instances one disturbance stands beside the
races of two processes, which need none.

In `bronze_ingest` a page holds one record, so that everything can happen between two records; a
second is one tick, in which records change any number of times, and a day two, so that changes
of one second and of different ones, before and after midnight, occur (what happens inside a
second that two ticks would tell apart is left to the theorems, which hold for every
`SecondLength`). Polymarket's two catalogs are fetched by the same code; the markets change most
often, so that the cursor of a delta can be in the second of a change that has overtaken its
pages, and the events have the disturbances.

In `silver_tables` a file is an orphan from the next day on and a snapshot expires as fast; two
part files of an id with a third in between are what a lost or a doubled row needs; three
uploads are two writers and a rewrite, or one writer and two rewrites, two are two writers; the
second load of markets and outcomes is what can spoil what the first has shown. A table has the
kinds of disturbance that can spoil its rows or loads: crashes and repeated files for events,
older files too for markets, which are merged as well as appended, and `--overwrite`, a slow
job and failed deletions for trades. The theorems have all kinds on all tables, any number of
times. `gold_daily` has a
position that is opened and closed, one that stays open and one of an unwatched wallet; two
commands are a write and its repetition, a load, or a race. Ranges of three days appear in
`gold_replay` only, and trades of one timestamp in `order_filled` only.

In the proxy two requests can overtake, crowd and fail each other's test calls; every
threshold is 2, so that "one of several" exists; and one tick per lifetime lets every
timer run out before and after every other. Ages and the failures of the circuit are
counted up to the bound beyond which nothing depends on them (`MaxAge`,
`FailureThreshold`).

Two requests are what a check and a write of another need, three templates are two defaults
and a third. The lists and the templates share no row, so a behaviour of `account_tables`
uses one of the tables at a time (`OneTable`).

Bounds that are part of the models: `MaxRuns`, `MaxCommands`, `MaxLoads` (what is started),
`MaxWrites` (uploads), `LastDay`, `Horizon` (the calendar), `MaxSpan` (days of a range),
`MaxFills`, `MaxChanges`, `MaxCopies` (of a ledger row), `MaxShocks` (disturbances), and a
finite feed. In `OrderFilledIngest` a
catch-up that has nothing new to fetch writes the last event again; the number of such
runs is bounded as the disturbance "redundant".

`CHECK_DEADLOCK FALSE` stands where the bounded system ends: the Gold runs and `silver_tables`
once the calendar, the feed and the commands are used up, `position_fills` after its last fill, and
the Bronze runs when nothing is new and the runs are used up. In `SilverCatchup`, jobs
can always be started again, and deadlock is checked, as it is for the proxy
and the account tables.

## 14. Fairness

`FairSpec` of `OrderFilledIngest` and of `SilverCatchup` is weak fairness of a job's own
steps (a process that is not killed goes on) and of the scheduled start of the
catch-up: EventBridge starts them every 5 and every 10 or 30 minutes
(`infrastructure/eventbridge-schedules.yaml`, `eventbridge-silver-schedules.yaml`). No
fairness is assumed of operators (`backfill run`, `silver process`), of Bronze or the
subgraph, nor that a failed call succeeds when repeated: failures are bounded by
`MaxShocks` instead, so that they stop. In `PolymarketProxy`, time passes, the event
loop resumes each coroutine that is ready, an attempt is answered or times out (httpx
has a timeout), and callers keep calling: without a call nothing half-opens a circuit.
Nothing is assumed of the API. The Gold processor has no liveness property: its
schedule runs `daily-run`, which skips the trades unless told otherwise. Nor have the daily
tables, whose commands note a failure and go on, nor `BronzeIngest`: a day of trades that
failed is never asked for again, and what a cursor passes over is the question there.

## 15. Theorems

All proofs are checked by TLAPS for every value of the constants that satisfies the named
assumptions (`IngestAssumption`, `SilverAssumption`, `GoldAssumption`, `ProxyAssumption`,
`TablesAssumption`, `BronzeAssumption`, `GoldDailyAssumption`, `FillAssumption`,
`SilverTablesAssumption`, `DimensionsAssumption`: types of the
constants, finite sets, a feed ordered by time, positive sizes): any number of jobs, runs,
days, files, records, wallets, fills and trades. That the trades, fills and records are finitely
many (`IsFiniteSet(Feed)`, `IsFiniteSet(Fills)`, `IsFiniteSet(DOMAIN Bronze)`) is what gives sums and
counts a value and an id a latest version.

| Theorem | States | Argument |
|---|---|---|
| `GoldTradeProcessor_proofs!TypeCorrect` | `[]TypeOK` | inductive by itself, with `ApplyFillType` |
| `...!NothingMissed` | `[]NoTradeMissed` | `MissedInv`: a job's batch contains every trade of its day, once past the insert the batch is in the positions, and every day in a job's copy of the log is covered. Needed because the log is written from a copy read earlier. |
| `...!NothingTwice` | `[]NoTradeTwice` | `TwiceInv`: while undisturbed only one job is active (`SingleJob`), its copy of the log contains the log (`LogCopy`), its batch is of its day (`OwnDay`), a job before its insert works on a day nothing of which is in the positions (`FreshDay`), and what is in the positions is logged or about to be (`CommitsLogged`) |
| `...!LogIsKept` | `LogKept` | from `LogCopy` |
| `...!UpdatesAreKept` | `[]NoUpdateLost` | `UpdateInv`: a batch is worked through in the order of time (`Worked`); the version of a row is the time of a trade that is in the positions or applied (`Stamped`); while the property is not excepted, the day of a job is the newest in the positions, and its batch has all of that day that is there already (`Newest`); and the book of a job is what is stored plus what its applied trades move, with the version of the last of them where it differs (`BookAhead`). So of two rows of a key `ReplacingMergeTree` keeps the job's, and the insert adds the sum of the batch. |
| `...!ImplementsSettlement` | `SettlesInOrder` | the initial states map to initial ones; by `TwiceInv` and `UpdateInv`, `InsertPositions` is `Settle` of the job's batch (`InsertSettles`), and every other step leaves quantities and settled trades alone (`OthersStutter`) |
| `...!PartitionsAreComplete` | `[]PartitionComplete` | `PartitionInv`, on `MissedInv`: the rows of a job, and then the partition it has put, have a row of every applied trade (`RowsOfBatch`); a job logs its own day and what is logged already, and works on a logged day only if forced or if it could not read the log (`LogAdds`) |
| `...!LedgerIsOneHistory`, `...!PositionsAreWhereLedgerEnds` | `[]LedgerChains`, `[]PositionsMatchLedger` | `LedgerInv`: `Leads(s, p, q)` says that rows `s` lead every key from its quantity in `p` to the one in `q`, a chain with both ends. A job's rows lead from the stored positions to its book, the ledger from nothing to the stored positions or, between the two inserts, to that book. Rows that lead on from where others ended lead all the way (`LeadsOn`). |
| `...!ApplyFillMoves` | every branch of `apply_fill` moves the quantity by exactly the signed fill | case split on the branches |
| `...!FillsTypeCorrect` | `[]FillsTypeOK` of `PositionFills` | `ApplyFillType` and `Denominators`; a fraction has lowest terms (`LowestIs`, from a largest common divisor) |
| `...!MoneyIsKept` | `[]AccountingIdentity` | a fill opens or adds (`Grows`), closes a part or all (`Shrinks`) or turns the position (`Flips`); for each the identity is an equation between products (`GrowKeeps`, `ShrinkKeeps`, `FlipKeeps`), and an equation about a sum survives its lowest terms (`LowestSum`) |
| `...!CostIsOfEra` | `[]CostWithinEra` | a weighted mean lies between what it is the mean of (`MeanAbove`, `MeanBelow`) |
| `...!OpeningIsKept` | `[]OpenedSince` | inductive by itself, by the three cases |
| `SilverCatchup_proofs!TypeCorrect` | `[]TypeOK` | with `HeldParts`: what a job holds of a manifest is no more than Bronze has |
| `...!MarksAreHonest` | `[]MarkedMeansStored` | `MarkInv`: the log, every copy of it and every manifest about to be logged are honest, and the files a job has passed are stored, unread or refused. Holds through overlapping runs, as files are never removed without `--overwrite`. |
| `...!NoFileStoredTwice` | `[]NoFileTwice` | two invariants, one for each way the property can hold. Undisturbed: what a job has yet to write is in no log, its copy of the log is the log, and a stored file is logged or of the manifest in hand (`AllFresh`). With `--merge` and `--overwrite` only: once an overwriting run has written its first file, the files still to come are not stored (`AllWiped`). Both need that a job takes a manifest up once and remembers having written only files it is past (`AllTidy`), and that there is one job (`Alone`). |
| `...!LogOnlyGrows` | `MarksKept` | a copy of the log that is about to be written back contains the log |
| `BronzeIngest_proofs!TypeCorrect` | `[]TypeOK` | with `DatedOK`: a process of a date-scoped stream is done exactly when it stores, and has nothing in memory when it publishes |
| `...!DaysAreComplete` | `[]DayComplete` | `DayInv`: a day that is due is over and stored, or some process has it before it. That process has not come to it, has read nothing of it, or has read it after it was over and holds, in part files and memory, all of the answer up to its offset (`Covered`). A trade that appears is of today, so it moves no position in the answer about an earlier day; the last page leaves no position uncovered (`PositionBound`). Needed because `DayComplete` speaks of days that are passed only. |
| `...!CursorsAreHonest`, `...!SnapshotsAreComplete` | `[]CursorCovers`, `[]SnapshotComplete` | `CatalogInv`. Every record has a place in the answer a run reads, the number of records before it. A change moves only the changed record to the front of a delta and no other to an earlier place (`ChangeMovesBack`), so what a run has read past (`Past`) stays past. Another order moves records to earlier places, but those it moves past an offset are slipped and no longer known (`Jumped`, `RearrangeCatalog`). A snapshot has gathered some version of every record it knows and has passed, and the last version of all it has passed but the slipped (`SnapInv`); a delta has every change it has passed from its cursor up to the one it would end with now (`DeltaInv`). Without the exception for what overtakes a delta in the second of its cursor (`Overtaken`) this is not inductive, and `CursorCovers` is false. |
| `OrderFilledIngest_proofs!TypeCorrect` | `[]TypeOK` | |
| `...!ManifestsAreBacked` | `[]ListedFilesExist` | `FileInv`: files and manifests carry run ids handed out (`Named`), two jobs never share one (`RunsApart`), and the parts of a job's run on a day are exactly 1 to its count (`CountsExact`) |
| `...!PartsAreKept` | `PartsKept` | the key of a new part is fresh, by the same invariant |
| `...!BronzeHasNoHoles` | `[]NoHoles` | `SweepInv`: a running job finds listed, or has in hand, every visible event up to its cursor that is not before the first partition (`Sweeps`), and nothing is missing below an event that is stored (`NoneBelow`). A page takes the next events in order and a batch is written day by day from the first, so this holds between any two calls. Before the first partition exists, the first backfill runs alone (`FirstAlone`). `FeedInv` has the rest: files have events of their day, and a manifest ends at an event of a file it lists. |
| `...!TwiceOnlyWhereCatchupResumes` | `[]TwiceOnlyAtCursor` | `TwiceInv`: what others have listed is not later than what a job has in hand or may fetch, and of the same time only where a manifest ends that nobody writes any more (`Follows`, `EndTimes`); a job's own files ascend and have no event in common (`OwnFiles`); the manifests of a day end later and later (`ManifestsGrow`), so the newest one, which a catch-up resumes at, is also the furthest |
| `GoldDimensions_proofs!NoRowTwice` | `[]RowsOnce` | every action of `SilverTables` is one of six moves (`StepMoves`): an upload, a commit, a deletion, the clock, a step after which a job has nothing to commit, or none. `TableInv`: each data file has rows of one day; a job whose base has the number of the current snapshot has its files; no file to be committed shares a row with what the base keeps. A rewrite keeps this as it drops all files of the days it writes (`RewriteIsApart`); a writer as its rows carry a number no row had. |
| `...!SnapshotStaysReadable` | `[]CurrentReadable` | `ReadInv`: while no job was slow, the files to be committed are in S3 and too young to be orphans, and those to be deleted are old and not current. So the two never meet, though the list of orphans is compared with a snapshot that may be gone when the deletions come. |
| `...!NewestIsStored` | `[]NewestStored` | `KeepInv`: what a commit will drop it brings again in a version as late, and what it writes of a part file has a version as late of everything the file owes (`BatchCovers`); then every move keeps every row or one as late (`StepKeepsRows`). `LatestCovers`: among finitely many rows each has one as late that `Latest` keeps. |
| `...!DimensionsAreLatest` | `[]DimensionLatest` | on these, `LoadInv` (one load at a time, of one snapshot's files) and `DimensionInv`: the files a load reads, and the table, have a version as late of all that was read before, and a streaming load that meets one version of each id shows all it has come to. So no batch replaces what is shown by something earlier (`BatchIsLate`). |
| `...!CountsAreRight` | `[]CountsRight` | `CountInv`: what a streaming load has collected is the rows of the files it has come to; the seats of a wallet are those of its makers and of its takers (`SeatsAreCounted`) |
| `GoldDaily_proofs!TypeCorrect` | `[]TypeOK` | with the shape of each task a process has left |
| `...!PartitionsAreKept` | `[]PartitionsKept` | inductive by itself: a process that deletes a partition is the one that puts it next, and whoever ends in between is "lost" |
| `...!ExistingIsKept` | `ExistingKept` | `ShapeInv`: a process that writes one task at a time works on its first one, its rows are of that day, the days of a snapshot command are distinct; `FreshInv`: an unforced rebuild or a snapshot command about to write has only days without a partition |
| `...!ClickHouseMirrors` | `[]MirrorAgrees` | `MirrorInv`: while commands run one at a time, the rows a process still carries are those in S3 or about to be, and every other row of a wallet's partition is shown |
| `...!RowsAreOfTheirDay` | `[]RowsOfTheirDay` | `RightInv`: nothing is settled, or in ClickHouse, of a day that was not processed (`SourceInv`); the timely partitions, and what a process is about to write to its timely days, are what the settled fills make them (`PartsRight`, `JobRight`). They stay so, as every fill settled later is of a later day (`LaterFills`, `StaysRight`). The row of the last fill of an open position is never merged away (`LastRowKept`), and every row that is there is the position after a day that was processed (`ReadRight`). A replay takes a quantity from the last day with a fill (`LastFill`), after which it does not change. |
| `PolymarketProxy_proofs!ActsAsCircuitBreaker` | `ActsAsBreaker`: the client implements `CircuitBreaker` | `CircuitOK`: a closed circuit counts exactly the failures in a row, a half-open one no more answers than came in a row; then each step maps to a step of the abstract breaker or to none |
| `...!TypeCorrect`, `...!NoLoadWhileOpen` | `[]TypeOK`, `[]NoNewLoad` | `ProxyInv`: with the types, a request in `backoff` has an attempt left |
| `...!CacheOvertaken` | `[]CacheKeepsUp` | inductive: an answer is at most a timeout old when it is stored, eviction only takes away (`EvictionDrops`), and time ages both sides alike |
| `...!AttemptsSpaced` | `Spaced` | `PaceInv`: the sleep of a request that paces alone lasts at least as long as the gap |
| `AccountTables_proofs!NoDuplicates`, `...!TypeCorrect` | `[]UniqueKeys`, `[]TypeOK` | `TablesInv`: a request that waits to commit found its row or no row in its way (`Holds`), and no two of them have a row or a name in common (`Apart`). Needed because the uniqueness of what is committed says nothing of what is about to be. |
| `...!KeepsDefault` | `[]DefaultKept` | inductive by itself |
| `...!LimitIsOverrunByAdders` | `[]LimitOverrun` | `LimitInv`: tracked traders and requests that are adding, counted together, are at most `Limit - 1` and `adders` (or 1). `CountTracked` adds a request where there is room for the tracked ones; an insert that commits turns an adding request into at most one tracked trader. |
| `...!DefaultsAreBoundedBySetters` | `[]DefaultsBounded` | `Together`: for any set of defaults and any set of requests setting one that have found or unset none of them, the two sets have at most `setters` members. Needed because the defaults that race are committed at different times; with no requests in the second set it is the property. |

`LogKept`, `NoNewLoad` and the type invariants are proved and not among the properties of a run:
the proof covers every instance.

Sums (`MapThenSumSet` over trades) are recursive functions on finite sets. That they are well
defined, and grow by what is added, is proved from a least counterexample: if a fact fails for
some finite set, it fails for one all of whose subsets have it, and that set cannot exist.
Least and greatest elements of sets of numbers are found in the same way.

Some places of the models are as they are because a proof asked: the finite `Feed`, `Fills` and
`Bronze`; `Overtaken` above; `RowsOfTheirDay` and `CountsRight` as conjunctions of implications. And
three statements about the Silver tables were false beyond the instances they had been checked
on, until the proof said where: `Shadowed` left out a part file whose first copy of a record does
not normalize, or is undated; a merge of a part file out of order brings an older version only if
the table has a newer one, so "older" now follows the versions and "again" the order; and
`DimensionLatest` promised an outcome that a later version of its market no longer has. The instance of `silver_tables`
now appends to markets and loads their outcomes twice, which reaches the last case.

Only model-checked: liveness (`EventuallyIngested`, `EventuallyStored`, `RequestsEnd`,
`CircuitRecovers`: fairness and ENABLED are beyond the prover). All other properties of the
passing runs are theorems as well. The violation that `gold_replay` shows is a behaviour and
needs no proof.

## 16. What is abstracted, what is not modelled

* Floats are exact numbers. Rounding dust that keeps a closed position open
  (`accounting.py:138` compares with 0.0) is outside the models.
* An Iceberg commit, one ClickHouse insert and one S3 PUT are atomic. ClickHouse merges
  are modelled by what `FINAL` shows; where the code reads positions without it, by `Merge` in
  `GoldDaily`.
* S3 LIST and the GETs of the manifests of one date are one step, in Silver and Bronze.
  The subgraph takes in all events of one timestamp at once. Part numbers count from 1.
* Left out: `--dry-run`, a `gold_bucket` of None, credentials, compression, logging.
  `silver catchup --from-date` is `process` with a range up to today.
* The contents of records: normalization, deduplication and the quality checks are, for
  `SilverCatchup`, the outcome of a file.
* The proxy: the Redis backend (whose calls suspend), `skip_cache`, invalidation,
  `health_check` and the router's shaping of answers. Gamma has no rate limit
  (`Interval` 0). Neither a cancelled request is modelled nor a Retry-After that is no number (a
  date), of which `float` makes a `ValueError` that ends the request past the retry loop and
  without telling the circuit (`api/polymarket_proxy/client.py:742`). httpx's timeout bounds each
  phase of an attempt (connection, write, read) and not the whole; `Timeout` is the longest an
  attempt lasts.
* The account tables: a statement that changes several rows, or a row and a unique value,
  gets hold of all of them at once; that PostgreSQL ends a request that waits in a circle is
  a `Rollback`. The PATCH requests of a custom name and of the profile, the tags of
  templates, and what is read from ClickHouse are left out. One user's lists stand for each
  user's.
* `BronzeIngest`: the length of a backoff, the signature of a Kalshi request, the parameters that
  narrow a selection (`--min-ts`, `--status`), the run records. What `closed=true` selects is the
  API's affair; the model takes it as no restriction.
* `SilverTables` and `GoldDimensions`: what Iceberg and pyiceberg do is taken from how the
  writer uses them (append, overwrite, upsert, an optimistic commit). `process_manifest`,
  which writes a whole manifest at once, has no caller in the command line. The static
  platform row and the copies of dimensions in S3 are left out.
* `GoldDaily`: the reads of one metric (ledger, marks, positions) are one step, and so is
  `process-trades`, which `GoldTradeProcessor` has in detail. `--chunk-days`, `--stop-on-error`,
  the liquidity metric, run records and the TTLs of the daily tables and of the positions are left
  out (`GoldTradeProcessor` has the latter). Prices and sums are the fills and positions they are
  made of. Merges join the parts of neighbouring days, in any order.
* Records of freshness, partitions and quality (`ops_metadata`) have no caller outside the
  tests.
* Components that are not modelled, with reasons, are listed in PROJECT.json. In short:
  read-only SQL endpoints, configuration and connection code, presentation, templates
  and schemas have no state of their own to go wrong; the rest is in the plan.

## 17. Plan

Done, in this order: `PositionAccounting`, `PositionFills`, `GoldTradeProcessor`,
`TradeSettlement`; `SilverCatchup`; `OrderFilledIngest`; `CircuitBreaker`,
`PolymarketProxy`; `AccountTables`; their proofs; `BronzeIngest`; `SilverTables`,
`GoldDimensions`; `GoldDaily`; the proofs of `GoldDaily`, `BronzeIngest` and `PositionFills`; the
theorems on every other safety property of the runs, those of `SilverTables` and `GoldDimensions`
last.

Next, in this order:

1. Abstract specifications of the Silver table (a set of versions that only gains, but for
   `--overwrite`) and of the event log that Bronze promises (a prefix of the feed, in order),
   implemented by the modules and proved by refinement from the invariants above.
2. Larger instances: a third process in `gold_daily`, two disturbances in `silver_tables`,
   once the runs leave room for them.

The read endpoints of the API, the frontend, configuration and connection code keep no state
that several steps could bring into disorder; they stay as they are, not modelled.
