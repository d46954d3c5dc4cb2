----------------------------- MODULE BronzeIngest -----------------------------
(***************************************************************************)
(* bronze/polymarket/client.py, clob.py and ingest.py, bronze/kalshi/,     *)
(* cli/main.py, core/http.py, core/ecs_guard.py and storage/: how the      *)
(* catalogs (markets, events) and the trades of both platforms get from    *)
(* their APIs into Bronze.  A behaviour is about one stream, a platform    *)
(* and an entity.  A job is one process: `backfill catchup` (with --full   *)
(* or without), `backfill run` or `ingest`.  Steps of a job:               *)
(*                                                                         *)
(*   partition  the latest date partition                  (S3 LIST)       *)
(*   source     its newest manifest's latest_timestamp (S3 LIST, GETs)     *)
(*   page       one page of the answer                   (HTTP GET)        *)
(*   put        one part file                              (S3 PUT)        *)
(*   publish    the manifest                               (S3 PUT)        *)
(*                                                                         *)
(* A version <<r, t>> is what the API says of record r since its change at *)
(* tick t, its updatedAt.  A trade has one version.  Cursors are in        *)
(* seconds: _iso_to_epoch drops the fraction.                              *)
(***************************************************************************)
EXTENDS Integers, FiniteSets

CONSTANTS
  Jobs,          \* processes that may run a command
  Streams,       \* the streams of this instance
  Records,       \* ids of markets, events or trades
  SecondLength,  \* ticks per second
  DayLength,     \* ticks per day
  Horizon,       \* bound: the tick at which a stream's clock stops
  PageSize,      \* page_size
  BatchSize,     \* batch_size
  MaxRetries,    \* RetryConfig.max_retries
  MaxChanges,    \* bound: changes a stream's data and their order go through
  MaxRuns,       \* bound: ingestion runs
  Disturbances,  \* the disturbances this instance admits
  MaxShocks      \* bound: how many of them may happen

Kinds == {"crash", "error", "manual", "overlap", "retry"}

Incremental == {"markets", "events"}

(* _is_date_scoped_entity.                                                 *)
DateScoped == {"trades", "kalshi_trades"}

AllStreams == Incremental \cup DateScoped \cup {"kalshi_markets", "kalshi_events"}

ASSUME BronzeAssumption ==
  /\ Streams \subseteq AllStreams
  /\ Records \subseteq Nat /\ IsFiniteSet(Records)
  /\ SecondLength \in Nat \ {0}
  /\ DayLength \in Nat \ {0}
  /\ Horizon \in [Streams -> Nat]
  /\ PageSize \in Nat \ {0}
  /\ BatchSize \in Nat \ {0}
  /\ MaxRetries \in Nat
  /\ MaxChanges \in [Streams -> Nat]
  /\ MaxRuns \in Nat
  /\ Disturbances \subseteq Kinds
  /\ MaxShocks \in [Streams -> Nat]

VARIABLES
  stream,     \* the stream this behaviour is about
  now,        \* the clock, in ticks
  updated,    \* the API: the tick of each record's last change, or Absent
  changes,    \* changes so far, of a record or of the order of the records
  place,      \* the API: where a record is, or would be, when no order is asked for
  parts,      \* the part files in S3
  manifests,  \* the manifests in S3
  runs,       \* run ids handed out
  job,        \* the local state of each job, its next step included
  shocks,     \* disturbances so far
  slipped,    \* history: records whose last change no cursor can catch
  known,      \* history: what existed at a run's first page and was never moved past it
  due         \* history: days the commands so far have undertaken to store

api == <<now, updated, changes, place>>
bronze == <<parts, manifests, runs>>
history == <<slipped, known, due>>
vars == <<stream, api, bronze, job, shocks, history>>

Absent == -1

NoCursor == -1

NoTick == -1

DayOf(t) == t \div DayLength

Second(t) == t \div SecondLength

(* Bound: commands name days up to today.                                  *)
Days == 0..DayOf(now)

Present == {r \in Records : updated[r] # Absent}

Versions == {<<r, updated[r]>> : r \in Present}

RowsOf(m) ==
  UNION {p.rows : p \in {q \in parts : q.run = m.run /\ q.part < m.files}}

(* The orders an API may list records in.                                  *)
Places == {p \in [Records -> Records] : \A q, r \in Records : p[q] = p[r] => q = r}

(* What Silver can find: the rows of files some manifest lists.            *)
Stored == UNION {RowsOf(m) : m \in manifests}

Partitions == {p.dt : p \in parts} \cup {m.dt : m \in manifests}

(* _find_latest_date_partition: any file makes a partition, the manifest   *)
(* of an empty catalog too.                                                *)
LatestPartition == {d \in Partitions : \A e \in Partitions : e <= d}

IdleJob ==
  [step |-> "idle", command |-> "catchup", dt |-> 0, last |-> 0, since |-> NoCursor,
   all |-> TRUE, run |-> 0, offset |-> 0, attempt |-> 0, batch |-> {}, top |-> NoTick,
   files |-> 0, done |-> FALSE]

Steps == {"idle", "partition", "source", "page", "put", "publish"}

Commands == {"catchup", "full", "backfill", "ingest"}

Disturb(kind) ==
  /\ kind \in Disturbances
  /\ shocks < MaxShocks[stream]
  /\ shocks' = shocks + 1

Calm == UNCHANGED shocks

Init ==
  /\ stream \in Streams
  /\ now = 0
  /\ updated = [r \in Records |-> Absent]
  /\ changes = 0
  /\ place = [r \in Records |-> r]
  /\ parts = {}
  /\ manifests = {}
  /\ runs = 0
  /\ job = [j \in Jobs |-> IdleJob]
  /\ shocks = 0
  /\ slipped = {}
  /\ known = [n \in 1..MaxRuns |-> {}]
  /\ due = {}

(* -------------------------------- the API ------------------------------ *)

Tick ==
  /\ now < Horizon[stream]
  /\ now' = now + 1
  /\ UNCHANGED <<stream, updated, changes, place, bronze, job, shocks, history>>

(* A full snapshot has read past the place of record r in the catalog.     *)
ReadPast(j, r) ==
  /\ job[j].step \in {"page", "put", "publish"}
  /\ job[j].since = NoCursor
  /\ \/ job[j].done
     \/ Cardinality({q \in Present : place[q] < place[r]}) < job[j].offset

(* Some run has seen a change of the present second, or a manifest has it  *)
(* as its cursor.                                                          *)
SecondTaken ==
  \/ \E m \in manifests : m.cursor = Second(now)
  \/ \E j \in Jobs : job[j].top # NoTick /\ Second(job[j].top) = Second(now)

(* A record appears or changes; a trade only appears.                      *)
Change(r) ==
  /\ changes < MaxChanges[stream]
  /\ stream \in DateScoped => updated[r] = Absent
  /\ updated' = [updated EXCEPT ![r] = now]
  /\ changes' = changes + 1
  /\ slipped' = IF SecondTaken \/ \E j \in Jobs : ReadPast(j, r)
                THEN slipped \cup {r} ELSE slipped \ {r}
  /\ UNCHANGED <<stream, now, place, bronze, job, shocks, known, due>>

(* What a query selects: a day's trades, or everything.                    *)
Answer(r) == {v \in Versions : r.all \/ DayOf(v[2]) = r.dt}

(* The order of the answer when the API has its records in the order p.    *)
(* Catalogs are asked for in no order.  Trades come the newest first, and  *)
(* so does a catalog asked with order=updatedAt and ascending=false; the   *)
(* order of equals is the API's.                                           *)
Before(p, r, v, w) ==
  IF stream \notin DateScoped /\ r.since = NoCursor
  THEN p[v[1]] < p[w[1]]
  ELSE v[2] > w[2] \/ (v[2] = w[2] /\ p[v[1]] < p[w[1]])

Position(p, r, v) == Cardinality({w \in Answer(r) : Before(p, r, w, v)})

(* The records that run r has yet to read, and passes over when the API    *)
(* goes over to the order p.                                               *)
Jumped(p, r) ==
  {q \in Present :
     LET v == <<q, updated[q]>>
     IN  /\ ~r.done
         /\ r.offset <= Position(place, r, v)
         /\ Position(p, r, v) < r.offset}

(* Gamma promises no order it was not asked for, and may answer the next   *)
(* page in another one.  The cursors of CLOB and Kalshi keep theirs.       *)
Rearrange ==
  /\ stream \in Incremental
  /\ changes < MaxChanges[stream]
  /\ changes' = changes + 1
  /\ \E p \in Places \ {place} :
       /\ place' = p
       /\ slipped' = slipped \cup UNION {Jumped(p, job[j]) : j \in Jobs}
       /\ known' = [n \in 1..MaxRuns |->
                      known[n] \ UNION {Jumped(p, job[j]) : j \in {i \in Jobs : job[i].run = n}}]
  /\ UNCHANGED <<stream, now, updated, bronze, job, shocks, due>>

(* ------------------------------- commands ------------------------------ *)

(* One call of _ingest_one: a run id of its own.                           *)
Ingest(command, dt, last, since, all) ==
  [step |-> "page", command |-> command, dt |-> dt, last |-> last, since |-> since,
   all |-> all, run |-> runs + 1, offset |-> 0, attempt |-> 0, batch |-> {},
   top |-> NoTick, files |-> 0, done |-> FALSE]

Undertake(days) == due' = due \cup days

Begin(j, run) ==
  /\ runs < MaxRuns
  /\ runs' = runs + 1
  /\ job' = [job EXCEPT ![j] = run]

(* _run_backfill for a catalog: one full fetch, into today's partition.    *)
Snapshot(command) == Ingest(command, DayOf(now), DayOf(now), NoCursor, TRUE)

Stop(j) ==
  /\ job' = [job EXCEPT ![j] = IdleJob]
  /\ UNCHANGED <<runs, due>>

Others(j) == {i \in Jobs \ {j} : job[i].step # "idle"}

(* should_skip_concurrent: a task that sees another one exits.  Outside    *)
(* ECS, without the option or after an error it goes on.                   *)
Guard(j) == IF Others(j) = {} THEN Calm ELSE Disturb("overlap")

StartCatchup(j, command) ==
  /\ job[j].step = "idle"
  /\ Guard(j)
  /\ job' = [job EXCEPT ![j] = [IdleJob EXCEPT !.step = "partition", !.command = command,
                                              !.last = DayOf(now)]]
  /\ UNCHANGED <<stream, api, bronze, history>>

(* MissingDays that takes the first missing day for stored.                *)
MissingDaysAfter(latest, today) == {d \in Days : latest + 1 < d /\ d <= today}

(* The days after the latest partition up to today.                        *)
MissingDays(latest, today) == {d \in Days : latest < d /\ d <= today}

(* backfill catchup, date-scoped: go on after the latest date partition,   *)
(* whatever it holds.                                                      *)
CatchupDays(j) ==
  /\ job[j].step = "partition"
  /\ stream \in DateScoped
  /\ \/ LatestPartition = {} /\ Stop(j)
     \/ \E latest \in LatestPartition :
          LET today == job[j].last
              days == MissingDays(latest, today)
          IN  \/ days = {} /\ Stop(j)
              \/ \E d \in days :
                   /\ \A e \in days : d <= e
                   /\ Begin(j, Ingest("catchup", d, today, NoCursor, FALSE))
                   /\ Undertake({e \in Days : latest < e /\ e <= today})
  /\ UNCHANGED <<stream, api, parts, manifests, shocks, slipped, known>>

(* backfill catchup --full of a catalog: nothing when there is no earlier  *)
(* partition, or when today's exists.                                      *)
CatchupFull(j) ==
  /\ job[j].step = "partition"
  /\ stream \notin DateScoped
  /\ job[j].command = "full"
  /\ IF LatestPartition = {} \/ LatestPartition = {job[j].last}
     THEN Stop(j)
     ELSE Begin(j, Snapshot("full")) /\ UNCHANGED due
  /\ UNCHANGED <<stream, api, parts, manifests, shocks, slipped, known>>

(* backfill catchup of a catalog: from the latest partition's cursor, or a *)
(* full snapshot when there is no partition.                               *)
CatchupCatalog(j) ==
  /\ job[j].step = "partition"
  /\ stream \notin DateScoped
  /\ job[j].command = "catchup"
  /\ \/ /\ LatestPartition = {}
        /\ Begin(j, Snapshot("catchup"))
     \/ \E latest \in LatestPartition :
          /\ job' = [job EXCEPT ![j].step = "source", ![j].dt = latest]
          /\ UNCHANGED runs
  /\ UNCHANGED <<stream, api, parts, manifests, shocks, history>>

(* find_latest_manifest_source: the newest manifest of a partition.        *)
NewestIn(dt) ==
  {m \in manifests : m.dt = dt /\ \A n \in manifests : n.dt = dt => n.at <= m.at}

(* The cursor of that manifest.  Without a manifest or a cursor, as        *)
(* Kalshi's have none, a full snapshot.                                    *)
FindSource(j) ==
  /\ job[j].step = "source"
  /\ \/ /\ \A m \in NewestIn(job[j].dt) : m.cursor = NoCursor
        /\ Begin(j, Snapshot("catchup"))
     \/ \E m \in NewestIn(job[j].dt) :
          /\ m.cursor # NoCursor
          /\ Begin(j, Ingest("catchup", job[j].last, job[j].last, m.cursor, TRUE))
  /\ UNCHANGED <<stream, api, parts, manifests, shocks, history>>

(* A command an operator gives: the first one, or a later one.             *)
ByHand == IF runs = 0 THEN Calm ELSE Disturb("manual")

(* backfill run: a range of days, or one full fetch of a catalog.          *)
BackfillRun(j, from, last) ==
  /\ job[j].step = "idle"
  /\ from <= last
  /\ ByHand
  /\ \/ /\ stream \in DateScoped
        /\ Begin(j, Ingest("backfill", from, last, NoCursor, FALSE))
        /\ Undertake(from..last)
     \/ /\ stream \notin DateScoped
        /\ Begin(j, Snapshot("backfill"))
        /\ UNCHANGED due
  /\ UNCHANGED <<stream, api, parts, manifests, slipped, known>>

FullIngest(j, dt) == Begin(j, Ingest("ingest", dt, dt, NoCursor, TRUE))

(* ingest polymarket-markets and polymarket-events: a full snapshot into   *)
(* the partition --dt names.                                               *)
IngestPolymarketCatalog(j, dt) == stream \in Incremental /\ FullIngest(j, dt)

(* ingest kalshi-markets and kalshi-events, the same.                      *)
IngestKalshiCatalog(j, dt) ==
  stream \in {"kalshi_markets", "kalshi_events"} /\ FullIngest(j, dt)

(* ingest kalshi-trades without --min-ts and --max-ts: all trades there    *)
(* are, into the partition --dt names.                                     *)
IngestKalshiTrades(j, dt) == stream = "kalshi_trades" /\ FullIngest(j, dt)

IngestCommand(j, dt) ==
  /\ job[j].step = "idle"
  /\ ByHand
  /\ IngestPolymarketCatalog(j, dt) \/ IngestKalshiCatalog(j, dt) \/ IngestKalshiTrades(j, dt)
  /\ UNCHANGED <<stream, api, parts, manifests, history>>

(* ------------------------------- fetching ------------------------------ *)

Page(r) ==
  {v \in Answer(r) :
     r.offset <= Position(place, r, v) /\ Position(place, r, v) < r.offset + PageSize}

Latest(top, rows) ==
  LET ticks == {v[2] : v \in rows} \cup {top}
  IN  CHOOSE t \in ticks : \A u \in ticks : u <= t

(* The run r after it has taken in rows.                                   *)
Fetched(r, rows, done, step) ==
  [step |-> step, command |-> r.command, dt |-> r.dt, last |-> r.last, since |-> r.since,
   all |-> r.all, run |-> r.run, offset |-> r.offset + PageSize, attempt |-> 0,
   batch |-> r.batch \cup rows, top |-> Latest(r.top, rows), files |-> r.files, done |-> done]

(* Before the first page: what exists then a snapshot must contain, and a  *)
(* day that is not over then is not stored for good.                       *)
FirstLook(r) ==
  IF r.offset = 0 /\ r.attempt = 0
  THEN /\ known' = [known EXCEPT ![r.run] = Present]
       /\ due' = IF stream \in DateScoped /\ DayOf(now) <= r.dt THEN due \ {r.dt} ELSE due
  ELSE UNCHANGED <<known, due>>

(* The answer has moved on under a delta: changes that came to its front   *)
(* after the pages before, of the second that this page makes the newest   *)
(* the run has seen, and so its cursor.                                    *)
Overtaken(r, rows) ==
  {q \in Present :
     /\ r.since # NoCursor
     /\ Position(place, r, <<q, updated[q]>>) < r.offset
     /\ Latest(r.top, rows) # r.top
     /\ Second(updated[q]) = Second(Latest(r.top, rows))}

Take(j, rows, done, step) ==
  /\ job[j].step = "page"
  /\ FirstLook(job[j])
  /\ job' = [job EXCEPT ![j] = Fetched(job[j], rows, done, step)]
  /\ slipped' = slipped \cup Overtaken(job[j], rows)
  /\ UNCHANGED <<stream, api, bronze, shocks>>

(* StreamStep that forgets what is left after the last page.               *)
StreamStepWithoutRest(batch, done) ==
  IF Cardinality(batch) >= BatchSize THEN "put" ELSE IF done THEN "publish" ELSE "page"

(* A batch is written when it is full, and what is left at the end.        *)
StreamStep(batch, done) ==
  IF Cardinality(batch) >= BatchSize \/ (done /\ batch # {}) THEN "put"
  ELSE IF done THEN "publish" ELSE "page"

(* A full snapshot from Gamma: pages by offset until one is not full.      *)
StreamPage(j) ==
  LET page == Page(job[j])
      done == Cardinality(page) < PageSize
  IN  /\ job[j].since = NoCursor
      /\ Take(j, page, done, StreamStep(job[j].batch \cup page, done))

StreamMarkets(j) == stream = "markets" /\ StreamPage(j)

StreamEvents(j) == stream = "events" /\ StreamPage(j)

(* updatedAt > since_updated_at as strings: of one second, the one that    *)
(* has a fraction is the smaller ("." < "Z").                              *)
NewerThan(r, v) == Second(v[2]) > r.since

(* An incremental fetch: the newest first, until a page has an older one.  *)
IncrementalPage(j) ==
  LET page == Page(job[j])
      new == {v \in page : NewerThan(job[j], v)}
      done == page = {} \/ new # page
  IN  /\ job[j].since # NoCursor
      /\ Take(j, new, done, IF done THEN "put" ELSE "page")

FetchMarketsIncremental(j) == stream = "markets" /\ IncrementalPage(j)

FetchEventsIncremental(j) == stream = "events" /\ IncrementalPage(j)

(* The answer has no next cursor, or is empty: nothing is left after it.   *)
LastPage(r) == r.offset + PageSize >= Cardinality(Answer(r))

(* Pages by cursor until there is none.                                    *)
CursorPage(j) ==
  Take(j, Page(job[j]), LastPage(job[j]), IF LastPage(job[j]) THEN "put" ELSE "page")

FetchClobTrades(j) == stream = "trades" /\ CursorPage(j)

FetchKalshiTrades(j) == stream = "kalshi_trades" /\ CursorPage(j)

FetchKalshiMarkets(j) == stream = "kalshi_markets" /\ CursorPage(j)

FetchKalshiEvents(j) == stream = "kalshi_events" /\ CursorPage(j)

(* HttpClient.request: a retryable answer, and another attempt after a     *)
(* pause.                                                                  *)
Retry(j) ==
  /\ job[j].step = "page"
  /\ job[j].attempt < MaxRetries
  /\ Disturb("retry")
  /\ FirstLook(job[j])
  /\ job' = [job EXCEPT ![j].attempt = @ + 1]
  /\ UNCHANGED <<stream, api, bronze, slipped>>

(* ------------------------------- storing ------------------------------- *)

PartOf(r) == [run |-> r.run, dt |-> r.dt, part |-> r.files, rows |-> r.batch]

(* upload_jsonl.                                                           *)
UploadPart(j) ==
  /\ job[j].step = "put"
  /\ parts' = parts \cup {PartOf(job[j])}
  /\ job' = [job EXCEPT ![j] =
               [job[j] EXCEPT !.batch = {}, !.files = @ + 1,
                              !.step = IF job[j].done THEN "publish" ELSE "page"]]
  /\ UNCHANGED <<stream, api, manifests, runs, shocks, history>>

(* CursorOf by the clock instead of the data.                              *)
CursorNow(r) == IF stream \in Incremental THEN Second(now) ELSE NoCursor

(* latest_timestamp: the second of the latest change fetched; when nothing *)
(* changed the old cursor.  Only Polymarket's catalogs have one.           *)
CursorOf(r) ==
  IF stream \notin Incremental THEN NoCursor
  ELSE IF r.top = NoTick THEN r.since
  ELSE Second(r.top)

ManifestOf(r) ==
  [run |-> r.run, dt |-> r.dt, at |-> Cardinality(manifests) + 1, files |-> r.files,
   kind |-> IF r.since = NoCursor THEN "snapshot" ELSE "delta", cursor |-> CursorOf(r)]

(* What follows a day, stored or failed: the next day, or the end.         *)
NextDay(j) ==
  LET r == job[j]
  IN  IF r.dt < r.last
      THEN Begin(j, Ingest(r.command, r.dt + 1, r.last, NoCursor, FALSE))
      ELSE job' = [job EXCEPT ![j] = IdleJob] /\ UNCHANGED runs

(* upload_manifest.                                                        *)
Publish(j) ==
  /\ job[j].step = "publish"
  /\ manifests' = manifests \cup {ManifestOf(job[j])}
  /\ NextDay(j)
  /\ UNCHANGED <<stream, api, parts, shocks, history>>

IngestMarkets(j) == stream = "markets" /\ (UploadPart(j) \/ Publish(j))

IngestEvents(j) == stream = "events" /\ (UploadPart(j) \/ Publish(j))

IngestTradesClob(j) == stream = "trades" /\ (UploadPart(j) \/ Publish(j))

IngestTradesKalshi(j) == stream = "kalshi_trades" /\ (UploadPart(j) \/ Publish(j))

IngestMarketsKalshi(j) == stream = "kalshi_markets" /\ (UploadPart(j) \/ Publish(j))

IngestEventsKalshi(j) == stream = "kalshi_events" /\ (UploadPart(j) \/ Publish(j))

(* ------------------------------- failures ------------------------------ *)

(* A call raises, HTTP ones after all retries: _run_backfill notes the day *)
(* as failed and goes on with the next; the others end.                    *)
Fail(j) ==
  /\ job[j].step # "idle"
  /\ Disturb("error")
  /\ IF job[j].step \in {"page", "put", "publish"}
     THEN NextDay(j) /\ due' = due \ {job[j].dt}
     ELSE Stop(j)
  /\ UNCHANGED <<stream, api, parts, manifests, slipped, known>>

(* The process dies: what it had undertaken from this day on is not done.  *)
Crash(j) ==
  /\ job[j].step # "idle"
  /\ Disturb("crash")
  /\ job' = [job EXCEPT ![j] = IdleJob]
  /\ due' = IF job[j].step \in {"page", "put", "publish"}
            THEN due \ (job[j].dt..job[j].last) ELSE due
  /\ UNCHANGED <<stream, api, bronze, slipped, known>>

Command(j) ==
  \/ \E c \in {"catchup", "full"} : StartCatchup(j, c)
  \/ \E from, last \in Days : BackfillRun(j, from, last)
  \/ \E dt \in Days : IngestCommand(j, dt)

Plan(j) ==
  CatchupDays(j) \/ CatchupFull(j) \/ CatchupCatalog(j) \/ FindSource(j)

Fetch(j) ==
  \/ StreamMarkets(j) \/ StreamEvents(j)
  \/ FetchMarketsIncremental(j) \/ FetchEventsIncremental(j)
  \/ FetchClobTrades(j) \/ FetchKalshiTrades(j)
  \/ FetchKalshiMarkets(j) \/ FetchKalshiEvents(j)
  \/ Retry(j)

Store(j) ==
  \/ IngestMarkets(j) \/ IngestEvents(j) \/ IngestTradesClob(j)
  \/ IngestTradesKalshi(j) \/ IngestMarketsKalshi(j) \/ IngestEventsKalshi(j)

Next ==
  \/ Tick
  \/ \E r \in Records : Change(r)
  \/ Rearrange
  \/ \E j \in Jobs : Command(j) \/ Plan(j) \/ Fetch(j) \/ Store(j) \/ Fail(j) \/ Crash(j)

Spec == Init /\ [][Next]_vars

(* ------------------------------ properties ----------------------------- *)

VersionSet == Records \X Nat

PartRecord == [run : Nat, dt : Nat, part : Nat, rows : SUBSET VersionSet]

ManifestRecord ==
  [run : Nat, dt : Nat, at : Nat, files : Nat, kind : {"snapshot", "delta"}, cursor : Int]

JobRecord ==
  [step : Steps, command : Commands, dt : Nat, last : Nat, since : Int, all : BOOLEAN,
   run : Nat, offset : Nat, attempt : 0..MaxRetries, batch : SUBSET VersionSet,
   top : Int, files : Nat, done : BOOLEAN]

(* The state is well typed.                                                *)
TypeOK ==
  /\ stream \in Streams
  /\ now \in Nat
  /\ updated \in [Records -> Nat \cup {Absent}]
  /\ changes \in Nat
  /\ place \in Places
  /\ parts \subseteq PartRecord
  /\ manifests \subseteq ManifestRecord
  /\ runs \in 0..MaxRuns
  /\ job \in [Jobs -> JobRecord]
  /\ shocks \in 0..MaxShocks[stream]
  /\ slipped \subseteq Records
  /\ known \in [1..MaxRuns -> SUBSET Records]
  /\ due \subseteq Int

(* What the next catch-up will not ask for again is stored: every change   *)
(* up to the cursor of the newest manifest, in spite of crashes, failed    *)
(* calls and overlapping runs, except a change in a second some run had    *)
(* already seen, one behind the back of a running snapshot, one that came  *)
(* to the front of a delta whose later pages end in the same second, and   *)
(* one of a record that the API moved, between two pages, from the pages a *)
(* run had yet to read to those it had read.                               *)
CursorCovers ==
  \A d \in LatestPartition : \A m \in NewestIn(d) : \A r \in Present \ slipped :
    Second(updated[r]) <= m.cursor => <<r, updated[r]>> \in Stored

(* A snapshot lists every record that existed when it began, whatever      *)
(* appears and changes between its pages, except what the API, asked for   *)
(* no order, moved from the pages it had yet to read to those it had read: *)
(* Silver drops what was before a snapshot.                                *)
SnapshotComplete ==
  stream \notin DateScoped =>
    \A m \in manifests :
      m.kind = "snapshot" => known[m.run] \subseteq {v[1] : v \in RowsOf(m)}

(* Day d is stored once no job has it before it.                           *)
Passed(d) ==
  /\ \E latest \in LatestPartition : d <= latest
  /\ \A j \in Jobs : job[j].step \in {"page", "put", "publish"} => d \notin job[j].dt..job[j].last

(* The trades of a day before the latest partition are stored when a run   *)
(* undertook that day, unless the run died or failed on it, or had read    *)
(* it before it was over: no catch-up comes back to it.                    *)
DayComplete ==
  stream \in DateScoped =>
    \A r \in Present :
      (DayOf(updated[r]) \in due /\ Passed(DayOf(updated[r]))) => <<r, updated[r]>> \in Stored
=============================================================================
