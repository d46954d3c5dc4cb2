------------------------- MODULE GoldTradeProcessor -------------------------
(***************************************************************************)
(* gold/trade_processor.py: the batch job that turns a day of Silver       *)
(* trades into ledger rows and positions.  One job is one run of           *)
(* `gold process-trades` over a range of days (process_date_range); its    *)
(* storage calls are separate steps, because a job may die, or another job *)
(* may run, between any two of them:                                       *)
(*                                                                         *)
(*   check  the log of processed days         (S3 GET)                     *)
(*   read   the day's trades                  (Silver scan)                *)
(*   load   the open positions                (ClickHouse SELECT FINAL)    *)
(*   apply  the fills, one trade at a time    (memory only)                *)
(*   delete, put  the ledger partition        (S3 DELETE, S3 PUT)          *)
(*   ledger the same rows                     (ClickHouse INSERT)          *)
(*   state  the positions                     (ClickHouse INSERT)          *)
(*   mark, write  the log of processed days   (S3 GET, S3 PUT)             *)
(*                                                                         *)
(* What the job has no control over is named in Disturbances; `events`     *)
(* remembers which of them happened, so that a property can say exactly    *)
(* which ones it survives.  A definition that says what it forgets or does *)
(* wrong is a slip the properties must refute, never part of Next.         *)
(***************************************************************************)
EXTENDS PositionAccounting, Sequences, FiniteSetsExt

CONSTANTS
  Jobs,          \* processes that may run the command
  Wallets,
  Outcomes,      \* outcome ids (market and side)
  Feed,          \* trades Silver may come to hold
  DayLength,     \* timestamps per day
  LastDay,       \* bound: the calendar stops here
  TTLDays,       \* days ClickHouse keeps a position row after last_fill_ts
  MaxRuns,       \* bound: jobs started
  Disturbances   \* the disturbances this instance admits

Kinds == {"crash", "force", "late", "backfill", "getError", "overlap", "expire"}

DayOf(ts) == ts \div DayLength

Days == 1..LastDay

(* A Silver trade: derive_trade gives the two sides opposite directions,   *)
(* and does not exclude a negative token_amount.                           *)
Trade == [id : Nat, ts : Nat \ {0}, outcome : Outcomes,
          maker : Wallets, taker : Wallets,
          maker_direction : {"buy", "sell"}, qty : Int, price : Nat]

ASSUME GoldAssumption ==
  /\ Feed \subseteq Trade
  /\ IsFiniteSet(Feed)
  /\ DayLength \in Nat \ {0}
  /\ LastDay \in Nat \ {0}
  /\ TTLDays \in Nat
  /\ MaxRuns \in Nat
  /\ Disturbances \subseteq Kinds

VARIABLES
  now,              \* the current day
  silver,           \* trades in Silver
  processed,        \* the S3 log of processed days
  partition,        \* S3 ledger partition of each day
  ledger,           \* ClickHouse wallet_position_ledger, in insertion order
  position_state,   \* ClickHouse wallet_position_state as FINAL shows it
  pc,               \* the next storage call of each job
  job,              \* its local state
  runs,             \* jobs started
  events,           \* history: disturbances that happened
  commits           \* history: position inserts that included each trade

store == <<processed, partition, ledger, position_state>>
vars == <<now, silver, store, pc, job, runs, events, commits>>

Keys == Wallets \X Outcomes

NoFile == <<>>

IdleJob ==
  [day |-> 1, last |-> 0, force |-> FALSE, batch |-> {}, todo |-> {},
   book |-> [k \in Keys |-> EmptyPosition], rows |-> <<>>, log |-> {}]

Steps == {"check", "read", "load", "apply", "delete", "put", "ledger", "state", "mark", "write"}

(* Steps at which the job has read its day and not yet logged it.          *)
Holding == {"load", "apply", "delete", "put", "ledger", "state", "mark", "write"}

Admit(kind) == kind \in Disturbances /\ events' = events \cup {kind}

(* ------------------------------- fills -------------------------------- *)

Opposite(direction) == IF direction = "buy" THEN "sell" ELSE "buy"

(* split_trade_to_fills: both sides get the same quantity and price, and   *)
(* no fees.                                                                *)
MakerFill(t) == [key |-> <<t.maker, t.outcome>>, side |-> t.maker_direction]
TakerFill(t) == [key |-> <<t.taker, t.outcome>>, side |-> Opposite(t.maker_direction)]

FillOf(book, t, f) == ApplyFill(book[f.key], f.side, t.qty, t.price, 0, t.ts)

BookAfter(book, t, f) == [book EXCEPT ![f.key] = FillOf(book, t, f).position]

LedgerRow(book, t, f) ==
  [trade |-> t, key |-> f.key,
   qty_before |-> book[f.key].qty,
   qty_after |-> FillOf(book, t, f).position.qty,
   pnl |-> FillOf(book, t, f).realized_pnl]

(* The order of trades_to_fills: by timestamp, and for equal timestamps    *)
(* any scan order, the two fills of a trade side by side.                  *)
Earliest(trades) == {t \in trades : \A u \in trades : t.ts <= u.ts}

TradesOf(trades, day) == {t \in trades : DayOf(t.ts) = day}

(* ----------------------------- ClickHouse ----------------------------- *)

(* OpenPositions that forgets the short ones.                              *)
LongPositions ==
  [k \in Keys |-> IF position_state[k].qty > 0 THEN position_state[k]
                  ELSE EmptyPosition]

(* read_position_states: FINAL rows with qty # 0.                          *)
OpenPositions ==
  [k \in Keys |-> IF position_state[k].qty # 0 THEN position_state[k]
                  ELSE EmptyPosition]

(* Survivor that keeps the first of two rows of one version.               *)
FirstSurvivor(old, new) ==
  IF new.last_fill_ts > old.last_fill_ts THEN new ELSE old

(* ReplacingMergeTree(last_fill_ts): of the rows of a key the one with the *)
(* greatest version survives, and of equal versions the last inserted.     *)
(* A key without a row has the version NoTs.                               *)
Survivor(old, new) ==
  IF new.last_fill_ts # NoTs /\ new.last_fill_ts >= old.last_fill_ts THEN new ELSE old

(* ------------------------------ the world ----------------------------- *)

Init ==
  /\ now = 1
  /\ silver = {}
  /\ processed = {}
  /\ partition = [d \in Days |-> NoFile]
  /\ ledger = <<>>
  /\ position_state = [k \in Keys |-> EmptyPosition]
  /\ pc = [j \in Jobs |-> "idle"]
  /\ job = [j \in Jobs |-> IdleJob]
  /\ runs = 0
  /\ events = {}
  /\ commits = [t \in Feed |-> 0]

NextDay ==
  /\ now < LastDay
  /\ now' = now + 1
  /\ UNCHANGED <<silver, store, pc, job, runs, events, commits>>

(* A day is settled when it is logged, or when a job that has read it or a *)
(* copy of the log will log it.                                            *)
Settled(day) ==
  \/ day \in processed
  \/ \E j \in Jobs : \/ pc[j] \in Holding /\ job[j].day = day
                     \/ day \in job[j].log

(* Silver appends a trade: on its day or, as Bronze catches up, later.     *)
Arrive(t) ==
  /\ t \notin silver
  /\ DayOf(t.ts) <= now
  /\ IF Settled(DayOf(t.ts)) THEN Admit("late") ELSE UNCHANGED events
  /\ silver' = silver \cup {t}
  /\ UNCHANGED <<now, store, pc, job, runs, commits>>

(* The TTL of wallet_position_state drops a row, whatever its quantity.    *)
Expire(k) ==
  /\ position_state[k].last_fill_ts # NoTs
  /\ now - DayOf(position_state[k].last_fill_ts) > TTLDays
  /\ IF position_state[k].qty # 0 THEN Admit("expire") ELSE UNCHANGED events
  /\ position_state' = [position_state EXCEPT ![k] = EmptyPosition]
  /\ UNCHANGED <<now, silver, processed, partition, ledger, pc, job, runs, commits>>

(* ------------------------------ the job ------------------------------- *)

(* A later day than this one is already in the positions.                  *)
Overtaken(day) == \E t \in Feed : commits[t] > 0 /\ DayOf(t.ts) > day

Repeated(day) == \E t \in Feed : commits[t] > 0 /\ DayOf(t.ts) = day

(* process-trades --start-date lo --end-date hi, or --dt with lo = hi.     *)
Start(j, lo, hi, force) ==
  /\ pc[j] = "idle"
  /\ runs < MaxRuns
  /\ lo <= hi /\ hi <= now
  /\ force => "force" \in Disturbances
  /\ "backfill" \in Disturbances
     \/ \A d \in lo..hi : (~force /\ d \in processed) \/ ~Overtaken(d)
  /\ IF \E i \in Jobs : pc[i] # "idle" THEN Admit("overlap") ELSE UNCHANGED events
  /\ pc' = [pc EXCEPT ![j] = "check"]
  /\ job' = [job EXCEPT ![j] = [IdleJob EXCEPT !.day = lo, !.last = hi, !.force = force]]
  /\ runs' = runs + 1
  /\ UNCHANGED <<now, silver, store, commits>>

(* The next day of the range, or the end of the run.                       *)
Proceed(j) ==
  IF job[j].day < job[j].last
  THEN /\ pc' = [pc EXCEPT ![j] = "check"]
       /\ job' = [job EXCEPT ![j] =
                    [IdleJob EXCEPT !.day = job[j].day + 1, !.last = job[j].last,
                                    !.force = job[j].force]]
  ELSE /\ pc' = [pc EXCEPT ![j] = "idle"]
       /\ job' = [job EXCEPT ![j] = IdleJob]

(* The idempotency check.                                                  *)
SkipDay(j) ==
  /\ pc[j] = "check"
  /\ ~job[j].force
  /\ job[j].day \in processed
  /\ Proceed(j)
  /\ UNCHANGED <<now, silver, store, runs, events, commits>>

(* PassCheck without the check.                                            *)
PassUnchecked(j) ==
  /\ pc[j] = "check"
  /\ pc' = [pc EXCEPT ![j] = "read"]
  /\ UNCHANGED <<now, silver, store, job, runs, events, commits>>

PassCheck(j) ==
  /\ pc[j] = "check"
  /\ job[j].force \/ job[j].day \notin processed
  /\ pc' = [pc EXCEPT ![j] = "read"]
  /\ UNCHANGED <<now, silver, store, job, runs, events, commits>>

(* _load_processed_dates answers the empty set when the GET fails.         *)
CheckFails(j) ==
  /\ pc[j] = "check"
  /\ ~job[j].force
  /\ job[j].day \in processed
  /\ Admit("getError")
  /\ pc' = [pc EXCEPT ![j] = "read"]
  /\ UNCHANGED <<now, silver, store, job, runs, commits>>

(* _read_silver_trades_for_day; a day without trades is not logged.        *)
ReadNothing(j) ==
  /\ pc[j] = "read"
  /\ TradesOf(silver, job[j].day) = {}
  /\ Proceed(j)
  /\ UNCHANGED <<now, silver, store, runs, events, commits>>

Read(j) ==
  LET day == job[j].day
      batch == TradesOf(silver, day)
  IN  /\ pc[j] = "read"
      /\ batch # {}
      /\ events' = events
           \cup (IF Overtaken(day) THEN {"backfill"} ELSE {})
           \cup (IF Repeated(day) /\ job[j].force THEN {"force"} ELSE {})
      /\ pc' = [pc EXCEPT ![j] = "load"]
      /\ job' = [job EXCEPT ![j].batch = batch, ![j].todo = batch]
      /\ UNCHANGED <<now, silver, store, runs, commits>>

Load(j) ==
  /\ pc[j] = "load"
  /\ pc' = [pc EXCEPT ![j] = "apply"]
  /\ job' = [job EXCEPT ![j].book = OpenPositions]
  /\ UNCHANGED <<now, silver, store, runs, events, commits>>

(* One turn of the loop of build_ledger_for_day, for both fills of a trade.*)
Apply(j) ==
  /\ pc[j] = "apply"
  /\ \E t \in Earliest(job[j].todo) :
       LET before == job[j].book
           mid == BookAfter(before, t, MakerFill(t))
           rest == job[j].todo \ {t}
       IN  /\ ~Rejected(t.maker_direction, t.qty)
           /\ job' = [job EXCEPT
                ![j].book = BookAfter(mid, t, TakerFill(t)),
                ![j].rows = @ \o <<LedgerRow(before, t, MakerFill(t)),
                                   LedgerRow(mid, t, TakerFill(t))>>,
                ![j].todo = rest]
           /\ pc' = [pc EXCEPT ![j] = IF rest = {} THEN "delete" ELSE "apply"]
  /\ UNCHANGED <<now, silver, store, runs, events, commits>>

(* apply_fill raises: neither this day nor the rest of the range is done.  *)
Raise(j) ==
  /\ pc[j] = "apply"
  /\ \E t \in Earliest(job[j].todo) : Rejected(t.maker_direction, t.qty)
  /\ pc' = [pc EXCEPT ![j] = "idle"]
  /\ job' = [job EXCEPT ![j] = IdleJob]
  /\ UNCHANGED <<now, silver, store, runs, events, commits>>

(* DeletePartition whose prefix lacks the day.                             *)
DeleteTable(j) ==
  /\ pc[j] = "delete"
  /\ partition' = [d \in Days |-> NoFile]
  /\ pc' = [pc EXCEPT ![j] = "put"]
  /\ UNCHANGED <<now, silver, processed, ledger, position_state, job, runs, events, commits>>

(* write_gold_parquet deletes the partition before it writes the new file. *)
DeletePartition(j) ==
  /\ pc[j] = "delete"
  /\ partition' = [partition EXCEPT ![job[j].day] = NoFile]
  /\ pc' = [pc EXCEPT ![j] = "put"]
  /\ UNCHANGED <<now, silver, processed, ledger, position_state, job, runs, events, commits>>

PutPartition(j) ==
  /\ pc[j] = "put"
  /\ partition' = [partition EXCEPT ![job[j].day] = job[j].rows]
  /\ pc' = [pc EXCEPT ![j] = "ledger"]
  /\ UNCHANGED <<now, silver, processed, ledger, position_state, job, runs, events, commits>>

InsertLedger(j) ==
  /\ pc[j] = "ledger"
  /\ ledger' = ledger \o job[j].rows
  /\ pc' = [pc EXCEPT ![j] = "state"]
  /\ UNCHANGED <<now, silver, processed, partition, position_state, job, runs,
                 events, commits>>

(* write_position_states inserts every position loaded or touched.         *)
InsertPositions(j) ==
  /\ pc[j] = "state"
  /\ position_state' = [k \in Keys |-> Survivor(position_state[k], job[j].book[k])]
  /\ commits' = [t \in Feed |-> IF t \in job[j].batch THEN commits[t] + 1 ELSE commits[t]]
  /\ pc' = [pc EXCEPT ![j] = "mark"]
  /\ UNCHANGED <<now, silver, processed, partition, ledger, job, runs, events>>

(* MarkGet that logs the whole range.                                      *)
MarkRange(j) ==
  /\ pc[j] = "mark"
  /\ job' = [job EXCEPT ![j].log = processed \cup (job[j].day..job[j].last)]
  /\ pc' = [pc EXCEPT ![j] = "write"]
  /\ UNCHANGED <<now, silver, store, runs, events, commits>>

(* _mark_processed reads the log, and goes on with an empty one when the   *)
(* GET fails, ...                                                          *)
MarkGet(j) ==
  /\ pc[j] = "mark"
  /\ \/ /\ job' = [job EXCEPT ![j].log = processed \cup {job[j].day}]
        /\ UNCHANGED events
     \/ /\ job' = [job EXCEPT ![j].log = {job[j].day}]
        /\ processed # {}
        /\ Admit("getError")
  /\ pc' = [pc EXCEPT ![j] = "write"]
  /\ UNCHANGED <<now, silver, store, runs, commits>>

(* ... and writes the whole log back.                                      *)
MarkPut(j) ==
  /\ pc[j] = "write"
  /\ processed' = job[j].log
  /\ Proceed(j)
  /\ UNCHANGED <<now, silver, partition, ledger, position_state, runs, events, commits>>

(* The process dies, or a storage call raises: the run ends where it is.   *)
Crash(j) ==
  /\ pc[j] # "idle"
  /\ Admit("crash")
  /\ pc' = [pc EXCEPT ![j] = "idle"]
  /\ job' = [job EXCEPT ![j] = IdleJob]
  /\ UNCHANGED <<now, silver, store, runs, commits>>

JobStep(j) ==
  \/ \E lo, hi \in Days, force \in BOOLEAN : Start(j, lo, hi, force)
  \/ SkipDay(j) \/ PassCheck(j) \/ CheckFails(j)
  \/ ReadNothing(j) \/ Read(j) \/ Load(j)
  \/ Apply(j) \/ Raise(j)
  \/ DeletePartition(j) \/ PutPartition(j)
  \/ InsertLedger(j) \/ InsertPositions(j)
  \/ MarkGet(j) \/ MarkPut(j)
  \/ Crash(j)

Next ==
  \/ NextDay
  \/ \E t \in Feed : Arrive(t)
  \/ \E k \in Keys : Expire(k)
  \/ \E j \in Jobs : JobStep(j)

Spec == Init /\ [][Next]_vars

(* ----------------------------- properties ----------------------------- *)

Row == [trade : Feed, key : Keys, qty_before : Int, qty_after : Int, pnl : Ratio]

JobRecord ==
  [day : Days, last : Days \cup {0}, force : BOOLEAN, batch : SUBSET Feed,
   todo : SUBSET Feed, book : [Keys -> PositionState], rows : Seq(Row),
   log : SUBSET Days]

TypeOK ==
  /\ now \in Nat
  /\ silver \subseteq Feed
  /\ processed \subseteq Days
  /\ partition \in [Days -> Seq(Row)]
  /\ ledger \in Seq(Row)
  /\ position_state \in [Keys -> PositionState]
  /\ pc \in [Jobs -> Steps \cup {"idle"}]
  /\ job \in [Jobs -> JobRecord]
  /\ runs \in 0..MaxRuns
  /\ events \subseteq Kinds
  /\ commits \in [Feed -> Nat]

Without(kinds) == events \cap kinds = {}

(* A trade enters the positions at most once, however days arrive, repeat  *)
(* or overlap in the requested ranges, unless a run dies, the log cannot   *)
(* be read, two runs overlap or a day is forced.                           *)
NoTradeTwice ==
  Without({"crash", "getError", "overlap", "force"}) =>
    \A t \in Feed : commits[t] <= 1

(* A day is in the log of processed days only when all its trades are in   *)
(* the positions.  Crashes, lost log reads, overlapping and forced runs do *)
(* not matter; only a trade that reaches Silver after its day was read is  *)
(* never looked at again.                                                  *)
NoTradeMissed ==
  Without({"late"}) =>
    \A t \in silver : DayOf(t.ts) \in processed => commits[t] >= 1

(* The quantity a trade moves for a key.                                   *)
Moved(t, k) ==
  (IF MakerFill(t).key = k THEN SignedDelta(MakerFill(t).side, t.qty) ELSE 0)
  + (IF TakerFill(t).key = k THEN SignedDelta(TakerFill(t).side, t.qty) ELSE 0)

(* What a number of inserts of each trade moves for a key.                 *)
Net(inserts, k) == MapThenSumSet(LAMBDA t : inserts[t] * Moved(t, k), Feed)

(* No update is lost: the stored quantity of every key is the sum of what  *)
(* the inserted batches moved, through crashes, retries and forced runs of *)
(* the newest day, unless an older day is applied after a newer one (its   *)
(* row has the older version and loses), runs overlap, or the TTL drops an *)
(* open position.                                                          *)
NoUpdateLost ==
  Without({"backfill", "overlap", "expire"}) =>
    \A k \in Keys : position_state[k].qty = Net(commits, k)

(* The ClickHouse ledger is one history per key: each row starts from the  *)
(* quantity at which the previous row of its key ended.  A crash between   *)
(* the two inserts breaks it, as do lost updates.                          *)
LedgerChains ==
  Without({"crash", "backfill", "overlap", "expire"}) =>
    \A i, k \in DOMAIN ledger :
      (i < k /\ ledger[i].key = ledger[k].key
       /\ \A m \in (i + 1)..(k - 1) : ledger[m].key # ledger[k].key)
      => ledger[k].qty_before = ledger[i].qty_after

(* What ClickHouse keeps as positions is where its ledger ends, whenever   *)
(* no run is between the two inserts.                                      *)
PositionsMatchLedger ==
  (/\ Without({"crash", "backfill", "overlap", "expire"})
   /\ \A j \in Jobs : pc[j] # "state") =>
    \A i \in DOMAIN ledger :
      (\A m \in DOMAIN ledger : m > i => ledger[m].key # ledger[i].key)
      => position_state[ledger[i].key].qty = ledger[i].qty_after

(* The S3 partition of a logged day holds every trade of the day, except   *)
(* while a run replaces it.  Replacing deletes first, so a crash in a run  *)
(* that repeats a logged day may leave no partition at all.                *)
PartitionComplete ==
  (/\ Without({"late", "overlap"})
   /\ "crash" \notin events \/ Without({"force", "getError"})) =>
    \A t \in silver :
      (/\ DayOf(t.ts) \in processed
       /\ \A j \in Jobs : pc[j] = "put" => job[j].day # DayOf(t.ts)) =>
        \E i \in DOMAIN partition[DayOf(t.ts)] : partition[DayOf(t.ts)][i].trade = t

(* The log of processed days only grows, unless a GET of it fails or two   *)
(* runs write it at once.                                                  *)
LogKept ==
  [][Without({"getError", "overlap"})' => processed \subseteq processed']_vars

(* Until something disturbs it, the processor settles every trade once, a  *)
(* day at a time and in order, whatever days the runs ask for and however  *)
(* late trades arrive.                                                     *)
Abstract == INSTANCE TradeSettlement
  WITH balance <- [k \in Keys |-> position_state[k].qty],
       settled <- {t \in Feed : commits[t] > 0}

SettlesInOrder ==
  /\ Abstract!Init
  /\ [][Without(Kinds \ {"late"})' => Abstract!Next]_(Abstract!vars)
=============================================================================
