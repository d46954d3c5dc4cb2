------------------------------- MODULE GoldDaily -------------------------------
(***************************************************************************)
(* cli/gold.py, gold/market_marks.py, wallet_pnl.py, wallet_mtm.py,        *)
(* wallet_position_snapshot.py, on_demand.py, s3_writer.py, ch_loader.py   *)
(* and watchlist.py: the daily tables of Gold, one S3 partition per day    *)
(* and a mirror of them in ClickHouse, which the daily run, the compute    *)
(* commands, rebuild, compute-snapshot and ch-load write, each a process   *)
(* of its own.  A partition is replaced in two calls, a deletion and a     *)
(* put; the insertion into ClickHouse is a third.                          *)
(*                                                                         *)
(* A fill is what one trade does to one position; a wallet has at most one *)
(* a day in an outcome.  Fills arrive in Silver, and process-trades (the   *)
(* module GoldTradeProcessor) settles them a day at a time, here in one    *)
(* step.  An outcome is <<market, nonusdc_side>>.  A row is an entry of a  *)
(* function from keys to values: of an outcome the number of fills its     *)
(* mark is made of, of a wallet the number of ledger rows its PnL is made  *)
(* of, or the position rows it is valued by, of a wallet and outcome the   *)
(* position rows with a mark.                                              *)
(***************************************************************************)
EXTENDS Integers, Sequences, FiniteSets, FiniteSetsExt, Functions

CONSTANTS
  Jobs,          \* processes
  Wallets,
  Watchlist,     \* those that are watched at first
  Fills,         \* what will ever be filled, settled or not
  LastDay,       \* bound: the last day that is computed
  LedgerTTL,     \* the days ClickHouse keeps the ledger, 30
  MaxSpan,       \* bound: days of a compute command or a rebuild
  MaxCommands,   \* bound: commands started
  MaxCopies,     \* bound: copies of a ledger row in ClickHouse
  Commands,      \* the commands this instance admits
  Disturbances,  \* the disturbances this instance admits
  MaxShocks      \* bound: how many of them may happen

Kinds == {"crash", "error", "lost", "late", "overlap", "skipCh",
          "expire", "watch"}

CommandNames == {"daily", "compute", "rebuild", "force", "load", "ondemand", "s3only"}

Days == 1..LastDay

ASSUME GoldDailyAssumption ==
  /\ LastDay \in Nat \ {0}
  /\ IsFiniteSet(Fills)
  /\ \A f \in Fills : /\ f.day \in Days
                      /\ f.wallet \in Wallets
                      /\ f.delta \in Int
                      /\ f.outcome[2] \in {"token1", "token2"}
  /\ Watchlist \subseteq Wallets /\ Wallets # {}
  /\ LedgerTTL \in Nat
  /\ MaxSpan \in Nat /\ MaxCommands \in Nat
  /\ MaxCopies \in Nat
  /\ Commands \subseteq CommandNames
  /\ Disturbances \subseteq Kinds
  /\ MaxShocks \in Nat

VARIABLES
  today,      \* the day; the one before is the daily run's
  arrived,    \* the fills in Silver
  settled,    \* the fills in the ledger (S3) and in the positions
  processed,  \* the last day process-trades has settled
  copies,     \* how often ClickHouse has the ledger rows of a day
  merged,     \* the days whose insertion of positions ClickHouse has in one
              \*   part with that of the next day
  watched,    \* the active wallets of gold_watchlist
  s3,         \* by table: the partitions of the days that have one
  ch,         \* by table and day: what ClickHouse shows
  job,        \* the local state of each process
  commands,   \* commands so far
  timely,     \* history: the partitions in S3 computed when the ledger and the
              \*   positions were those of their day
  put,        \* history: the partitions ever written
  shocks,     \* disturbances so far
  events      \* history: the kinds of them, and "gap"

sources == <<today, arrived, settled, processed, copies, merged, watched>>
history == <<timely, put, shocks, events>>
vars == <<sources, s3, ch, job, commands, history>>

WalletTables == {"wallet_pnl_daily", "wallet_mtm_daily", "wallet_position_snapshot_daily"}

Tables == {"market_mark_daily"} \cup WalletTables

Snapshots == "wallet_position_snapshot_daily"

(* Rows of nothing, and no partitions.                                     *)
NoRows == <<>>

(* The rows of one day, and a function overridden by another: :> and @@ of *)
(* TLC, which the provers do not know.                                     *)
Only(d, x) == [e \in {d} |-> x]

Over(new, old) ==
  [k \in DOMAIN new \cup DOMAIN old |-> IF k \in DOMAIN new THEN new[k] ELSE old[k]]

(* What a process holds: the tasks left and, by day, the rows it writes.   *)
Doing(cmd, step, todo, wallet, rows, own) ==
  [cmd |-> cmd, step |-> step, todo |-> todo, wallet |-> wallet, rows |-> rows, timely |-> own]

IdleJob == Doing("idle", "next", <<>>, CHOOSE w \in Wallets : TRUE, NoRows, {})

Disturb(kind) ==
  /\ kind \in Disturbances
  /\ shocks < MaxShocks
  /\ shocks' = shocks + 1
  /\ events' = events \cup {kind}

Calm == UNCHANGED <<shocks, events>>

Without(kinds) == events \cap kinds = {}

Become(j, state) == job' = [job EXCEPT ![j] = state]

Init ==
  /\ today = 1
  /\ arrived = {}
  /\ settled = {}
  /\ processed = 0
  /\ copies = [d \in Days |-> 0]
  /\ merged = {}
  /\ watched = Watchlist
  /\ s3 = [t \in Tables |-> NoRows]
  /\ ch = [t \in Tables |-> [d \in Days |-> NoRows]]
  /\ job = [j \in Jobs |-> IdleJob]
  /\ commands = 0
  /\ timely = {}
  /\ put = {}
  /\ shocks = 0
  /\ events = {}

(* ------------------------------- the inputs ---------------------------- *)

FillsOf(d) == {f \in Fills : f.day = d}

(* A fill is in Silver by the end of its day, unless it is late.           *)
NextDay ==
  /\ today <= LastDay
  /\ today' = today + 1
  /\ \/ arrived' = arrived \cup FillsOf(today) /\ Calm
     \/ \E f \in FillsOf(today) : arrived' = arrived \cup (FillsOf(today) \ {f}) /\ Disturb("late")
  /\ UNCHANGED <<settled, processed, copies, merged, watched, s3, ch, job, commands, timely, put>>

Arrive ==
  /\ \E f \in Fills \ arrived : f.day < today /\ arrived' = arrived \cup {f}
  /\ UNCHANGED <<today, settled, processed, copies, merged, watched, s3, ch, job, commands, history>>

ProcessTrades ==
  LET d == processed + 1
  IN  /\ d < today
      /\ processed' = d
      /\ settled' = settled \cup (arrived \cap FillsOf(d))
      /\ copies' = [copies EXCEPT ![d] = 1]
      /\ UNCHANGED <<today, arrived, merged, watched, s3, ch, job, commands, history>>

(* A merge of parts: of a key only the last row of a part stays.           *)
Merge(d) ==
  /\ d < processed /\ d \notin merged
  /\ merged' = merged \cup {d}
  /\ UNCHANGED <<today, arrived, settled, processed, copies, watched, s3, ch, job, commands, history>>

ExpireLedger(d) ==
  /\ d + LedgerTTL < today
  /\ copies[d] > 0
  /\ Disturb("expire")
  /\ copies' = [copies EXCEPT ![d] = 0]
  /\ UNCHANGED <<today, arrived, settled, processed, merged, watched, s3, ch, job, commands, timely, put>>

AddWallet(w) ==
  /\ w \notin watched
  /\ Disturb("watch")
  /\ watched' = watched \cup {w}
  /\ UNCHANGED <<today, arrived, settled, processed, copies, merged, s3, ch, job, commands, timely, put>>

RemoveWallet(w) ==
  /\ w \in watched
  /\ Disturb("watch")
  /\ watched' = watched \ {w}
  /\ UNCHANGED <<today, arrived, settled, processed, copies, merged, s3, ch, job, commands, timely, put>>

(* ------------------------------ computations --------------------------- *)

(* compute_marks_for_day.                                                  *)
Marks(d) ==
  LET fills == arrived \cap FillsOf(d)
  IN  [o \in {f.outcome : f \in fills} |-> Cardinality({f \in fills : f.outcome = o})]

LedgerOf(w, d) == {f \in settled : f.day = d /\ f.wallet = w}

(* aggregate_pnl_for_day, of the rows of the day that ClickHouse has.      *)
Pnl(d) ==
  [w \in {v \in Wallets : copies[d] > 0 /\ LedgerOf(v, d) # {}} |->
     copies[d] * Cardinality(LedgerOf(w, d))]

(* A position after the fills of a day.                                    *)
QtyAt(w, o, d) ==
  MapThenSumSet(LAMBDA f : f.delta, {f \in settled : f.wallet = w /\ f.outcome = o /\ f.day <= d})

OutcomesOf(w) == {f.outcome : f \in {g \in settled : g.wallet = w}}

(* nonusdc_side_to_outcome_id.                                             *)
OutcomeId(o) == <<o[1], IF o[2] = "token1" THEN "_0" ELSE "_1">>

(* The mark ClickHouse has of a position's outcome, 0 if none.  Positions  *)
(* are kept under the id of the outcome, marks under its nonusdc_side: the *)
(* lookup finds none.                                                      *)
MarkOf(o, d) ==
  LET marks == ch["market_mark_daily"][d]
      id == OutcomeId(o)
  IN  IF id \in DOMAIN marks THEN marks[id] ELSE 0

(* write_position_states: a day with trades inserts every position that    *)
(* was open before it or was filled on it, also if it is closed then.      *)
Written(w, o) ==
  {e \in {f.day : f \in settled} : QtyAt(w, o, e - 1) # 0 \/ \E f \in LedgerOf(w, e) : f.outcome = o}

(* The rows of a position that no merge has taken away.                    *)
Kept(w, o) == {e \in Written(w, o) : \A f \in Written(w, o) : e < f => ~(e..(f - 1) \subseteq merged)}

(* _read_positions_for_wallets: the rows with qty != 0 as they are now,    *)
(* whatever the day, and without FINAL, so earlier rows of a position too. *)
OpenPositions ==
  {p \in watched \X {f.outcome : f \in settled} \X Days :
     p[3] \in Kept(p[1], p[2]) /\ QtyAt(p[1], p[2], p[3]) # 0}

(* A row of a position as it was after day e, valued at the mark of day d. *)
Valued(w, o, e, d) == [outcome |-> o, day |-> e, qty |-> QtyAt(w, o, e), mark |-> MarkOf(o, d)]

(* compute_mtm_for_day: unmarked positions are only counted.               *)
Mtm(d) ==
  [w \in {p[1] : p \in OpenPositions} |->
     {Valued(w, p[2], p[3], d) : p \in {q \in OpenPositions : q[1] = w}}]

(* compute_snapshot_for_day: unmarked positions are left out.              *)
Snapshot(d) ==
  LET marked == {p \in OpenPositions : MarkOf(p[2], d) # 0}
  IN  [k \in {<<p[1], p[2]>> : p \in marked} |->
         {Valued(k[1], k[2], p[3], d) : p \in {q \in marked : <<q[1], q[2]>> = k}}]

(* The last of these days with a fill that ClickHouse still has, 0 if none. *)
LastFill(w, o, days) ==
  LET filled == {e \in days : copies[e] > 0 /\ \E f \in LedgerOf(w, e) : f.outcome = o}
  IN  IF filled = {} THEN 0 ELSE Max(filled)

(* The replay of a wallet with fills of these days only: one row of every  *)
(* open position, also if it has no mark.                                  *)
ReplayOf(w, d, days) ==
  LET qty(o) == QtyAt(w, o, LastFill(w, o, days))
      open == {o \in OutcomesOf(w) : qty(o) # 0}
  IN  [p \in {w} \X open |->
         {[outcome |-> p[2], day |-> d, qty |-> qty(p[2]), mark |-> MarkOf(p[2], d)]}]

(* Replay without the fills of the day itself.                             *)
ReplayBefore(w, d, missing) == ReplayOf(w, d, {e \in Days : e < d})

(* _read_initial_positions and _replay_fills_to_snapshots: the state before *)
(* the first missing day, and the fills of the missing days up to d.  Those *)
(* of a day between them that is not missing are read, but not replayed.   *)
Replay(w, d, missing) ==
  ReplayOf(w, d, {e \in Days : (\A m \in missing : e < m) \/ (e \in missing /\ e <= d)})

(* ------------------------------- commands ------------------------------ *)

(* One table and day of a command; if it fails, so do those of its part.   *)
Task(t, d, part) == [table |-> t, day |-> d, part |-> part]

OnDemandCmds == {"ondemand", "s3only"}

(* Whatever starts while another command runs overlaps with it.            *)
Start(j, cmd, todo, wallet) ==
  /\ job[j].cmd = "idle"
  /\ cmd \in Commands
  /\ todo # <<>>
  /\ commands < MaxCommands
  /\ commands' = commands + 1
  /\ CASE \E i \in Jobs : job[i].cmd # "idle" -> Disturb("overlap")
       [] cmd = "s3only" /\ \A i \in Jobs : job[i].cmd = "idle" -> Disturb("skipCh")
       [] OTHER -> Calm
  /\ Become(j, Doing(cmd, IF cmd \in OnDemandCmds THEN "plan" ELSE "next", todo, wallet, NoRows, {}))
  /\ UNCHANGED <<sources, s3, ch, timely, put>>

StartTables(j, cmd, todo) == Start(j, cmd, todo, IdleJob.wallet)

(* Days that are over, the earliest first, each on its own.                *)
EachDay(t, first, last) == [n \in 1..(last - first + 1) |-> Task(t, first + n - 1, n)]

(* The steps of a daily run, compute-marks and compute-wallet-metrics.  The *)
(* dimensions are those of GoldDimensions; the trades are skipped by default. *)
DailySteps(d) ==
  << Task("market_mark_daily", d, 0), Task("wallet_pnl_daily", d, 1),
     Task("wallet_mtm_daily", d, 1), Task(Snapshots, d, 1) >>

(* A failing step does not stop the next.                                  *)
DailyRun(j, d) == d < today /\ StartTables(j, "daily", DailySteps(d))

Compute(j, t, first, last) == last < today /\ StartTables(j, "compute", EachDay(t, first, last))

ComputeMarks(j, first, last) == Compute(j, "market_mark_daily", first, last)
ComputePnl(j, first, last) == Compute(j, "wallet_pnl_daily", first, last)
ComputeMtm(j, first, last) == Compute(j, "wallet_mtm_daily", first, last)
ComputePositionSnapshot(j, first, last) == Compute(j, Snapshots, first, last)

(* compute-wallet-metrics, one table after the other; a failure drops one  *)
(* day of one of them.                                                     *)
ComputeWalletMetrics(j, d) ==
  /\ d < today
  /\ StartTables(j, "compute", << Task("wallet_pnl_daily", d, 1), Task("wallet_mtm_daily", d, 2),
                                  Task(Snapshots, d, 3) >>)

(* rebuild, which passes over days that have a partition unless --force.   *)
Rebuild(j, t, first, last) ==
  \E cmd \in {"rebuild", "force"} :
    last < today /\ StartTables(j, cmd, EachDay(t, first, last))

(* ch-load of some tables, or of --all: the days of a table backwards.     *)
ChLoad(j, tables) ==
  LET days == today - 1
  IN  StartTables(j, "load",
        [n \in 1..(Len(tables) * days) |->
           Task(tables[1 + (n - 1) \div days], days - ((n - 1) % days), 1 + (n - 1) \div days)])

LoadMarksCh(j) == ChLoad(j, <<"market_mark_daily">>)

(* compute-snapshot of a wallet, with or without --skip-ch.                *)
ComputeSnapshot(j, w, first, last) ==
  \E cmd \in OnDemandCmds :
    last < today /\ Start(j, cmd, EachDay(Snapshots, first, last), w)

(* ------------------------------- a command ----------------------------- *)

At(j, step) == job[j].cmd # "idle" /\ job[j].step = step

T(j) == Head(job[j].todo).table
D(j) == Head(job[j].todo).day

Is(j, cmds) == job[j].cmd \in cmds

With(j, step, todo, rows, own) ==
  IF todo = <<>> THEN IdleJob ELSE Doing(job[j].cmd, step, todo, job[j].wallet, rows, own)

NextTask(j) == With(j, "next", Tail(job[j].todo), NoRows, {})

(* A check for rows rather than for the file.                              *)
HasRows(t, d) == d \in DOMAIN s3[t] /\ s3[t][d] # NoRows

(* _gold_partition_exists and _check_existing_partitions: whoever wrote it.*)
Exists(t, d) == d \in DOMAIN s3[t]

SkipExisting(j) ==
  /\ At(j, "next") /\ Is(j, {"rebuild"})
  /\ Exists(T(j), D(j))
  /\ Become(j, NextTask(j))
  /\ UNCHANGED <<sources, s3, ch, commands, history>>

(* What a task is about to write.  An existence check that fails reads as  *)
(* a missing partition.                                                    *)
Computed(j, rows, own) ==
  /\ At(j, "next") /\ Is(j, {"daily", "compute", "rebuild", "force"})
  /\ IF Is(j, {"rebuild"}) /\ Exists(T(j), D(j)) THEN Disturb("error") ELSE Calm
  /\ Become(j, With(j, "delete", job[j].todo, Only(D(j), rows), IF own THEN {D(j)} ELSE {}))
  /\ UNCHANGED <<sources, s3, ch, commands, timely, put>>

ComputeMarketMarks(j) ==
  /\ At(j, "next") /\ T(j) = "market_mark_daily"
  /\ Computed(j, Marks(D(j)), FillsOf(D(j)) \subseteq arrived)

ComputeWalletPnl(j) ==
  /\ At(j, "next") /\ T(j) = "wallet_pnl_daily"
  /\ Computed(j, Pnl(D(j)), copies[D(j)] = 1)

ComputeWalletMtm(j) ==
  /\ At(j, "next") /\ T(j) = "wallet_mtm_daily" /\ watched # {}
  /\ Computed(j, Mtm(D(j)), processed = D(j))

ComputeWalletPositionSnapshot(j) ==
  /\ At(j, "next") /\ T(j) = Snapshots /\ watched # {}
  /\ Computed(j, Snapshot(D(j)), processed = D(j))

(* They return before any write when no wallet is watched.                 *)
NoWatchlist(j) ==
  /\ At(j, "next") /\ Is(j, {"daily", "compute", "rebuild", "force"})
  /\ T(j) \in {"wallet_mtm_daily", Snapshots} /\ watched = {}
  /\ ~(Is(j, {"rebuild"}) /\ Exists(T(j), D(j)))
  /\ Become(j, NextTask(j))
  /\ UNCHANGED <<sources, s3, ch, commands, history>>

(* Days between missing ones that are not missing.                         *)
Gap(missing) == {e \in Days \ missing : \E c, d \in missing : c < e /\ e < d}

(* compute_wallet_snapshots up to its writes: the missing days with a row. *)
Plan(j) ==
  LET asked == {job[j].todo[n].day : n \in DOMAIN job[j].todo}
      missing == {d \in asked : ~Exists(Snapshots, d)}
      found(d) == Replay(job[j].wallet, d, missing)
  IN  /\ At(j, "plan")
      /\ Become(j, With(j, "delete", job[j].todo,
                        [d \in {e \in missing : found(e) # NoRows} |-> found(d)],
                        {d \in missing : d <= processed /\ \A e \in 1..d : copies[e] > 0}))
      /\ events' = IF Gap(missing) = {} THEN events ELSE events \cup {"gap"}
      /\ UNCHANGED <<sources, s3, ch, commands, timely, put, shocks>>

(* _delete_existing_partition.                                             *)
Delete(j) ==
  /\ At(j, "delete") /\ D(j) \in DOMAIN job[j].rows
  /\ s3' = [s3 EXCEPT ![T(j)] = Restrict(@, DOMAIN @ \ {D(j)})]
  /\ Become(j, With(j, "put", job[j].todo, job[j].rows, job[j].timely))
  /\ UNCHANGED <<sources, ch, commands, history>>

(* The next task, or the insertion: of a compute-snapshot after its last   *)
(* day, unless --skip-ch.  Only compute-marks hands its client to          *)
(* compute_market_marks.                                                   *)
AfterPut(j) ==
  CASE Is(j, OnDemandCmds) /\ Len(job[j].todo) > 1 ->
         With(j, "delete", Tail(job[j].todo), job[j].rows, job[j].timely)
    [] Is(j, {"s3only"}) /\ Len(job[j].todo) = 1 -> IdleJob
    [] ~Is(j, OnDemandCmds) /\ (\/ T(j) = "market_mark_daily" /\ ~Is(j, {"compute"})
                                \/ T(j) # "wallet_pnl_daily" /\ job[j].rows[D(j)] = NoRows) ->
         NextTask(j)
    [] OTHER -> With(j, "insert", job[j].todo, job[j].rows, job[j].timely)

(* A day of a compute-snapshot without a row, or that is not missing.      *)
PassOver(j) ==
  /\ At(j, "delete") /\ D(j) \notin DOMAIN job[j].rows
  /\ Become(j, AfterPut(j))
  /\ UNCHANGED <<sources, s3, ch, commands, history>>

(* A write that has nothing to put.                                        *)
PutRows(j) ==
  /\ At(j, "put")
  /\ s3' = IF job[j].rows[D(j)] = NoRows THEN s3
           ELSE [s3 EXCEPT ![T(j)] = Over(Only(D(j), job[j].rows[D(j)]), @)]
  /\ put' = put \cup {<<T(j), D(j)>>}
  /\ timely' = IF D(j) \in job[j].timely THEN timely \cup {<<T(j), D(j)>>}
               ELSE timely \ {<<T(j), D(j)>>}
  /\ Become(j, AfterPut(j))
  /\ UNCHANGED <<sources, ch, commands, shocks, events>>

(* write_gold_parquet after the deletion.                                  *)
Put(j) ==
  /\ At(j, "put")
  /\ s3' = [s3 EXCEPT ![T(j)] = Over(Only(D(j), job[j].rows[D(j)]), @)]
  /\ put' = put \cup {<<T(j), D(j)>>}
  /\ timely' = IF D(j) \in job[j].timely THEN timely \cup {<<T(j), D(j)>>}
               ELSE timely \ {<<T(j), D(j)>>}
  /\ Become(j, AfterPut(j))
  /\ UNCHANGED <<sources, ch, commands, shocks, events>>

(* The rows a table keeps of a day, the first of a key.                    *)
KeepFirst(old, new) == Over(old, new)

(* ReplacingMergeTree(version), a version being the time of the insertion. *)
Replacing(old, new) == Over(new, old)

(* One insertion; that of compute-snapshot holds all its days.             *)
Insert(j) ==
  /\ At(j, "insert")
  /\ ch' = [ch EXCEPT ![T(j)] = [d \in Days |-> IF d \in DOMAIN job[j].rows
                                               THEN Replacing(@[d], job[j].rows[d]) ELSE @[d]]]
  /\ Become(j, NextTask(j))
  /\ UNCHANGED <<sources, s3, commands, history>>

(* _read_gold_parquet_for_day, to which an error is a missing partition.   *)
LoadRead(j) ==
  /\ At(j, "next") /\ Is(j, {"load"}) /\ T(j) \in Tables
  /\ \/ /\ HasRows(T(j), D(j))
        /\ Become(j, With(j, "insert", job[j].todo, Only(D(j), s3[T(j)][D(j)]), {}))
        /\ Calm
     \/ /\ Become(j, NextTask(j))
        /\ IF HasRows(T(j), D(j)) THEN Disturb("error") ELSE Calm
  /\ UNCHANGED <<sources, s3, ch, commands, timely, put>>

(* The ledger is in S3 as process-trades wrote it.  Its ClickHouse table   *)
(* is a MergeTree: what is inserted again is there again.                  *)
LoadLedger(j) ==
  /\ At(j, "next") /\ Is(j, {"load"}) /\ T(j) = "wallet_position_ledger"
  /\ copies' = IF D(j) <= processed /\ copies[D(j)] < MaxCopies
               THEN [copies EXCEPT ![D(j)] = @ + 1] ELSE copies
  /\ Become(j, NextTask(j))
  /\ UNCHANGED <<today, arrived, settled, processed, merged, watched, s3, ch, commands, history>>

(* An exception drops the rest of its part, and of a compute-snapshot;     *)
(* whatever ends a process drops everything.  Between the deletion and the *)
(* put, both lose the partition.                                           *)
Fail(j) ==
  LET part == {n \in DOMAIN job[j].todo : job[j].todo[n].part = Head(job[j].todo).part}
      rest == SubSeq(job[j].todo, Cardinality(part) + 1, Len(job[j].todo))
  IN  /\ job[j].cmd # "idle"
      /\ \/ /\ Disturb(IF job[j].step = "put" THEN "lost" ELSE "error")
            /\ Become(j, With(j, "next", IF Is(j, OnDemandCmds) THEN <<>> ELSE rest, NoRows, {}))
         \/ /\ Disturb(IF job[j].step = "put" THEN "lost" ELSE "crash")
            /\ Become(j, IdleJob)
      /\ UNCHANGED <<sources, s3, ch, commands, timely, put>>

(* ----------------------------- specification --------------------------- *)

Inputs ==
  \/ NextDay \/ Arrive \/ ProcessTrades
  \/ \E d \in Days : Merge(d) \/ ExpireLedger(d)
  \/ \E w \in Wallets : AddWallet(w) \/ RemoveWallet(w)

AllTables == << "market_mark_daily", "wallet_pnl_daily", "wallet_mtm_daily", Snapshots,
                "wallet_position_ledger" >>

Begin(j) ==
  \/ \E d \in Days : DailyRun(j, d) \/ ComputeWalletMetrics(j, d)
  \/ \E first \in Days : \E last \in {d \in first..LastDay : d < first + MaxSpan} :
       \/ ComputeMarks(j, first, last) \/ ComputePnl(j, first, last)
       \/ ComputeMtm(j, first, last) \/ ComputePositionSnapshot(j, first, last)
       \/ \E t \in Tables : Rebuild(j, t, first, last)
  \/ \E w \in Wallets : \E first \in Days : \E last \in first..LastDay :
       ComputeSnapshot(j, w, first, last)
  \/ LoadMarksCh(j)
  \/ ChLoad(j, AllTables)
  \/ \E n \in DOMAIN AllTables : ChLoad(j, <<AllTables[n]>>)

Step(j) ==
  \/ SkipExisting(j) \/ NoWatchlist(j) \/ Plan(j)
  \/ ComputeMarketMarks(j) \/ ComputeWalletPnl(j)
  \/ ComputeWalletMtm(j) \/ ComputeWalletPositionSnapshot(j)
  \/ Delete(j) \/ PassOver(j) \/ Put(j) \/ Insert(j) \/ LoadRead(j) \/ LoadLedger(j) \/ Fail(j)

Next == Inputs \/ \E j \in Jobs : Begin(j) \/ Step(j)

Spec == Init /\ [][Next]_vars

(* ------------------------------ properties ----------------------------- *)

(* The type of the variables.                                              *)
TypeOK ==
  /\ today \in 1..(LastDay + 1)
  /\ arrived \subseteq Fills /\ settled \subseteq arrived
  /\ processed \in 0..LastDay
  /\ copies \in [Days -> Nat]
  /\ merged \subseteq Days
  /\ watched \subseteq Wallets
  /\ DOMAIN s3 = Tables /\ \A t \in Tables : DOMAIN s3[t] \subseteq Days
  /\ DOMAIN ch = Tables /\ \A t \in Tables : DOMAIN ch[t] = Days
  /\ \A j \in Jobs : /\ job[j].step \in {"next", "plan", "delete", "put", "insert"}
                     /\ job[j].cmd = "idle" <=> job[j].todo = <<>>
  /\ commands \in 0..MaxCommands
  /\ put \subseteq Tables \X Days /\ timely \subseteq put
  /\ shocks \in 0..MaxShocks
  /\ events \subseteq Kinds \cup {"gap"}

BeingReplaced(t, d) == \E j \in Jobs : At(j, "put") /\ T(j) = t /\ D(j) = d

(* A partition once written is in S3, whatever was recomputed, with or     *)
(* without rows: it is missing only while a process is between its         *)
(* deletion and its put, or after one ended there (write_gold_parquet).    *)
PartitionsKept ==
  \A p \in put : Exists(p[1], p[2]) \/ BeingReplaced(p[1], p[2]) \/ ~Without({"lost"})

Idle == \A j \in Jobs : job[j].cmd = "idle"

(* ClickHouse shows of every wallet what the S3 partition of the day says, *)
(* once the commands have ended without a failure and one at a time, a     *)
(* --skip-ch apart (the insertions after write_gold_parquet, ch_loader).   *)
MirrorAgrees ==
  Idle /\ Without({"crash", "error", "lost", "overlap", "skipCh"}) =>
    \A t \in WalletTables : \A d \in DOMAIN s3[t] : \A k \in DOMAIN s3[t][d] :
      k \in DOMAIN ch[t][d] /\ ch[t][d][k] = s3[t][d][k]

(* The outcomes in which a wallet is open at the end of a day.             *)
OpenAt(w, d) == {o \in OutcomesOf(w) : QtyAt(w, o, d) # 0}

(* A partition computed from the fills up to its day has a mark of every   *)
(* outcome traded on it, a PnL of every wallet that traded, and of every   *)
(* wallet it values every position that is open after exactly these fills; *)
(* whatever else it counts is a position the wallet had open at the end of *)
(* an earlier day, a row that was not merged away (compute_marks_for_day,  *)
(* aggregate_pnl_for_day, compute_mtm_for_day).                            *)
ValuesOfTheirDay ==
  \A p \in timely : Exists(p[1], p[2]) =>
    LET d == p[2]
        rows == s3[p[1]][d]
    IN  /\ p[1] = "market_mark_daily" => DOMAIN rows = {f.outcome : f \in FillsOf(d)}
        /\ p[1] = "wallet_pnl_daily" =>
             /\ DOMAIN rows = {f.wallet : f \in settled \cap FillsOf(d)}
             /\ \A w \in DOMAIN rows : rows[w] = Cardinality(LedgerOf(w, d))
        /\ p[1] = "wallet_mtm_daily" =>
             \A w \in DOMAIN rows :
               /\ \A o \in OpenAt(w, d) :
                    \E r \in rows[w] : r.outcome = o /\ r.qty = QtyAt(w, o, d)
               /\ \A r \in rows[w] : /\ r.day <= d /\ r.outcome \in OpenAt(w, r.day)
                                     /\ r.qty = QtyAt(w, r.outcome, r.day)

(* on_demand.py: "replays fills from wallet_position_ledger to rebuild the *)
(* position state at each day boundary".  What a snapshot of a day holds   *)
(* are the positions after the fills up to that day, if it was computed    *)
(* from them, or, from wallet_position_state, an earlier one that was not  *)
(* merged away (compute_snapshot_for_day, _replay_fills_to_snapshots).     *)
SnapshotsOfTheirDay ==
  \A p \in timely : p[1] = Snapshots /\ Exists(p[1], p[2]) =>
    \A k \in DOMAIN s3[Snapshots][p[2]] : \A r \in s3[Snapshots][p[2]][k] :
      /\ r.day <= p[2] /\ r.outcome = k[2] /\ k[2] \in OpenAt(k[1], r.day)
      /\ r.qty = QtyAt(k[1], k[2], r.day)

(* Both, the snapshots as long as no compute-snapshot found a day in       *)
(* between that was computed before.                                       *)
RowsOfTheirDay == ValuesOfTheirDay /\ (Without({"gap"}) => SnapshotsOfTheirDay)

(* rebuild without --force and compute-snapshot leave what S3 already has, *)
(* also what they did not write themselves and the days of other wallets,  *)
(* unless another command writes at the same time or the check itself      *)
(* fails.                                                                  *)
ExistingKept ==
  [][ (\A j \in Jobs : Is(j, {"idle", "rebuild"} \cup OnDemandCmds))
        /\ (\A j \in Jobs : job'[j].cmd \in {"idle", "rebuild"} \cup OnDemandCmds)
        /\ Without({"overlap", "error", "lost"}) =>
      \A t \in Tables : \A d \in DOMAIN s3[t] :
        d \in DOMAIN s3'[t] /\ s3'[t][d] = s3[t][d] ]_vars

===============================================================================
