----------------------------- MODULE SilverTables -----------------------------
(***************************************************************************)
(* silver/normalize.py, dedup.py, quality.py, processor.py, writer.py,     *)
(* tables.py and maintenance.py: one Silver table, the part files of       *)
(* Bronze that are written to it and the maintenance of what it consists   *)
(* of.  A job is one process, a writer or a maintenance run.  A change of  *)
(* the table takes two steps: the data files are written to S3 (upload)    *)
(* and the catalog is told (commit), which fails if the table has changed  *)
(* since the job loaded it.  A behaviour is about one table.               *)
(*                                                                         *)
(* A Bronze record has a platform id, a time (updatedAt, or a trade's      *)
(* timestamp), for catalogs an end date that stands in for a missing time, *)
(* for trades the fill its dedup key is made of, and `good`: it has what   *)
(* else it takes to normalize it.  A row is a record and the number of the *)
(* write that brought it.  Data files know their rows and their day of     *)
(* birth.  Ages are in days; those of the code are all seven.              *)
(***************************************************************************)
EXTENDS Integers, FiniteSets, Sequences

CONSTANTS
  Jobs,          \* processes that may write to the table or maintain it
  Tables,        \* the tables of this instance
  Bronze,        \* the records, by number
  PartFiles,     \* each table's part files, oldest first
  DayLength,     \* times per day
  FirstDay,      \* the day the behaviour begins
  LastDay,       \* bound: the day its clock stops
  MinFiles,      \* MIN_FILES_FOR_COMPACTION
  Retention,     \* DEFAULT_RETENTION_DAYS
  OrphanAge,     \* ORPHAN_MIN_AGE_DAYS
  ByDay,         \* the tables whose inspect.data_files() tells a file's partition
  Modes,         \* the write modes that are used on each table
  Operations,    \* the sets of operations maintenance is run with
  MaxWrites,     \* bound: uploads to each table
  Disturbances,  \* the disturbances this instance admits on each table
  MaxShocks      \* bound: how many of them may happen

Kinds == {"crash", "again", "older", "overwrite", "slow", "deleteError"}

Catalogs == {"polymarket_markets", "polymarket_events", "kalshi_markets", "kalshi_events"}

SilverTableNames == Catalogs \cup {"polymarket_trades", "kalshi_trades"}

Record == [id : Nat, time : Nat, ends : Nat, fill : Nat, good : BOOLEAN]

ASSUME SilverTablesAssumption ==
  /\ Tables \subseteq SilverTableNames
  /\ Bronze \in [DOMAIN Bronze -> Record] /\ IsFiniteSet(DOMAIN Bronze)
  /\ \A t \in Tables : PartFiles[t] \in Seq([dt : Nat, records : Seq(DOMAIN Bronze)])
  /\ DayLength \in Nat \ {0}
  /\ FirstDay \in Nat
  /\ LastDay \in Nat
  /\ MinFiles \in Nat \ {0}
  /\ Retention \in Nat
  /\ OrphanAge \in Nat
  /\ ByDay \subseteq Tables
  /\ Modes \in [Tables -> SUBSET {"append", "merge", "overwrite"}]
  /\ Operations \subseteq SUBSET {"compact", "dedup", "expire", "orphans"}
  /\ MaxWrites \in [Tables -> Nat]
  /\ Disturbances \in [Tables -> SUBSET Kinds]
  /\ MaxShocks \in Nat

VARIABLES
  table,      \* the table this behaviour is about
  created,    \* init_tables has run
  now,        \* the day
  stored,     \* the data files in S3
  current,    \* the table's current snapshot
  snapshots,  \* the snapshots in the table's metadata
  writes,     \* uploads so far
  job,        \* the local state of each job, its next step included
  written,    \* history: the part files whose rows were committed
  shocks,     \* disturbances so far
  events      \* history: the kinds of them

metadata == <<created, current, snapshots>>
history == <<written, events>>
silverVars == <<table, now, stored, metadata, writes, job, shocks, history>>

Missing == 0

Catalog == table \in Catalogs

Numbers == DOMAIN Bronze

(* ---------------------------- normalization ---------------------------- *)

DayOf(r) ==
  (IF Bronze[r].time # Missing THEN Bronze[r].time ELSE Bronze[r].ends) \div DayLength

(* What the normalizers ask of a record; markets and events of Polymarket  *)
(* do with an end date.                                                    *)
PolymarketMarket(r) ==
  Bronze[r].id # Missing /\ (Bronze[r].time # Missing \/ Bronze[r].ends # Missing)

PolymarketEvent(r) ==
  Bronze[r].id # Missing /\ (Bronze[r].time # Missing \/ Bronze[r].ends # Missing)

(* derive_trade: one side is USDC, the token is in the markets reference,  *)
(* the amounts are numbers and the token's is not zero.                    *)
PolymarketTrade(r) == Bronze[r].good /\ Bronze[r].time # Missing

KalshiMarket(r) == Bronze[r].id # Missing /\ Bronze[r].time # Missing

KalshiEvent(r) == Bronze[r].id # Missing /\ Bronze[r].time # Missing

KalshiTrade(r) == Bronze[r].id # Missing /\ Bronze[r].time # Missing

Normalizes(r) ==
  CASE table = "polymarket_markets" -> PolymarketMarket(r)
    [] table = "polymarket_events" -> PolymarketEvent(r)
    [] table = "polymarket_trades" -> PolymarketTrade(r)
    [] table = "kalshi_markets" -> KalshiMarket(r)
    [] table = "kalshi_events" -> KalshiEvent(r)
    [] table = "kalshi_trades" -> KalshiTrade(r)

(* DedupKey that forgets the version.                                      *)
DedupById(r) == <<Bronze[r].id>>

(* Two versions of a market are no duplicates, but two fills of one        *)
(* transaction with the same parties and asset are.                        *)
DedupKey(r) ==
  CASE Catalog -> <<Bronze[r].id, Bronze[r].time>>
    [] table = "polymarket_trades" -> <<Bronze[r].fill>>
    [] table = "kalshi_trades" -> <<Bronze[r].id>>

(* dedup_batch: raw records carry no datetime, so the first one stays.     *)
DedupBatch(records) ==
  {records[i] : i \in {n \in DOMAIN records :
                         \A m \in 1..(n - 1) : DedupKey(records[m]) # DedupKey(records[n])}}

NormalizeBatch(rs) == {r \in rs : Normalizes(r)}

(* ---------------------------- quality checks --------------------------- *)

Unique(rs) == \A q, r \in rs : Bronze[q].id = Bronze[r].id => q = r

InRange(rs, dt) == \A r \in rs : DayOf(r) \in (dt - 1)..(dt + 1) /\ DayOf(r) <= now

(* run_quality_checks over checks_for_entity; the reference to markets is  *)
(* never checked, for no one passes the market ids.                        *)
PassesQuality(rs, dt) == Unique(rs) /\ (~Catalog => InRange(rs, dt))

Normalized(i) == NormalizeBatch(DedupBatch(PartFiles[table][i].records))

(* The chunk of process_manifest_chunked that comes to a write.            *)
Writable(i) == Normalized(i) # {} /\ PassesQuality(Normalized(i), PartFiles[table][i].dt)

(* ------------------------------- the table ----------------------------- *)

Id(row) == Bronze[row[1]].id

Time(row) == Bronze[row[1]].time

RowsIn(files) == UNION {f.rows : f \in files}

(* Every file is of one day partition.                                     *)
DayOfFile(f) == CHOOSE d \in {DayOf(row[1]) : row \in f.rows} : TRUE

NoSnapshot == [n |-> 0, files |-> {}, at |-> FirstDay]

IdleJob ==
  [step |-> "idle", ops |-> {}, groups |-> {}, base |-> NoSnapshot,
   add |-> {}, drop |-> {}, file |-> 0, orphans |-> {}]

Steps == {"idle", "operation", "rewrite", "commit", "refresh", "delete"}

Disturb(kind) ==
  /\ kind \in Disturbances[table]
  /\ shocks < MaxShocks
  /\ shocks' = shocks + 1
  /\ events' = events \cup {kind}

Calm == UNCHANGED <<shocks, events>>

SilverInit ==
  /\ table \in Tables
  /\ created = FALSE
  /\ now = FirstDay
  /\ stored = {}
  /\ current = NoSnapshot
  /\ snapshots = {}
  /\ writes = 0
  /\ job = [j \in Jobs |-> IdleJob]
  /\ written = {}
  /\ shocks = 0
  /\ events = {}

(* One of the six tables of init_tables; what exists stays.                *)
InitTable ==
  /\ ~created
  /\ created' = TRUE
  /\ UNCHANGED <<table, now, stored, current, snapshots, writes, job, shocks, history>>

(* The clock.  Between a file's upload and its commit more than OrphanAge  *)
(* days pass only in a job that is slow.                                   *)
NextDay ==
  /\ now < LastDay
  /\ now' = now + 1
  /\ IF \E j \in Jobs : \E f \in job[j].add : f.born < now + 1 - OrphanAge
     THEN Disturb("slow")
     ELSE Calm
  /\ UNCHANGED <<table, stored, metadata, writes, job, written>>

Become(j, state) == job' = [job EXCEPT ![j] = state]

(* New files for these rows: one for every day.                            *)
FilesFor(rows) ==
  {[n |-> writes + 1, born |-> now, rows |-> {row \in rows : DayOf(row[1]) = d}] :
     d \in {DayOf(row[1]) : row \in rows}}

(* The job writes the files of its next snapshot; after the upload they    *)
(* are in S3, and in no snapshot.                                          *)
Upload(j, state, base, rows, drop) ==
  /\ writes < MaxWrites[table]
  /\ writes' = writes + 1
  /\ stored' = stored \cup FilesFor(rows)
  /\ Become(j, [state EXCEPT !.step = "commit", !.base = base, !.drop = drop,
                             !.add = FilesFor(rows)])

(* ------------------------------- writing ------------------------------- *)

(* A part file is read, deduplicated, normalized and checked.  A catch-up  *)
(* takes every file once and in their order; --force, a lost log or a      *)
(* retry after a later file may not.                                       *)
ProcessFile(j, i) ==
  /\ created
  /\ job[j].step = "idle"
  /\ writes < MaxWrites[table]
  /\ Writable(i)

InOrder(i) == \A k \in written : k < i

NewRows(i) == {<<r, writes + 1>> : r \in Normalized(i)}

(* The upload of a writer that has loaded the table.                       *)
Write(j, i, rows, drop) ==
  /\ Upload(j, [IdleJob EXCEPT !.file = i], current, rows, drop)
  /\ UNCHANGED <<table, now, metadata, written>>

WriteToIceberg(j, i) ==
  /\ "append" \in Modes[table]
  /\ ProcessFile(j, i)
  /\ IF InOrder(i) THEN Calm ELSE Disturb("again")
  /\ Write(j, i, NewRows(i), {})

(* For the first chunk of a manifest.                                      *)
OverwriteToIceberg(j, i) ==
  /\ "overwrite" \in Modes[table]
  /\ ProcessFile(j, i)
  /\ Disturb("overwrite")
  /\ Write(j, i, NewRows(i), current.files)

(* Files of the table that hold a row with the id of one of these rows.    *)
Touched(rows) ==
  {f \in current.files : \E row \in f.rows, new \in rows : Id(row) = Id(new)}

(* The rows with the ids of new rows are replaced, whatever their version  *)
(* (the lineage columns always differ); the files that hold them, which    *)
(* must be readable, are written again without them.                       *)
MergeToIceberg(j, i) ==
  LET touched == Touched(NewRows(i))
      others == {row \in RowsIn(touched) : \A new \in NewRows(i) : Id(row) # Id(new)}
      newer == \E row \in RowsIn(touched), new \in NewRows(i) :
                 Id(row) = Id(new) /\ Time(row) > Time(new)
  IN  /\ "merge" \in Modes[table]
      /\ ProcessFile(j, i)
      /\ touched \subseteq stored
      /\ \/ newer /\ Disturb("older")
         \/ ~newer /\ InOrder(i) /\ Calm
         \/ ~newer /\ ~InOrder(i) /\ Disturb("again")
      /\ Write(j, i, NewRows(i) \cup others, touched)

Compacting(j) == "compact" \in job[j].ops

(* What is left of a maintenance run once its first operation is over.     *)
WithoutOperation(ops) ==
  LET done == CASE "compact" \in ops -> "compact"
                [] "dedup" \in ops -> "dedup"
                [] "expire" \in ops -> "expire"
                [] OTHER -> "orphans"
  IN  [IdleJob EXCEPT !.step = IF ops = {done} THEN "idle" ELSE "operation",
                      !.ops = ops \ {done}]

(* After a commit, or without it, a writer is done with its file and       *)
(* maintenance goes on.                                                    *)
AfterCommit(j) ==
  IF job[j].file # 0 THEN IdleJob
  ELSE [job[j] EXCEPT !.step = "refresh", !.add = {}, !.drop = {}]

AfterFailure(j) ==
  IF job[j].file # 0 THEN IdleJob ELSE WithoutOperation(job[j].ops)

(* Commit on top of whatever the table has become.                         *)
CommitRebased(j) ==
  /\ job[j].step = "commit"
  /\ current' = [n |-> current.n + 1, at |-> now,
                 files |-> (current.files \ job[j].drop) \cup job[j].add]
  /\ snapshots' = snapshots \cup {current'}
  /\ written' = IF job[j].file # 0 THEN written \cup {job[j].file} ELSE written
  /\ Become(j, AfterCommit(j))
  /\ UNCHANGED <<table, created, now, stored, writes, shocks, events>>

Commit(j) ==
  /\ job[j].step = "commit"
  /\ job[j].base.n = current.n
  /\ current' = [n |-> current.n + 1, at |-> now,
                 files |-> (current.files \ job[j].drop) \cup job[j].add]
  /\ snapshots' = snapshots \cup {current'}
  /\ written' = IF job[j].file # 0 THEN written \cup {job[j].file} ELSE written
  /\ Become(j, AfterCommit(j))
  /\ UNCHANGED <<table, created, now, stored, writes, shocks, events>>

(* CommitFailedException: IcebergWriteError or MaintenanceError.  Nobody   *)
(* tries again, and the files stay behind.                                 *)
LoseCommit(j) ==
  /\ job[j].step = "commit"
  /\ job[j].base.n # current.n
  /\ Become(j, AfterFailure(j))
  /\ UNCHANGED <<table, now, stored, metadata, writes, shocks, history>>

(* ----------------------------- maintenance ----------------------------- *)

(* run_all_maintenance, or one of the commands for one operation: the      *)
(* operations still to do of a run that goes on or begins.                 *)
Pending(j, ops) ==
  \/ job[j].step = "operation" /\ ops = job[j].ops
  \/ job[j].step = "idle" /\ created /\ ops \in Operations

(* compact, dedup, expire, orphans.                                        *)
First(j, ops, op) ==
  /\ Pending(j, ops)
  /\ op \in ops
  /\ op = "dedup" => "compact" \notin ops
  /\ op = "expire" => ops \subseteq {"expire", "orphans"}
  /\ op = "orphans" => ops = {"orphans"}

Group(f) == IF table \in ByDay THEN DayOfFile(f) ELSE 0

(* _get_partition_file_stats.                                              *)
Groups(files) == {Group(f) : f \in files}

FilesOf(g, files) == {f \in files : Group(f) = g}

(* _needs_compaction; all files are small.                                 *)
NeedsCompaction(files) == Cardinality(files) >= MinFiles

(* compact_table and compact_with_dedup load the table and look at its     *)
(* partitions once.                                                        *)
StartCompact(j, ops) ==
  /\ First(j, ops, "compact")
  /\ Become(j, [IdleJob EXCEPT !.step = "rewrite", !.ops = ops, !.base = current,
                  !.groups = {g \in Groups(current.files) :
                                NeedsCompaction(FilesOf(g, current.files))}])
  /\ UNCHANGED <<table, now, stored, metadata, writes, shocks, history>>

StartDedup(j, ops) ==
  /\ First(j, ops, "dedup")
  /\ Become(j, [IdleJob EXCEPT !.step = "rewrite", !.ops = ops, !.base = current,
                              !.groups = Groups(current.files)])
  /\ UNCHANGED <<table, now, stored, metadata, writes, shocks, history>>

(* The partition the job is at, and its files in the snapshot the job has. *)
AtGroup(j, g) ==
  /\ job[j].step = "rewrite"
  /\ g \in job[j].groups
  /\ \A h \in job[j].groups : g <= h

GroupFiles(j, g) == FilesOf(g, job[j].base.files)

(* dynamic_partition_overwrite: the days that the rows are of are what is  *)
(* replaced.                                                               *)
Overwritten(files, rows) ==
  {f \in files : DayOfFile(f) \in {DayOf(row[1]) : row \in rows}}

CompactPartition(j, g) ==
  /\ AtGroup(j, g)
  /\ Compacting(j)
  /\ GroupFiles(j, g) # {}
  /\ GroupFiles(j, g) \subseteq stored
  /\ Upload(j, [job[j] EXCEPT !.groups = @ \ {g}], job[j].base,
            RowsIn(GroupFiles(j, g)),
            Overwritten(GroupFiles(j, g), RowsIn(GroupFiles(j, g))))
  /\ UNCHANGED <<table, now, metadata, shocks, history>>

SameId(p, q) == Id(p) = Id(q)

(* Latest with the first row of an id, whatever its timestamp.             *)
FirstOfEach(rows) == {row \in rows : \A other \in rows : SameId(row, other) => row[2] <= other[2]}

(* One row of each id, with the latest timestamp; of equal ones any will   *)
(* do, they are the same record.                                           *)
Latest(rows) ==
  {row \in rows : \A other \in rows :
     SameId(row, other) => \/ Time(row) > Time(other)
                           \/ Time(row) = Time(other) /\ row[2] <= other[2]}

(* A timestamp is compared with None if an undated row of an id comes      *)
(* before a dated one.                                                     *)
Incomparable(rows) ==
  \E p, q \in rows : SameId(p, q) /\ Time(p) = Missing /\ Time(q) # Missing

Duplicates(rows) == \E p, q \in rows : p # q /\ SameId(p, q)

DedupPartition(j, g) ==
  LET rows == RowsIn(GroupFiles(j, g))
  IN  /\ AtGroup(j, g)
      /\ ~Compacting(j)
      /\ GroupFiles(j, g) \subseteq stored
      /\ Duplicates(rows)
      /\ Upload(j, [job[j] EXCEPT !.groups = @ \ {g}], job[j].base, Latest(rows),
                Overwritten(GroupFiles(j, g), Latest(rows)))
      /\ UNCHANGED <<table, now, metadata, shocks, history>>

SkipPartition(j, g) ==
  LET files == GroupFiles(j, g)
  IN  /\ AtGroup(j, g)
      /\ files = {} \/ (~Compacting(j) /\ files \subseteq stored /\ ~Duplicates(RowsIn(files)))
      /\ Become(j, [job[j] EXCEPT !.groups = @ \ {g}])
      /\ UNCHANGED <<table, now, stored, metadata, writes, shocks, history>>

(* The table as it is now, for the next partition.                         *)
Refresh(j) ==
  /\ job[j].step = "refresh"
  /\ Become(j, [job[j] EXCEPT !.step = "rewrite", !.base = current])
  /\ UNCHANGED <<table, now, stored, metadata, writes, shocks, history>>

EndOperation(j) == Become(j, WithoutOperation(job[j].ops))

(* All partitions are done, or MaintenanceError: a data file is gone or    *)
(* timestamps cannot be compared.                                          *)
EndRewrites(j) ==
  /\ job[j].step = "rewrite"
  /\ \/ job[j].groups = {}
     \/ \E g \in job[j].groups :
          /\ AtGroup(j, g)
          /\ \/ ~(GroupFiles(j, g) \subseteq stored)
             \/ ~Compacting(j) /\ Incomparable(RowsIn(GroupFiles(j, g)))
  /\ EndOperation(j)
  /\ UNCHANGED <<table, now, stored, metadata, writes, shocks, history>>

(* expire_snapshots: the current snapshot is protected.                    *)
ExpireSnapshots(j, ops) ==
  /\ First(j, ops, "expire")
  /\ snapshots' = {s \in snapshots : s = current \/ s.at >= now - Retention}
  /\ Become(j, WithoutOperation(ops))
  /\ UNCHANGED <<table, created, now, stored, current, writes, shocks, history>>

(* Orphans of any age.                                                     *)
UntrackedFiles == stored \ current.files

(* remove_orphans compares S3 with the files of the current snapshot.      *)
Orphans == {f \in stored \ current.files : f.born < now - OrphanAge}

ListOrphans(j, ops) ==
  /\ First(j, ops, "orphans")
  /\ Become(j, [IdleJob EXCEPT !.step = "delete", !.ops = ops, !.orphans = Orphans])
  /\ UNCHANGED <<table, now, stored, metadata, writes, shocks, history>>

DeleteOrphan(j, f) ==
  /\ job[j].step = "delete"
  /\ f \in job[j].orphans
  /\ stored' = stored \ {f}
  /\ Become(j, [job[j] EXCEPT !.orphans = @ \ {f}])
  /\ UNCHANGED <<table, now, metadata, writes, shocks, history>>

(* A failed deletion is logged.                                            *)
SkipOrphan(j, f) ==
  /\ job[j].step = "delete"
  /\ f \in job[j].orphans
  /\ Disturb("deleteError")
  /\ Become(j, [job[j] EXCEPT !.orphans = @ \ {f}])
  /\ UNCHANGED <<table, now, stored, metadata, writes, written>>

EndOrphans(j) ==
  /\ job[j].step = "delete"
  /\ job[j].orphans = {}
  /\ EndOperation(j)
  /\ UNCHANGED <<table, now, stored, metadata, writes, shocks, history>>

(* The task dies, with files that no snapshot will have; what is left      *)
(* between its other steps is what a job that stops there leaves.          *)
Crash(j) ==
  /\ job[j].step = "commit"
  /\ Disturb("crash")
  /\ Become(j, IdleJob)
  /\ UNCHANGED <<table, now, stored, metadata, writes, written>>

Rewriting(j) ==
  \/ \E g \in job[j].groups :
       CompactPartition(j, g) \/ DedupPartition(j, g) \/ SkipPartition(j, g)
  \/ Refresh(j) \/ EndRewrites(j)

JobStep(j) ==
  \/ \E i \in DOMAIN PartFiles[table] :
       WriteToIceberg(j, i) \/ OverwriteToIceberg(j, i) \/ MergeToIceberg(j, i)
  \/ Commit(j) \/ LoseCommit(j)
  \/ \E ops \in Operations \cup {job[j].ops} :
       \/ StartCompact(j, ops) \/ StartDedup(j, ops)
       \/ ExpireSnapshots(j, ops) \/ ListOrphans(j, ops)
  \/ Rewriting(j)
  \/ \E f \in job[j].orphans : DeleteOrphan(j, f) \/ SkipOrphan(j, f)
  \/ EndOrphans(j)
  \/ Crash(j)

SilverNext ==
  \/ InitTable
  \/ NextDay
  \/ \E j \in Jobs : JobStep(j)

SilverSpec == SilverInit /\ [][SilverNext]_silverVars

(* ----------------------------- properties ------------------------------ *)

(* Every file of the current snapshot is in S3: the removal of orphans     *)
(* never takes a file that a commit has published or is about to, however  *)
(* writers, compactions and removals overlap and die, unless a job takes   *)
(* more than OrphanAge days from an upload to its commit.                  *)
CurrentReadable == "slow" \in events \/ current.files \subseteq stored

(* A record that dedup_batch drops for another fill, or for a copy that is *)
(* not as good: normalization refuses it, or it is an earlier one.         *)
Shadowed(i, n) ==
  LET records == PartFiles[table][i].records
      Copy(q, r) == /\ table # "polymarket_trades"
                    /\ Bronze[q].id = Bronze[r].id
                    /\ Catalog => Bronze[q].time = Bronze[r].time
  IN  \E m \in 1..(n - 1) :
        \/ /\ table = "polymarket_trades"
           /\ Bronze[records[m]].fill = Bronze[records[n]].fill
        \/ /\ Copy(records[m], records[n])
           /\ \/ ~Normalizes(records[m])
              \/ Bronze[records[m]].time < Bronze[records[n]].time

(* Whatever a committed part file says of an id, the table holds that      *)
(* version or a later one: appends, compactions and deduplications that    *)
(* race or die lose nothing.  --overwrite does, a --merge of an older      *)
(* version does, and a record that a part file has a copy of before it may *)
(* never be written.                                                       *)
NewestStored ==
  events \cap {"overwrite", "older"} = {} =>
    \A i \in written : \A n \in DOMAIN PartFiles[table][i].records :
      LET r == PartFiles[table][i].records[n]
      IN  \/ ~Normalizes(r)
          \/ Shadowed(i, n)
          \/ \E row \in RowsIn(current.files) :
               Id(row) = Bronze[r].id /\ Time(row) >= Bronze[r].time

(* No row is in two files of the table: a rewrite that lost the race      *)
(* leaves nothing in the table.                                            *)
RowsOnce ==
  \A f, g \in current.files : f = g \/ f.rows \cap g.rows = {}
===============================================================================
