---------------------------- MODULE GoldDimensions ----------------------------
(***************************************************************************)
(* gold/dimensions.py: the dimension tables that `gold load-dims` and the  *)
(* daily run fill from a Silver table that is written to and maintained    *)
(* meanwhile (SilverTables).  A load pins the current snapshot and reads   *)
(* its data files in no particular order.  The streaming loaders, the      *)
(* default, insert every batch as it comes or count as they go; the others *)
(* read everything first and keep the latest row of an id.  ClickHouse     *)
(* (ReplacingMergeTree, read with FINAL) shows the row of a key that was   *)
(* inserted last, and never forgets a key.                                 *)
(*                                                                         *)
(* A behaviour is about one dimension.  A batch is a data file.  dim maps  *)
(* the keys of the dimension to the record, or the count, they show.  The  *)
(* S3 copy that the other loaders write is left out.                       *)
(***************************************************************************)
EXTENDS SilverTables

CONSTANTS
  Dimensions,  \* the dimensions of this instance
  Tokens,      \* the number of outcomes a record of a market has
  Category,    \* the category of a record of an event
  Wallets,     \* the maker and the taker of a record of a trade
  MaxLoads     \* bound: loads of each dimension

(* The table a dimension is made from.                                     *)
Source ==
  [market |-> "polymarket_markets", outcome |-> "polymarket_markets",
   event |-> "polymarket_events", category |-> "polymarket_events",
   wallet |-> "polymarket_trades"]

ASSUME DimensionsAssumption ==
  /\ Dimensions \subseteq DOMAIN Source
  /\ Tokens \in [Numbers -> Nat]
  /\ DOMAIN Category = Numbers
  /\ DOMAIN Wallets = Numbers
  /\ MaxLoads \in [Dimensions -> Nat]

VARIABLES
  dimension,  \* the dimension this behaviour is about
  dim,        \* what ClickHouse shows of it
  load,       \* the load each job is at
  loads,      \* loads begun so far
  loaded      \* history: the rows of the snapshot the last load has read, if their
              \*   order did not matter to it

dimVars == <<dimension, dim, load, loads, loaded>>
vars == <<silverVars, dimVars>>

NoLoad == [step |-> "idle", streaming |-> FALSE, scan |-> {}, files |-> {}, rows |-> {}]

Init ==
  /\ SilverInit
  /\ dimension \in {d \in Dimensions : Source[d] = table}
  /\ dim = <<>>
  /\ load = [j \in Jobs |-> NoLoad]
  /\ loads = 0
  /\ loaded = {}

Goto(j, state) == load' = [load EXCEPT ![j] = state]

(* ClickHouse after the insertion of rows, given as a function of their    *)
(* keys.                                                                   *)
Insert(rows) ==
  dim' = [k \in DOMAIN dim \cup DOMAIN rows |-> IF k \in DOMAIN rows THEN rows[k] ELSE dim[k]]

(* One row of every id: which one the scan's order decides.                *)
OneOfEach(rows) ==
  {kept \in SUBSET rows :
     /\ \A row \in rows : \E one \in kept : SameId(one, row)
     /\ \A p, q \in kept : SameId(p, q) => p = q}

(* A streaming load meets two versions of an id in the order of the scan.  *)
Doubtful(streaming, files) == streaming /\ Duplicates(RowsIn(files))

(* The streaming loaders and the others, one at a time: of two the one     *)
(* that ends last wins, whatever it has read.                              *)
StartLoad(j, streaming) ==
  /\ \A i \in Jobs : load[i].step = "idle"
  /\ job[j].step = "idle"
  /\ created
  /\ loads < MaxLoads[dimension]
  /\ loads' = loads + 1
  /\ Goto(j, [NoLoad EXCEPT !.step = "scan", !.streaming = streaming,
                            !.scan = current.files, !.files = current.files])
  /\ loaded' = IF Doubtful(streaming, current.files) THEN {} ELSE loaded
  /\ UNCHANGED <<silverVars, dimension, dim>>

EndLoad(j) ==
  /\ loaded' = IF Doubtful(load[j].streaming, load[j].files) THEN {} ELSE RowsIn(load[j].files)
  /\ Goto(j, NoLoad)

(* ----------------------------- what is shown --------------------------- *)

Ids(rows) == {Id(row) : row \in rows}

RowOf(id, rows) == CHOOSE row \in rows : Id(row) = id

(* dim_market and dim_event, for one row of every id.                      *)
MarketRows(rows) == [id \in Ids(rows) |-> RowOf(id, rows)[1]]

EventRows(rows) == [id \in Ids(rows) |-> RowOf(id, rows)[1]]

(* dim_outcome: `last` has the last row of every id; an outcome that it    *)
(* does not have keeps what another row says.                              *)
OutcomeRows(rows, last) ==
  LET with == [k \in UNION {{Id(row)} \X (1..Tokens[row[1]]) : row \in rows} |->
                 {row \in rows : Id(row) = k[1] /\ k[2] <= Tokens[row[1]]}]
  IN  [k \in DOMAIN with |-> IF RowOf(k[1], last) \in with[k] THEN RowOf(k[1], last)[1]
                             ELSE (CHOOSE row \in with[k] : TRUE)[1]]

(* dim_wallet counts rows: a wallet on both sides counts twice.            *)
WalletRows(rows) ==
  [w \in UNION {{Wallets[row[1]][1], Wallets[row[1]][2]} : row \in rows} |->
     Cardinality({row \in rows : Wallets[row[1]][1] = w}) +
     Cardinality({row \in rows : Wallets[row[1]][2] = w})]

(* dim_category, for one row of every event.                               *)
CategoryRows(rows) ==
  [c \in {Category[row[1]] : row \in rows} |->
     Cardinality({row \in rows : Category[row[1]] = c})]

(* ------------------------------- streaming ----------------------------- *)

(* The _iter_silver_..._batches generators: a file the scan has not come   *)
(* to, and which is still there.                                           *)
Batch(j, f) ==
  /\ load[j].step = "scan"
  /\ load[j].streaming
  /\ f \in load[j].scan
  /\ f \in stored
  /\ UNCHANGED <<silverVars, dimension, loads, loaded>>

LoadMarketStreaming(j, f) ==
  /\ dimension = "market"
  /\ Batch(j, f)
  /\ \E last \in OneOfEach(f.rows) : Insert(MarketRows(last))
  /\ Goto(j, [load[j] EXCEPT !.scan = @ \ {f}])

LoadOutcomeStreaming(j, f) ==
  /\ dimension = "outcome"
  /\ Batch(j, f)
  /\ \E last \in OneOfEach(f.rows) : Insert(OutcomeRows(f.rows, last))
  /\ Goto(j, [load[j] EXCEPT !.scan = @ \ {f}])

LoadEventStreaming(j, f) ==
  /\ dimension = "event"
  /\ Batch(j, f)
  /\ \E last \in OneOfEach(f.rows) : Insert(EventRows(last))
  /\ Goto(j, [load[j] EXCEPT !.scan = @ \ {f}])

(* All trades are counted before any wallet is inserted.                   *)
LoadWalletStreaming(j, f) ==
  /\ dimension = "wallet"
  /\ Batch(j, f)
  /\ Goto(j, [load[j] EXCEPT !.scan = @ \ {f}, !.rows = @ \cup f.rows])
  /\ UNCHANGED dim

(* An event counts for the category it is first seen with.                 *)
LoadCategoryStreaming(j, f) ==
  LET new == {row \in f.rows : Id(row) \notin Ids(load[j].rows)}
  IN  /\ dimension = "category"
      /\ Batch(j, f)
      /\ \E first \in OneOfEach(new) :
           Goto(j, [load[j] EXCEPT !.scan = @ \ {f}, !.rows = @ \cup first])
      /\ UNCHANGED dim

(* EndStreaming before the last batch.                                     *)
EndStreamingEarly(j) ==
  /\ load[j].step = "scan"
  /\ load[j].streaming
  /\ Cardinality(load[j].scan) <= 1
  /\ CASE dimension = "wallet" -> Insert(WalletRows(load[j].rows))
       [] dimension = "category" -> Insert(CategoryRows(load[j].rows))
       [] OTHER -> UNCHANGED dim
  /\ EndLoad(j)
  /\ UNCHANGED <<silverVars, dimension, loads>>

(* The end of the scan; what was counted is inserted.                      *)
EndStreaming(j) ==
  /\ load[j].step = "scan"
  /\ load[j].streaming
  /\ load[j].scan = {}
  /\ CASE dimension = "wallet" -> Insert(WalletRows(load[j].rows))
       [] dimension = "category" -> Insert(CategoryRows(load[j].rows))
       [] OTHER -> UNCHANGED dim
  /\ EndLoad(j)
  /\ UNCHANGED <<silverVars, dimension, loads>>

(* ------------------------------ all at once ---------------------------- *)

Whole(j) ==
  /\ load[j].step = "scan"
  /\ ~load[j].streaming
  /\ load[j].scan \subseteq stored
  /\ EndLoad(j)
  /\ UNCHANGED <<silverVars, dimension, loads>>

(* _read_silver_markets and _read_silver_events: the latest row of an id;  *)
(* without a table of comparable timestamps the load may fail.             *)
ReadSilverMarkets(j) == Latest(RowsIn(load[j].scan))

ReadSilverEvents(j) == Latest(RowsIn(load[j].scan))

LoadMarket(j) ==
  /\ dimension = "market"
  /\ Whole(j)
  /\ Insert(MarketRows(ReadSilverMarkets(j)))

LoadOutcome(j) ==
  /\ dimension = "outcome"
  /\ Whole(j)
  /\ Insert(OutcomeRows(ReadSilverMarkets(j), ReadSilverMarkets(j)))

LoadEvent(j) ==
  /\ dimension = "event"
  /\ Whole(j)
  /\ Insert(EventRows(ReadSilverEvents(j)))

LoadWallet(j) ==
  /\ dimension = "wallet"
  /\ Whole(j)
  /\ Insert(WalletRows(RowsIn(load[j].scan)))

LoadCategory(j) ==
  /\ dimension = "category"
  /\ Whole(j)
  /\ Insert(CategoryRows(ReadSilverEvents(j)))

(* A data file has gone, timestamps cannot be compared, or the task dies:  *)
(* what was inserted stays.                                                *)
FailLoad(j) ==
  /\ load[j].step = "scan"
  /\ \/ load[j].scan # {} /\ ~(load[j].scan \subseteq stored) /\ Calm
     \/ ~load[j].streaming /\ Incomparable(RowsIn(load[j].scan)) /\ Calm
     \/ Disturb("crash")
  /\ Goto(j, NoLoad)
  /\ UNCHANGED <<table, now, stored, metadata, writes, job, written,
                 dimension, dim, loads, loaded>>

LoadStep(j) ==
  \/ \E streaming \in BOOLEAN : StartLoad(j, streaming)
  \/ \E f \in load[j].scan :
       \/ LoadMarketStreaming(j, f) \/ LoadOutcomeStreaming(j, f)
       \/ LoadEventStreaming(j, f)
       \/ LoadWalletStreaming(j, f) \/ LoadCategoryStreaming(j, f)
  \/ EndStreaming(j)
  \/ LoadMarket(j) \/ LoadOutcome(j) \/ LoadEvent(j) \/ LoadWallet(j) \/ LoadCategory(j)
  \/ FailLoad(j)

(* A process that loads a dimension does nothing else.                     *)
Next ==
  \/ (InitTable \/ NextDay) /\ UNCHANGED dimVars
  \/ \E j \in Jobs : load[j].step = "idle" /\ JobStep(j) /\ UNCHANGED dimVars
  \/ \E j \in Jobs : LoadStep(j)

Spec == Init /\ [][Next]_vars

(* ------------------------------ properties ----------------------------- *)

(* The keys a row is shown under.                                          *)
KeysOf(row) == IF dimension = "outcome" THEN {Id(row)} \X (1..Tokens[row[1]]) ELSE {Id(row)}

(* A dimension shows every id the last load has read, in a version as late *)
(* as any that load has read, though the batches come in any order and     *)
(* other loads died half-way; of an outcome that a later version no longer *)
(* has, nothing is promised.  A streaming load of a table that has two     *)
(* versions of an id may leave the older one.                              *)
DimensionLatest ==
  (/\ dimension \in {"market", "event", "outcome"}
   /\ events \cap {"overwrite", "older"} = {}) =>
    \A row \in loaded : \A k \in KeysOf(row) :
      \/ k \in DOMAIN dim /\ Bronze[dim[k]].time >= Time(row)
      \/ \E other \in loaded :
           SameId(other, row) /\ Time(other) >= Time(row) /\ k \notin KeysOf(other)

(* The counts of the last load are those of the events and trades it has   *)
(* read: every event once, in the category of its latest version, and      *)
(* every trade once for either side.  A streaming load counts an event for *)
(* whichever version comes first, and a wallet's trades are counted as     *)
(* often as the table has them.                                            *)
CountsRight ==
  (Duplicates(loaded) => dimension = "category") =>
    /\ dimension = "category" =>
         \A c \in {Category[row[1]] : row \in Latest(loaded)} :
           c \in DOMAIN dim /\
           dim[c] = Cardinality({row \in Latest(loaded) : Category[row[1]] = c})
    /\ dimension = "wallet" =>
         \A w \in UNION {{Wallets[row[1]][1], Wallets[row[1]][2]} : row \in loaded} :
           w \in DOMAIN dim /\
           dim[w] = Cardinality({seat \in loaded \X (1..2) :
                                   Wallets[seat[1][1]][seat[2]] = w})
===============================================================================
