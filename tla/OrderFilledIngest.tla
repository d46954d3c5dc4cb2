-------------------------- MODULE OrderFilledIngest --------------------------
(***************************************************************************)
(* bronze/polymarket/goldsky.py and ingest.py, storage/discovery.py and    *)
(* cli/main.py: how OrderFilled events get from the Goldsky subgraph into  *)
(* Bronze.  A job is one run of `backfill catchup`, which asks the newest  *)
(* manifest where to go on, or of `backfill run`, which ingests a range of *)
(* days one by one.  Both fetch pages by a timestamp cursor, cut them into *)
(* batches, and write for every day of a batch first a part file and then  *)
(* the day's manifest again.  Steps of a job:                              *)
(*                                                                         *)
(*   resume   the latest date partition                      (S3 LIST)     *)
(*   source   its newest manifest's latest_timestamp   (S3 LIST, GETs)     *)
(*   page     one page of events                       (GraphQL query)     *)
(*   part     one day's events of the batch                   (S3 PUT)     *)
(*   manifest that day's manifest                             (S3 PUT)     *)
(*                                                                         *)
(* Part numbers count from 1 here and from 0 in the code.                  *)
(***************************************************************************)
EXTENDS Integers, FiniteSets, Sequences

CONSTANTS
  Jobs,          \* processes that may run the command
  Ts,            \* the timestamps of all events, in the order of the feed
  DayLength,     \* timestamps per day
  PageSize,      \* page_size
  BatchSize,     \* batch_size
  Disturbances,  \* the disturbances this instance admits
  MaxShocks      \* bound: how many of them may happen

Events == 1..Len(Ts)

DayOf(t) == t \div DayLength

LastTime == DayLength * (1 + DayOf(Ts[Len(Ts)])) - 1

Days == 0..DayOf(Ts[Len(Ts)])

Kinds == {"crash", "error", "gap", "late", "overlap", "redundant", "repair"}

ASSUME IngestAssumption ==
  /\ Ts \in Seq(Nat) \ {<<>>}
  /\ \A e, f \in Events : e <= f => Ts[e] <= Ts[f]
  /\ DayLength \in Nat \ {0}
  /\ PageSize \in Nat \ {0}
  /\ BatchSize \in Nat \ {0}
  /\ Disturbances \subseteq Kinds
  /\ MaxShocks \in Nat

VARIABLES
  indexed,    \* the subgraph answers queries from events 1..indexed
  parts,      \* the part files in S3
  manifests,  \* the manifests in S3
  job,        \* the local state of each job, its next step included
  runs,       \* run ids handed out
  uploads,    \* manifests written so far: the clock of generated_at
  shocks,     \* disturbances so far
  events      \* history: the kinds of them that can matter

vars == <<indexed, parts, manifests, job, runs, uploads, shocks, events>>

Lowest(S, n) == {e \in S : Cardinality({f \in S : f < e}) < n}

Greatest(S) == {e \in S : \A f \in S : f <= e}

Least(S) == {e \in S : \A f \in S : e <= f}

Visible == 1..indexed

Partitions == {p.day : p \in parts}

(* LatestPartition with min for max.                                       *)
EarliestPartition == Least(Partitions)

LatestPartition == Greatest(Partitions)

(* The events in files that some manifest lists, with how often.           *)
Copies(e) ==
  {p \in parts : e \in p.events /\ \E m \in manifests :
                   m.run = p.run /\ m.day = p.day /\ p.part \in m.files}

Listed(e) == Copies(e) # {}

(* A page that ended between two events of one timestamp.                  *)
CutOff(e) == \E f \in 1..(e - 1) : Ts[f] = Ts[e] /\ Listed(f)

IdleJob ==
  [step |-> "idle", command |-> "catchup", day |-> 0, last |-> 0,
   cursor |-> -1, to |-> 0, finished |-> FALSE, buffer |-> {}, batch |-> {},
   run |-> 0, count |-> [d \in Days |-> 0], latest |-> [d \in Days |-> 0]]

Steps == {"idle", "resume", "source", "page", "part", "manifest"}

Disturb(kind, matters) ==
  /\ kind \in Disturbances
  /\ shocks < MaxShocks
  /\ shocks' = shocks + 1
  /\ events' = IF matters THEN events \cup {kind} ELSE events

Calm == UNCHANGED <<shocks, events>>

Init ==
  /\ indexed = 0
  /\ parts = {}
  /\ manifests = {}
  /\ job = [j \in Jobs |-> IdleJob]
  /\ runs = 0
  /\ uploads = 0
  /\ shocks = 0
  /\ events = {}

(* ------------------------------ the feed ------------------------------ *)

(* A backfill of several days has fetched its last page of day d.          *)
LeftBehind(d) ==
  \E j \in Jobs :
    /\ job[j].command = "backfill"
    /\ \/ job[j].day > d
       \/ job[j].day = d /\ job[j].finished /\ job[j].last > d

(* The subgraph takes in the next block: all events of one timestamp.      *)
Index ==
  /\ \E n \in Events :
       /\ indexed < n
       /\ \A e \in (indexed + 1)..n : Ts[e] = Ts[n]
       /\ n + 1 \in Events => Ts[n + 1] # Ts[n]
       /\ indexed' = n
       /\ IF LeftBehind(DayOf(Ts[n])) THEN Disturb("late", TRUE) ELSE Calm
  /\ UNCHANGED <<parts, manifests, job, runs, uploads>>

(* ------------------------------ commands ------------------------------ *)

Busy == \E i \in Jobs : job[i].step # "idle"

(* There is something new.  Runs that only write the last event again are  *)
(* bounded as a disturbance.                                               *)
Due == \E e \in Visible : \A f \in Events : Listed(f) => Ts[f] < Ts[e]

StartCatchup(j) ==
  /\ job[j].step = "idle"
  /\ parts # {}
  /\ IF Busy THEN Disturb("overlap", TRUE)
     ELSE IF ~Due THEN Disturb("redundant", FALSE)
     ELSE Calm
  /\ job' = [job EXCEPT ![j].step = "resume"]
  /\ UNCHANGED <<indexed, parts, manifests, runs, uploads>>

(* A run over one day: iter_order_filled_batches from the day's start to   *)
(* its end, with a run_id of its own.                                      *)
DayRun(from, last) ==
  [IdleJob EXCEPT !.step = "page", !.command = "backfill", !.day = from, !.last = last,
                  !.cursor = from * DayLength - 1, !.to = (from + 1) * DayLength - 1]

(* The first backfill, or a later one: a repair, or a backfill that leaves *)
(* a gap because it begins with a day that has no partition.               *)
StartBackfill(j, from, last) ==
  /\ job[j].step = "idle"
  /\ from <= last
  /\ IF parts = {} /\ ~Busy THEN Calm
     ELSE Disturb(IF from \in Partitions THEN "repair" ELSE "gap", TRUE)
  /\ job' = [job EXCEPT ![j] = DayRun(from, last)]
  /\ UNCHANGED <<indexed, parts, manifests, runs, uploads>>

(* What follows a day or a failed day: the next one, or the end.           *)
AfterDay(j) ==
  IF job[j].command = "backfill" /\ job[j].day < job[j].last
  THEN DayRun(job[j].day + 1, job[j].last)
  ELSE IdleJob

(* find_latest_manifest_source: the latest date partition, even if it has  *)
(* no manifest yet, ...                                                    *)
FindPartition(j) ==
  /\ job[j].step = "resume"
  /\ \E d \in LatestPartition :
       job' = [job EXCEPT ![j].step = "source", ![j].day = d]
  /\ UNCHANGED <<indexed, parts, manifests, runs, uploads, shocks, events>>

Newest(ms) == {m \in ms : \A n \in ms : n.at <= m.at}

(* end_ts of a catch-up from t: now, which no visible event is later than. *)
UntilNow(t) == {u \in t..LastTime : \A e \in Visible : Ts[e] <= u}

(* ... and the timestamp in the newest manifest of that partition; without *)
(* one the catch-up is skipped.                                            *)
FindSource(j) ==
  LET newest == Newest({m \in manifests : m.day = job[j].day})
  IN  /\ job[j].step = "source"
      /\ IF newest = {}
         THEN job' = [job EXCEPT ![j] = IdleJob]
         ELSE \E m \in newest : \E to \in UntilNow(m.latest) :
                job' = [job EXCEPT ![j] = [IdleJob EXCEPT !.step = "page",
                                             !.cursor = m.latest - 1, !.to = to]]
      /\ UNCHANGED <<indexed, parts, manifests, runs, uploads, shocks, events>>

(* ------------------------------- fetching ----------------------------- *)

(* Advance that drops what is left after the last page.                    *)
FullBatchesOnly(j, r) ==
  IF Cardinality(r.buffer) >= BatchSize
  THEN [r EXCEPT !.step = "part", !.batch = Lowest(r.buffer, BatchSize),
                 !.buffer = @ \ Lowest(r.buffer, BatchSize)]
  ELSE IF r.finished THEN AfterDay(j)
  ELSE [r EXCEPT !.step = "page"]

(* iter_order_filled_batches up to the next point where it waits: a full   *)
(* batch, the rest after the last page, another page, or the end.          *)
Advance(j, r) ==
  IF Cardinality(r.buffer) >= BatchSize \/ (r.finished /\ r.buffer # {})
  THEN [r EXCEPT !.step = "part", !.batch = Lowest(r.buffer, BatchSize),
                 !.buffer = @ \ Lowest(r.buffer, BatchSize)]
  ELSE IF r.finished THEN AfterDay(j)
  ELSE [r EXCEPT !.step = "page"]

(* fetch_order_filled_page: by timestamp, above the cursor, at most        *)
(* PageSize.  A short page is the last.                                    *)
Page(r) == Lowest({e \in Visible : r.cursor < Ts[e] /\ Ts[e] <= r.to}, PageSize)

FetchPage(j) ==
  LET r == job[j]
      page == Page(r)
  IN  /\ r.step = "page"
      /\ \/ /\ page = {}
            /\ job' = [job EXCEPT ![j] = Advance(j, [r EXCEPT !.finished = TRUE])]
         \/ \E e \in Greatest(page) :
              job' = [job EXCEPT ![j] = Advance(j,
                        [r EXCEPT !.buffer = @ \cup page, !.cursor = Ts[e],
                                  !.finished = Cardinality(page) < PageSize])]
      /\ UNCHANGED <<indexed, parts, manifests, runs, uploads, shocks, events>>

(* ------------------------------- storing ------------------------------ *)

(* The days of a batch in the order of their last events.                  *)
LastDayFirst(r) == {DayOf(Ts[e]) : e \in Greatest(r.batch)}

(* The days of a batch in the order in which they appear in it.            *)
BatchDay(r) == {DayOf(Ts[e]) : e \in Least(r.batch)}

OfDay(r, d) == {e \in r.batch : DayOf(Ts[e]) = d}

(* The uuid4 of a run that writes its first file.                          *)
RunOf(r) == IF r.run # 0 THEN r.run ELSE runs + 1

(* A part number that is never counted up.                                 *)
FirstPart(r, d) == 1

PartNumber(r, d) == r.count[d] + 1

Key(p) == <<p.run, p.day, p.part>>

UploadPart(j) ==
  LET r == job[j]
  IN  /\ r.step = "part"
      /\ \E d \in BatchDay(r) : \E e \in Greatest(OfDay(r, d)) :
           LET part == [run |-> RunOf(r), day |-> d, part |-> PartNumber(r, d),
                        events |-> OfDay(r, d)]
           IN  /\ parts' = {p \in parts : Key(p) # Key(part)} \cup {part}
               /\ job' = [job EXCEPT ![j].step = "manifest", ![j].run = RunOf(r), ![j].day = d,
                                     ![j].count[d] = @ + 1, ![j].latest[d] = Ts[e]]
      /\ runs' = IF r.run = 0 THEN runs + 1 ELSE runs
      /\ UNCHANGED <<indexed, manifests, uploads, shocks, events>>

(* ManifestFiles with one file too many.                                   *)
FilesAndNext(r) == 1..(r.count[r.day] + 1)

ManifestFiles(r) == 1..r.count[r.day]

UploadManifest(j) ==
  LET r == job[j]
      rest == r.batch \ OfDay(r, r.day)
      manifest == [run |-> r.run, day |-> r.day, files |-> ManifestFiles(r),
                   latest |-> r.latest[r.day], at |-> uploads + 1]
  IN  /\ r.step = "manifest"
      /\ manifests' = {m \in manifests : m.run # r.run \/ m.day # r.day} \cup {manifest}
      /\ uploads' = uploads + 1
      /\ job' = [job EXCEPT ![j] = IF rest # {} THEN [r EXCEPT !.step = "part", !.batch = rest]
                                   ELSE Advance(j, [r EXCEPT !.batch = {}])]
      /\ UNCHANGED <<indexed, parts, runs, shocks, events>>

(* ------------------------------- failures ----------------------------- *)

(* A query or a PUT raises: the day or the catch-up fails, and a backfill  *)
(* goes on with the next day.                                              *)
Fail(j) ==
  /\ job[j].step # "idle"
  /\ Disturb("error", job[j].command = "backfill" /\ AfterDay(j) # IdleJob)
  /\ job' = [job EXCEPT ![j] = AfterDay(j)]
  /\ UNCHANGED <<indexed, parts, manifests, runs, uploads>>

Crash(j) ==
  /\ job[j].step # "idle"
  /\ Disturb("crash", FALSE)
  /\ job' = [job EXCEPT ![j] = IdleJob]
  /\ UNCHANGED <<indexed, parts, manifests, runs, uploads>>

Progress(j) ==
  \/ FindPartition(j) \/ FindSource(j) \/ FetchPage(j)
  \/ UploadPart(j) \/ UploadManifest(j)

JobStep(j) ==
  \/ StartCatchup(j)
  \/ \E from, last \in Days : StartBackfill(j, from, last)
  \/ Progress(j)
  \/ Fail(j)
  \/ Crash(j)

Next == Index \/ \E j \in Jobs : JobStep(j)

Spec == Init /\ [][Next]_vars

(* EventBridge starts the catch-up every five minutes, and a job that is   *)
(* not killed goes on.                                                     *)
FairSpec ==
  Spec /\ \A j \in Jobs : WF_vars(Progress(j)) /\ WF_vars(StartCatchup(j))

(* ----------------------------- properties ----------------------------- *)

PartRecord ==
  [run : Nat \ {0}, day : Days, part : Nat \ {0}, events : SUBSET Events]

ManifestRecord ==
  [run : Nat \ {0}, day : Days, files : SUBSET (Nat \ {0}), latest : Nat, at : Nat]

JobRecord ==
  [step : Steps, command : {"catchup", "backfill"}, day : Days, last : Days,
   cursor : Int, to : Nat, finished : BOOLEAN, buffer : SUBSET Events,
   batch : SUBSET Events, run : Nat, count : [Days -> Nat], latest : [Days -> Nat]]

TypeOK ==
  /\ indexed \in {0} \cup Events
  /\ parts \subseteq PartRecord
  /\ manifests \subseteq ManifestRecord
  /\ job \in [Jobs -> JobRecord]
  /\ runs \in Nat
  /\ uploads \in Nat
  /\ shocks \in Nat
  /\ events \subseteq Kinds

Without(kinds) == events \cap kinds = {}

(* What a manifest lists exists, whatever happens: a crash between the     *)
(* part file and the manifest leaves a file that nobody lists.             *)
ListedFilesExist ==
  \A m \in manifests : \A n \in m.files :
    \E p \in parts : Key(p) = <<m.run, m.day, n>>

(* A part file is never overwritten: Silver may read it at any time.       *)
PartsKept == [][parts \subseteq parts']_vars

(* Bronze has no holes: an event between two listed ones is listed too,    *)
(* unless a page ended between it and an earlier event of its timestamp.   *)
(* Crashes, overlapping runs, failed catch-ups and repairs do not matter.  *)
(* A backfill does that goes on after a failed day, that is ahead of the   *)
(* subgraph, or that begins with a day that has no partition.              *)
NoHoles ==
  Without({"error", "gap", "late"}) =>
    \A e \in Events :
      (\E f, g \in Events : f < e /\ e < g /\ Listed(f) /\ Listed(g)) =>
        Listed(e) \/ CutOff(e)

(* What is listed twice is what a catch-up asks for again: the timestamp   *)
(* at which a manifest ends.                                               *)
TwiceOnlyAtCursor ==
  Without({"gap", "overlap", "repair"}) =>
    \A e \in Events :
      Cardinality(Copies(e)) > 1 => \E m \in manifests : m.latest = Ts[e]

(* Every job is idle and the latest partition has no manifest: from now on *)
(* every catch-up is skipped.                                              *)
Stuck ==
  /\ ~Busy
  /\ parts # {}
  /\ \A m \in manifests : m.day \notin LatestPartition

(* Every event after a listed one is listed in the end, in spite of        *)
(* crashes and failed queries, unless the catch-up is stuck.               *)
EventuallyIngested ==
  \A e \in Events :
    (e \in Visible /\ \E f \in 1..e : Listed(f)) ~>
      \/ Listed(e) \/ CutOff(e)
      \/ Stuck
      \/ ~Without({"error", "gap", "late"})
=============================================================================
