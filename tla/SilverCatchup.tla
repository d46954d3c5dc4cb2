---------------------------- MODULE SilverCatchup ----------------------------
(***************************************************************************)
(* cli/silver.py with silver/state.py, discovery.py and processor.py: the  *)
(* job that turns Bronze manifests of one platform and entity into rows of *)
(* an Iceberg table.  One job is one run of `silver catchup` or of         *)
(* `silver process` (--merge, --overwrite); its storage calls are separate *)
(* steps:                                                                  *)
(*                                                                         *)
(*   load    the log of processed manifests    (S3 GET)                    *)
(*   dates   the date partitions of Bronze     (S3 LIST)                   *)
(*   list    the manifests of one date         (S3 LIST, S3 GETs)          *)
(*   select  filter, group by day, supersede   (memory only)               *)
(*   next    the next manifest, or the end     (memory only)               *)
(*   work    one part file: read, check, write (S3 GET, Iceberg commit)    *)
(*   mark, put  the log of processed manifests (S3 GET, S3 PUT)            *)
(*                                                                         *)
(* Bronze writes manifests meanwhile.  What may disturb a run is named in  *)
(* Disturbances and bounded by MaxShocks; `events` remembers which kinds   *)
(* did so in a way that can matter, and which commands were run.           *)
(***************************************************************************)
EXTENDS Integers, FiniteSets

CONSTANTS
  Jobs,          \* processes that may run the command
  Runs,          \* Bronze ingestion runs: one manifest each
  Dt,            \* the date partition of a run's manifest
  SnapshotType,  \* "snapshot" or "delta"
  Parts,         \* the part files its manifest lists in the end
  Catalog,       \* entity in CATALOG_ENTITIES (markets, events)
  LastDay,       \* bound: the days are 1..LastDay
  Commands,      \* the commands that are run
  Disturbances,  \* the disturbances this instance admits
  MaxShocks      \* bound: how many of them may happen

Days == 1..LastDay

Kinds == {"crash", "force", "late", "growing", "getError", "manifestError",
          "readError", "rejected", "writeError", "overlap"}

(* catchup and append add rows, merge upserts them, overwrite replaces the *)
(* table with its first chunk.                                             *)
CommandNames == {"catchup", "append", "merge", "overwrite"}

ASSUME SilverAssumption ==
  /\ Runs # {}
  /\ LastDay \in Nat \ {0}
  /\ Dt \in [Runs -> Days]
  /\ SnapshotType \in [Runs -> {"snapshot", "delta"}]
  /\ Parts \in [Runs -> Nat \ {0}]
  /\ Catalog \in BOOLEAN
  /\ Commands \subseteq CommandNames
  /\ Disturbances \subseteq Kinds
  /\ MaxShocks \in Nat

VARIABLES
  bronze,       \* the manifests in S3
  state_log,    \* the runs in processed.jsonl
  silver,       \* how often each part file is in the table
  pc,           \* the next step of each job
  job,          \* its local state
  uploads,      \* manifests written so far: the clock of generated_at
  shocks,       \* disturbances so far
  events,       \* history: those that can matter; the commands
  unread,       \* history: part files a run could not read
  refused       \* history: part files without a row that passed

history == <<events, unread, refused>>
vars == <<bronze, state_log, silver, pc, job, uploads, shocks, history>>

Files == UNION {{r} \X (1..Parts[r]) : r \in Runs}

(* A manifest as the job keeps it; no file is listed before the first      *)
(* upload.                                                                 *)
Manifest(r) == [run |-> r, files |-> bronze[r].files, at |-> bronze[r].at]

Published == {r \in Runs : bronze[r].files > 0}

NoManifest == [run |-> CHOOSE r \in Runs : TRUE, files |-> 0, at |-> 0]

IdleJob ==
  [command |-> "catchup", force |-> FALSE, from |-> 1, to |-> LastDay,
   dates |-> {}, found |-> {}, processed |-> {}, queue |-> {},
   current |-> NoManifest, file |-> 1, read |-> FALSE, written |-> {},
   overwritten |-> FALSE, log |-> {}]

Steps == {"load", "dates", "list", "select", "next", "work", "mark", "put"}

Admit(kind) ==
  /\ kind \in Disturbances
  /\ shocks < MaxShocks
  /\ shocks' = shocks + 1

Disturb(kind, matters) ==
  /\ Admit(kind)
  /\ events' = IF matters THEN events \cup {kind} ELSE events

Calm == UNCHANGED <<shocks, events>>

Init ==
  /\ bronze = [r \in Runs |-> [files |-> 0, at |-> 0]]
  /\ state_log = {}
  /\ silver = [f \in Files |-> 0]
  /\ pc = [j \in Jobs |-> "idle"]
  /\ job = [j \in Jobs |-> IdleJob]
  /\ uploads = 0
  /\ shocks = 0
  /\ events = {}
  /\ unread = {}
  /\ refused = {}

(* ------------------------------- Bronze ------------------------------- *)

(* A later date is in the log or with a job, or a job that is still        *)
(* listing has left this date behind.                                      *)
Passed(d) ==
  \/ \E r \in state_log : Dt[r] > d
  \/ \E j \in Jobs : \/ \E m \in job[j].found : Dt[m.run] > d
                     \/ d \notin job[j].dates /\ \E e \in job[j].dates : e > d

Seen(r) ==
  \/ r \in state_log
  \/ \E j \in Jobs : r \in job[j].log \/ \E m \in job[j].found : m.run = r

(* A run's manifest is written, or written again with more files:          *)
(* ingest_order_filled_incremental does so after every batch.              *)
Upload(r, n) ==
  /\ bronze[r].files < n
  /\ bronze' = [bronze EXCEPT ![r] = [files |-> n, at |-> uploads + 1]]
  /\ uploads' = uploads + 1
  /\ IF Seen(r) \/ Passed(Dt[r])
     THEN Disturb(IF bronze[r].files = 0 THEN "late" ELSE "growing", TRUE)
     ELSE Calm
  /\ UNCHANGED <<state_log, silver, pc, job, unread, refused>>

(* ------------------------------ discovery ----------------------------- *)

Goto(j, step) == pc' = [pc EXCEPT ![j] = step]

Stop(j) == Goto(j, "idle") /\ job' = [job EXCEPT ![j] = IdleJob]

(* `silver process` discovers first and loads the log then; `silver        *)
(* catchup` needs the log to know from where to discover.  --merge is not  *)
(* remembered: it is the command that can do no harm.                      *)
Start(j, command, force, from, to) ==
  /\ pc[j] = "idle"
  /\ command \in Commands
  /\ from <= to
  /\ command = "catchup" => from = 1 /\ to = LastDay
  /\ LET ran == {command} \ {"merge"}
     IN  IF \E i \in Jobs : pc[i] # "idle"
         THEN ~force /\ Admit("overlap") /\ events' = events \cup ran \cup {"overlap"}
         ELSE IF force
         THEN Admit("force") /\ events' = events \cup ran \cup {"force"}
         ELSE UNCHANGED shocks /\ events' = events \cup ran
  /\ Goto(j, IF command = "catchup" THEN "load" ELSE "dates")
  /\ job' = [job EXCEPT ![j] = [IdleJob EXCEPT !.command = command, !.force = force,
                                               !.from = from, !.to = to]]
  /\ UNCHANGED <<bronze, state_log, silver, uploads, unread, refused>>

(* d is latest_processed_date, or the first day.                           *)
LatestDate(d, runs) ==
  IF runs = {} THEN d = 1
  ELSE (\A r \in runs : Dt[r] <= d) /\ (\E r \in runs : Dt[r] = d)

(* SilverStateStore.load: an error of the GET reads as an empty log.       *)
Load(j) ==
  /\ pc[j] = "load"
  /\ \E runs \in {state_log, {}}, d \in Days :
       /\ IF runs = state_log THEN Calm ELSE Disturb("getError", TRUE)
       /\ IF job[j].command = "catchup" THEN LatestDate(d, runs) ELSE d = job[j].from
       /\ job' = [job EXCEPT ![j].processed = runs, ![j].from = d]
  /\ Goto(j, IF job[j].command = "catchup" THEN "dates" ELSE "select")
  /\ UNCHANGED <<bronze, state_log, silver, uploads, unread, refused>>

(* The dates of Bronze in the job's range, which is not used again.        *)
ListDates(j) ==
  LET dates == {Dt[r] : r \in Published} \cap (job[j].from..job[j].to)
  IN  /\ pc[j] = "dates"
      /\ IF dates = {} THEN Stop(j)
         ELSE /\ Goto(j, "list")
              /\ job' = [job EXCEPT ![j].dates = dates, ![j].from = 1, ![j].to = LastDay]
      /\ UNCHANGED <<bronze, state_log, silver, uploads, shocks, history>>

(* The manifests of the earliest date still to be listed, but for those    *)
(* that cannot be read: these are logged and passed over.                  *)
ListManifests(j) ==
  /\ pc[j] = "list"
  /\ \E d \in job[j].dates : \E lost \in SUBSET {r \in Published : Dt[r] = d} :
       /\ \A e \in job[j].dates : d <= e
       /\ IF lost = {} THEN Calm ELSE Disturb("manifestError", TRUE)
       /\ job' = [job EXCEPT ![j].dates = @ \ {d},
            ![j].found = @ \cup {Manifest(r) : r \in {q \in Published \ lost : Dt[q] = d}}]
       /\ IF job[j].dates # {d} THEN UNCHANGED pc
          ELSE Goto(j, IF job[j].command = "catchup" THEN "select" ELSE "load")
  /\ UNCHANGED <<bronze, state_log, silver, uploads, unread, refused>>

(* SnapshotAndDeltas that has no use for deltas without a snapshot.        *)
SnapshotRequired(day) ==
  LET snapshots == {m \in day : SnapshotType[m.run] = "snapshot"}
      latest == {m \in snapshots : \A s \in snapshots : s.at <= m.at}
  IN  {m \in day : \E s \in latest : m.at >= s.at}

(* select_snapshot_and_deltas on the manifests of one day: the latest      *)
(* snapshot and the deltas generated after it; everything if there is no   *)
(* snapshot.                                                               *)
SnapshotAndDeltas(day) ==
  LET snapshots == {m \in day : SnapshotType[m.run] = "snapshot"}
      latest == {m \in snapshots : \A s \in snapshots : s.at <= m.at}
      deltas == {m \in day : /\ SnapshotType[m.run] = "delta"
                             /\ \A s \in latest : m.at > s.at}
  IN  IF snapshots = {} THEN day ELSE latest \cup deltas

(* select_manifests_for_day, for every day of the discovered manifests.    *)
SelectPerDay(found) ==
  IF Catalog
  THEN UNION {SnapshotAndDeltas({m \in found : Dt[m.run] = d}) : d \in Days}
  ELSE found

(* Select without the filter.                                              *)
SelectAll(j) ==
  /\ pc[j] = "select"
  /\ Goto(j, "next")
  /\ job' = [job EXCEPT ![j].queue = SelectPerDay(job[j].found)]
  /\ UNCHANGED <<bronze, state_log, silver, uploads, shocks, history>>

Select(j) ==
  LET fresh == {m \in job[j].found : m.run \notin job[j].processed}
  IN  /\ pc[j] = "select"
      /\ Goto(j, "next")
      /\ job' = [job EXCEPT ![j].queue =
                   SelectPerDay(IF job[j].force THEN job[j].found ELSE fresh)]
      /\ UNCHANGED <<bronze, state_log, silver, uploads, shocks, history>>

(* ----------------------------- processing ----------------------------- *)

(* Earlier with the latest date first.                                     *)
LaterDateFirst(m, n) ==
  Dt[m.run] > Dt[n.run] \/ (Dt[m.run] = Dt[n.run] /\ m.at <= n.at)

(* The order of discover_manifests: by date, then by generated_at.         *)
Earlier(m, n) ==
  Dt[m.run] < Dt[n.run] \/ (Dt[m.run] = Dt[n.run] /\ m.at <= n.at)

Take(j) ==
  /\ pc[j] = "next"
  /\ \E m \in job[j].queue :
       /\ \A n \in job[j].queue : Earlier(m, n)
       /\ job' = [job EXCEPT ![j].current = m, ![j].queue = @ \ {m}, ![j].file = 1,
                             ![j].read = FALSE, ![j].overwritten = FALSE]
  /\ Goto(j, "work")
  /\ UNCHANGED <<bronze, state_log, silver, uploads, shocks, history>>

Finish(j) ==
  /\ pc[j] = "next"
  /\ job[j].queue = {}
  /\ Stop(j)
  /\ UNCHANGED <<bronze, state_log, silver, uploads, shocks, history>>

(* The part file a job is at, and whether there is one.                    *)
File(j) == <<job[j].current.run, job[j].file>>

AtFile(j) == pc[j] = "work" /\ job[j].file <= job[j].current.files

WroteSome(j) ==
  \E i \in 1..job[j].current.files : <<job[j].current.run, i>> \in job[j].written

(* Written that appends under --merge too.                                 *)
AppendAlways(j) == [silver EXCEPT ![File(j)] = @ + 1]

(* The table after one chunk: overwritten by the first chunk of a manifest *)
(* under --overwrite, upserted under --merge, appended to otherwise.       *)
Written(j) ==
  CASE job[j].command = "overwrite" /\ ~job[j].overwritten ->
         [f \in Files |-> IF f = File(j) THEN 1 ELSE 0]
    [] job[j].command = "merge" ->
         [silver EXCEPT ![File(j)] = IF @ = 0 THEN 1 ELSE @]
    [] OTHER ->
         [silver EXCEPT ![File(j)] = @ + 1]

WriteFile(j) ==
  /\ AtFile(j)
  /\ silver' = Written(j)
  /\ job' = [job EXCEPT ![j].file = @ + 1, ![j].read = TRUE, ![j].overwritten = TRUE,
                        ![j].written = @ \cup {File(j)}]
  /\ UNCHANGED <<bronze, state_log, pc, uploads, shocks, history>>

(* A file that cannot be read is counted and passed over, ...              *)
SkipUnread(j) ==
  /\ AtFile(j)
  /\ Disturb("readError", TRUE)
  /\ unread' = unread \cup {File(j)}
  /\ job' = [job EXCEPT ![j].file = @ + 1]
  /\ UNCHANGED <<bronze, state_log, silver, pc, uploads, refused>>

(* ... and so is one of which no record normalizes or a quality check      *)
(* fails.                                                                  *)
SkipRefused(j) ==
  /\ AtFile(j)
  /\ Disturb("rejected", TRUE)
  /\ refused' = refused \cup {File(j)}
  /\ job' = [job EXCEPT ![j].file = @ + 1, ![j].read = TRUE]
  /\ UNCHANGED <<bronze, state_log, silver, pc, uploads, unread>>

(* A write that fails (IcebergWriteError, a lost commit race) ends the     *)
(* manifest; the earlier files stay in the table.                          *)
FailWrite(j) ==
  /\ AtFile(j)
  /\ Disturb("writeError", TRUE)
  /\ Goto(j, "next")
  /\ UNCHANGED <<bronze, state_log, silver, job, uploads, unread, refused>>

(* Records were read and none was written.                                 *)
NothingWritten(j) == job[j].read /\ ~WroteSome(j)

(* A manifest marked before its last file.                                 *)
EndEarly(j) ==
  /\ pc[j] = "work"
  /\ job[j].file >= job[j].current.files
  /\ Goto(j, IF NothingWritten(j) THEN "next" ELSE "mark")
  /\ UNCHANGED <<bronze, state_log, silver, job, uploads, shocks, history>>

(* The end of process_manifest_chunked.                                    *)
EndManifest(j) ==
  /\ pc[j] = "work"
  /\ job[j].file > job[j].current.files
  /\ Goto(j, IF NothingWritten(j) THEN "next" ELSE "mark")
  /\ UNCHANGED <<bronze, state_log, silver, job, uploads, shocks, history>>

(* A mark that writes back the log as it was when the run began.           *)
MarkLoaded(j) ==
  /\ pc[j] = "mark"
  /\ Goto(j, "put")
  /\ job' = [job EXCEPT ![j].log = job[j].processed]
  /\ UNCHANGED <<bronze, state_log, silver, uploads, shocks, history>>

(* mark_processed reads the log, with an error of the GET as empty, ...    *)
MarkGet(j) ==
  /\ pc[j] = "mark"
  /\ \E runs \in {state_log, {}} :
       /\ IF runs = state_log THEN Calm ELSE Disturb("getError", TRUE)
       /\ job' = [job EXCEPT ![j].log = runs]
  /\ Goto(j, "put")
  /\ UNCHANGED <<bronze, state_log, silver, uploads, unread, refused>>

(* ... and writes it back with one entry more.                             *)
MarkPut(j) ==
  /\ pc[j] = "put"
  /\ state_log' = job[j].log \cup {job[j].current.run}
  /\ Goto(j, "next")
  /\ job' = [job EXCEPT ![j].log = {}]
  /\ UNCHANGED <<bronze, silver, uploads, shocks, history>>

(* The task dies, or an S3 call raises outside ProcessingError.  It can    *)
(* matter once a file of the current manifest is in the table.             *)
Crash(j) ==
  /\ pc[j] # "idle"
  /\ Disturb("crash", pc[j] \in {"work", "mark", "put"} /\ WroteSome(j))
  /\ Stop(j)
  /\ UNCHANGED <<bronze, state_log, silver, uploads, unread, refused>>

(* The scheduled command.                                                  *)
StartCatchup(j) == Start(j, "catchup", FALSE, 1, LastDay)

(* What a running job does of itself, and the files that go wrong.         *)
Progress(j) ==
  \/ Load(j) \/ ListDates(j) \/ ListManifests(j) \/ Select(j)
  \/ Take(j) \/ Finish(j)
  \/ WriteFile(j) \/ EndManifest(j) \/ MarkGet(j) \/ MarkPut(j)

JobStep(j) ==
  \/ \E command \in Commands, force \in BOOLEAN, from, to \in Days :
       Start(j, command, force, from, to)
  \/ Progress(j)
  \/ SkipUnread(j) \/ SkipRefused(j) \/ FailWrite(j)
  \/ Crash(j)

Next ==
  \/ \E r \in Runs : \E n \in 1..Parts[r] : Upload(r, n)
  \/ \E j \in Jobs : JobStep(j)

Spec == Init /\ [][Next]_vars

(* EventBridge starts the catch-up every ten minutes, and a job that is    *)
(* not killed goes on.                                                     *)
FairSpec ==
  Spec /\ \A j \in Jobs : WF_vars(Progress(j)) /\ WF_vars(StartCatchup(j))

(* ----------------------------- properties ----------------------------- *)

ManifestRecord == [run : Runs, files : Nat, at : Nat]

JobRecord ==
  [command : CommandNames, force : BOOLEAN,
   from : Days, to : Days, dates : SUBSET Days, found : SUBSET ManifestRecord,
   processed : SUBSET Runs, queue : SUBSET ManifestRecord,
   current : ManifestRecord, file : Nat \ {0}, read : BOOLEAN,
   written : SUBSET Files, overwritten : BOOLEAN, log : SUBSET Runs]

TypeOK ==
  /\ bronze \in [Runs -> [files : Nat, at : Nat]]
  /\ \A r \in Runs : bronze[r].files <= Parts[r]
  /\ state_log \subseteq Runs
  /\ silver \in [Files -> Nat]
  /\ pc \in [Jobs -> Steps \cup {"idle"}]
  /\ job \in [Jobs -> JobRecord]
  /\ uploads \in Nat
  /\ shocks \in Nat
  /\ events \subseteq Kinds \cup CommandNames
  /\ unread \subseteq Files
  /\ refused \subseteq Files

Without(kinds) == events \cap kinds = {}

FilesOf(r) == {r} \X (1..bronze[r].files)

(* A part file is in the table at most once, unless a run died or failed   *)
(* between two of its writes, its log was not read or a run was forced; as *)
(* long as every run was --merge or --overwrite, not even then.  Late,     *)
(* growing and unread manifests, unreadable and refused files do not       *)
(* matter.  Overlapping runs do.                                           *)
NoFileTwice ==
  (/\ Without({"overlap"})
   /\ \/ Without({"crash", "force", "getError", "writeError"})
      \/ Without({"catchup", "append"})) =>
    \A f \in Files : silver[f] <= 1

(* What the log says is processed is accounted for: every file the         *)
(* manifest lists is in the table, or could not be read, or was refused.   *)
(* Crashes, failed writes, lost logs, overlapping and forced runs do not   *)
(* matter; a manifest that grows after a job saw it, or --overwrite, does. *)
MarkedMeansStored ==
  Without({"growing", "overwrite"}) =>
    \A r \in state_log : \A f \in FilesOf(r) :
      silver[f] > 0 \/ f \in unread \cup refused

(* The log only grows, unless a GET of it fails or two runs write it.      *)
MarksKept ==
  [][Without({"getError", "overlap"})' => state_log \subseteq state_log']_vars

(* A snapshot of the same day, generated later, has been processed.        *)
Superseded(r) ==
  Catalog /\ \E s \in state_log : /\ SnapshotType[s] = "snapshot" /\ Dt[s] = Dt[r]
                                  /\ bronze[s].at > bronze[r].at

(* Every file of every manifest gets into the table in the end, or the     *)
(* manifest is superseded or the file could not be read: in spite of       *)
(* crashes and lost logs, unless a later date passed the manifest by       *)
(* because it came late, grew, was not read, or failed when a later one    *)
(* did not.                                                                *)
EventuallyStored ==
  \A r \in Runs :
    r \in Published ~>
      \/ \A f \in FilesOf(r) : silver[f] > 0 \/ f \in unread
      \/ Superseded(r)
      \/ ~Without({"late", "growing", "manifestError", "writeError", "rejected"})
=============================================================================
