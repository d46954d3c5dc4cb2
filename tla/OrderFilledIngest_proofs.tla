----------------------- MODULE OrderFilledIngest_proofs -----------------------
(***************************************************************************)
(* The ingestion of OrderFilled events for every feed, page size, batch    *)
(* size and set of jobs: types, the files that manifests list, that what   *)
(* is listed has no holes, and what can be listed twice.                   *)
(***************************************************************************)
EXTENDS OrderFilledIngest, FiniteSetTheorems, WellFoundedInduction, TLAPS

(* ------------------------- type correctness --------------------------- *)

LEMMA DivMonotone ==
  ASSUME NEW d \in Nat \ {0}, NEW a \in Nat, NEW b \in Nat, a <= b
  PROVE  a \div d <= b \div d /\ a \div d \in Nat
  OBVIOUS

LEMMA FeedType ==
  /\ Len(Ts) \in Events
  /\ \A e \in Events : Ts[e] \in Nat /\ Ts[e] <= Ts[Len(Ts)]
<1>1. Ts \in Seq(Nat) /\ Ts # <<>>
  BY IngestAssumption
<1>2. Len(Ts) \in Nat /\ Len(Ts) # 0
  BY <1>1
<1>3. Len(Ts) \in Events
  BY <1>2 DEF Events
<1>4. ASSUME NEW e \in Events PROVE Ts[e] \in Nat /\ Ts[e] <= Ts[Len(Ts)]
  <2>1. e \in 1..Len(Ts) /\ e <= Len(Ts)
    BY <1>2 DEF Events
  <2>2. Ts[e] \in Nat
    BY <1>1, <2>1
  <2>3. Ts[e] <= Ts[Len(Ts)]
    BY <1>3, <2>1, IngestAssumption
  <2> QED
    BY <2>2, <2>3
<1> QED
  BY <1>3, <1>4

LEMMA DaysType == DayOf(Ts[Len(Ts)]) \in Nat /\ Days \subseteq Nat /\ 0 \in Days
<1>1. Ts[Len(Ts)] \in Nat /\ DayLength \in Nat \ {0}
  BY FeedType, IngestAssumption
<1>2. DayOf(Ts[Len(Ts)]) \in Nat
  BY <1>1, DivMonotone DEF DayOf
<1> QED
  BY <1>2 DEF Days

LEMMA DayType ==
  ASSUME NEW e \in Events
  PROVE  DayOf(Ts[e]) \in Days
<1>1. Ts[e] \in Nat /\ Ts[Len(Ts)] \in Nat /\ Ts[e] <= Ts[Len(Ts)]
  BY FeedType
<1>2. DayOf(Ts[e]) <= DayOf(Ts[Len(Ts)]) /\ DayOf(Ts[e]) \in Nat
  BY <1>1, DivMonotone, IngestAssumption DEF DayOf
<1> QED
  BY <1>2, DaysType DEF Days

LEMMA IdleJobType == IdleJob \in JobRecord
  BY DaysType DEF IdleJob, JobRecord, Steps

LEMMA DayRunType ==
  ASSUME NEW from \in Days, NEW last \in Days
  PROVE  DayRun(from, last) \in JobRecord
<1>1. from \in Nat /\ DayLength \in Nat \ {0}
  BY DaysType, IngestAssumption
<1>2. from * DayLength - 1 \in Int
  BY <1>1
<1>3. (from + 1) * DayLength - 1 \in Nat
  <2>1. from * DayLength \in Nat
    BY <1>1
  <2>2. (from + 1) * DayLength = from * DayLength + DayLength
    BY <1>1
  <2> QED
    BY <1>1, <2>1, <2>2
<1> DEFINE low == from * DayLength - 1
           high == (from + 1) * DayLength - 1
<1> HIDE DEF low, high
<1>4. low \in Int /\ high \in Nat
  BY <1>2, <1>3 DEF low, high
<1>5. [IdleJob EXCEPT !.step = "page", !.command = "backfill", !.day = from, !.last = last,
                      !.cursor = low, !.to = high] \in JobRecord
  BY <1>4, IdleJobType DEF JobRecord, Steps
<1> QED
  BY <1>5 DEF DayRun, low, high

LEMMA AfterDayType ==
  ASSUME TypeOK, NEW j \in Jobs
  PROVE  AfterDay(j) \in JobRecord
<1>1. job[j] \in JobRecord
  BY DEF TypeOK
<1>2. job[j].day \in Days /\ job[j].last \in Days
  BY <1>1 DEF JobRecord
<1>3. job[j].day < job[j].last => job[j].day + 1 \in Days
  BY <1>2, DaysType DEF Days
<1> QED
  BY <1>2, <1>3, DayRunType, IdleJobType DEF AfterDay

LEMMA LowestIsIn ==
  ASSUME NEW S, NEW n
  PROVE  Lowest(S, n) \subseteq S
  BY DEF Lowest

LEMMA AdvanceType ==
  ASSUME TypeOK, NEW j \in Jobs, NEW r \in JobRecord
  PROVE  Advance(j, r) \in JobRecord
<1> DEFINE low == Lowest(r.buffer, BatchSize)
<1> HIDE DEF low
<1>1. r.buffer \in SUBSET Events /\ low \in SUBSET Events
  BY LowestIsIn DEF JobRecord, low
<1>2. r.buffer \ low \in SUBSET Events
  BY <1>1
<1>3. [r EXCEPT !.step = "part", !.batch = low, !.buffer = @ \ low] \in JobRecord
  BY <1>1, <1>2 DEF JobRecord, Steps
<1>4. [r EXCEPT !.step = "page"] \in JobRecord
  BY DEF JobRecord, Steps
<1>5. AfterDay(j) \in JobRecord
  BY AfterDayType
<1> QED
  BY <1>3, <1>4, <1>5 DEF Advance, low

LEMMA InitType == Init => TypeOK
  BY IdleJobType DEF Init, TypeOK, Kinds

LEMMA CalmType ==
  ASSUME TypeOK, UNCHANGED <<shocks, events>>
  PROVE  shocks' \in Nat /\ events' \subseteq Kinds
  BY DEF TypeOK

LEMMA DisturbType ==
  ASSUME TypeOK, NEW kind, NEW matters, Disturb(kind, matters)
  PROVE  shocks' \in Nat /\ events' \subseteq Kinds
  BY IngestAssumption DEF TypeOK, Disturb

(* A step that changes at most one job and the disturbances.               *)
LEMMA JobTypeStep ==
  ASSUME TypeOK, NEW j \in Jobs, NEW r \in JobRecord, job' = [job EXCEPT ![j] = r],
         UNCHANGED <<indexed, parts, manifests, runs, uploads>>,
         shocks' \in Nat, events' \subseteq Kinds
  PROVE  TypeOK'
  BY DEF TypeOK

LEMMA StartCatchupType ==
  ASSUME TypeOK, NEW j \in Jobs, StartCatchup(j)
  PROVE  TypeOK'
<1>1. shocks' \in Nat /\ events' \subseteq Kinds
  BY CalmType, DisturbType DEF StartCatchup, Calm
<1> DEFINE r == [job[j] EXCEPT !.step = "resume"]
<1>2. r \in JobRecord
  BY DEF TypeOK, JobRecord, Steps
<1>3. job' = [job EXCEPT ![j] = r]
  BY DEF StartCatchup, TypeOK
<1> HIDE DEF r
<1> QED
  BY <1>1, <1>2, <1>3, JobTypeStep DEF StartCatchup

LEMMA StartBackfillType ==
  ASSUME TypeOK, NEW j \in Jobs, NEW from \in Days, NEW last \in Days,
         StartBackfill(j, from, last)
  PROVE  TypeOK'
<1>1. shocks' \in Nat /\ events' \subseteq Kinds
  BY CalmType, DisturbType DEF StartBackfill, Calm
<1>2. DayRun(from, last) \in JobRecord
  BY DayRunType
<1> QED
  BY <1>1, <1>2, JobTypeStep DEF StartBackfill

LEMMA FindPartitionType ==
  ASSUME TypeOK, NEW j \in Jobs, FindPartition(j)
  PROVE  TypeOK'
<1>1. PICK d \in LatestPartition :
        job' = [job EXCEPT ![j].step = "source", ![j].day = d]
  BY DEF FindPartition
<1>2. d \in Days
  BY DEF LatestPartition, Greatest, Partitions, TypeOK, PartRecord
<1> DEFINE r == [job[j] EXCEPT !.step = "source", !.day = d]
<1>3. r \in JobRecord
  BY <1>2 DEF TypeOK, JobRecord, Steps
<1>4. job' = [job EXCEPT ![j] = r]
  BY <1>1 DEF TypeOK
<1> HIDE DEF r
<1> QED
  BY <1>3, <1>4, JobTypeStep, CalmType DEF FindPartition

LEMMA FindSourceType ==
  ASSUME TypeOK, NEW j \in Jobs, FindSource(j)
  PROVE  TypeOK'
<1> DEFINE newest == Newest({m \in manifests : m.day = job[j].day})
<1>1. CASE newest = {}
  BY <1>1, IdleJobType, JobTypeStep, CalmType DEF FindSource
<1>2. CASE newest # {}
  <2>1. PICK m \in newest : \E to \in UntilNow(m.latest) :
               job' = [job EXCEPT ![j] = [IdleJob EXCEPT !.step = "page",
                                            !.cursor = m.latest - 1, !.to = to]]
    BY <1>2 DEF FindSource
  <2>2. m.latest \in Nat
    BY DEF Newest, TypeOK, ManifestRecord
  <2>3. PICK to \in UntilNow(m.latest) :
               job' = [job EXCEPT ![j] = [IdleJob EXCEPT !.step = "page",
                                            !.cursor = m.latest - 1, !.to = to]]
    BY <2>1
  <2>4. to \in Nat /\ m.latest - 1 \in Int
    BY <2>2 DEF UntilNow
  <2>5. [IdleJob EXCEPT !.step = "page", !.cursor = m.latest - 1, !.to = to] \in JobRecord
    BY <2>4, IdleJobType DEF JobRecord, Steps
  <2> QED
    BY <2>3, <2>5, JobTypeStep, CalmType DEF FindSource
<1> QED
  BY <1>1, <1>2

LEMMA PageIsIn ==
  ASSUME TypeOK, NEW r
  PROVE  Page(r) \subseteq Events
<1>1. Visible \subseteq Events
  BY FeedType DEF Visible, TypeOK, Events
<1> QED
  BY <1>1, LowestIsIn DEF Page

LEMMA FetchPageType ==
  ASSUME TypeOK, NEW j \in Jobs, FetchPage(j)
  PROVE  TypeOK'
<1> DEFINE r == job[j]
           page == Page(r)
           short == Cardinality(page) < PageSize
<1>1. r \in JobRecord /\ page \in SUBSET Events
  BY PageIsIn DEF TypeOK
<1>2. CASE job' = [job EXCEPT ![j] = Advance(j, [r EXCEPT !.finished = TRUE])]
  <2>1. PICK yes \in BOOLEAN : yes = TRUE
    OBVIOUS
  <2>2. [r EXCEPT !.finished = yes] \in JobRecord
    BY <1>1 DEF JobRecord
  <2>3. Advance(j, [r EXCEPT !.finished = yes]) \in JobRecord
    BY <2>2, AdvanceType
  <2> QED
    BY <1>2, <2>1, <2>3, JobTypeStep, CalmType DEF FetchPage
<1>3. ASSUME NEW e \in Greatest(page),
             job' = [job EXCEPT ![j] = Advance(j,
                       [r EXCEPT !.buffer = @ \cup page, !.cursor = Ts[e],
                                 !.finished = Cardinality(page) < PageSize])]
      PROVE  TypeOK'
  <2>1. e \in Events
    BY <1>1 DEF Greatest
  <2>2. Ts[e] \in Int
    BY <2>1, FeedType
  <2>3. r.buffer \cup page \in SUBSET Events /\ short \in BOOLEAN
    BY <1>1 DEF JobRecord
  <2> HIDE DEF r, page, short
  <2>4. [r EXCEPT !.buffer = @ \cup page, !.cursor = Ts[e], !.finished = short] \in JobRecord
    BY <1>1, <2>2, <2>3 DEF JobRecord
  <2>5. Advance(j, [r EXCEPT !.buffer = @ \cup page, !.cursor = Ts[e], !.finished = short])
          \in JobRecord
    BY <2>4, AdvanceType
  <2> USE DEF r, page, short
  <2> QED
    BY <1>3, <2>5, JobTypeStep, CalmType DEF FetchPage
<1> QED
  BY <1>2, <1>3 DEF FetchPage

LEMMA FailType ==
  ASSUME TypeOK, NEW j \in Jobs, Fail(j)
  PROVE  TypeOK'
  BY AfterDayType, JobTypeStep, DisturbType DEF Fail

LEMMA CrashType ==
  ASSUME TypeOK, NEW j \in Jobs, Crash(j)
  PROVE  TypeOK'
  BY IdleJobType, JobTypeStep, DisturbType DEF Crash

LEMMA IndexType ==
  ASSUME TypeOK, Index
  PROVE  TypeOK'
<1>1. shocks' \in Nat /\ events' \subseteq Kinds
  BY CalmType, DisturbType DEF Index, Calm
<1>2. indexed' \in Events
  BY DEF Index
<1> QED
  BY <1>1, <1>2 DEF Index, TypeOK

LEMMA BatchDayType ==
  ASSUME NEW r \in JobRecord, NEW d \in BatchDay(r)
  PROVE  d \in Days
<1>1. PICK e \in r.batch : d = DayOf(Ts[e])
  BY DEF BatchDay, Least
<1>2. e \in Events
  BY <1>1 DEF JobRecord
<1> QED
  BY <1>1, <1>2, DayType

(* The part file of day d that a job in step "part" writes, and the job    *)
(* after that.                                                             *)
PartOf(r, d) ==
  [run |-> RunOf(r), day |-> d, part |-> PartNumber(r, d), events |-> OfDay(r, d)]

AfterPart(r, d, e) ==
  [r EXCEPT !.step = "manifest", !.run = RunOf(r), !.day = d,
            !.count = [r.count EXCEPT ![d] = @ + 1],
            !.latest = [r.latest EXCEPT ![d] = Ts[e]]]

LEMMA UploadPartEffect ==
  ASSUME TypeOK, NEW j \in Jobs, UploadPart(j)
  PROVE  \E d \in BatchDay(job[j]) : \E e \in Greatest(OfDay(job[j], d)) :
           /\ d \in Days
           /\ e \in OfDay(job[j], d)
           /\ PartOf(job[j], d) \in PartRecord
           /\ AfterPart(job[j], d, e) \in JobRecord
           /\ parts' = {p \in parts : Key(p) # Key(PartOf(job[j], d))} \cup {PartOf(job[j], d)}
           /\ job' = [job EXCEPT ![j] = AfterPart(job[j], d, e)]
<1> DEFINE r == job[j]
<1>1. r \in JobRecord
  BY DEF TypeOK
<1>2. PICK d \in BatchDay(r) : \E e \in Greatest(OfDay(r, d)) :
        /\ parts' = {p \in parts : Key(p) # Key(PartOf(r, d))} \cup {PartOf(r, d)}
        /\ job' = [job EXCEPT ![j].step = "manifest", ![j].run = RunOf(r), ![j].day = d,
                              ![j].count[d] = @ + 1, ![j].latest[d] = Ts[e]]
  BY DEF UploadPart, PartOf
<1>3. PICK e \in Greatest(OfDay(r, d)) :
        /\ parts' = {p \in parts : Key(p) # Key(PartOf(r, d))} \cup {PartOf(r, d)}
        /\ job' = [job EXCEPT ![j].step = "manifest", ![j].run = RunOf(r), ![j].day = d,
                              ![j].count[d] = @ + 1, ![j].latest[d] = Ts[e]]
  BY <1>2
<1>4. d \in Days
  BY <1>1, BatchDayType
<1>5. e \in OfDay(r, d) /\ OfDay(r, d) \in SUBSET Events
  BY <1>1 DEF Greatest, OfDay, JobRecord
<1>6. Ts[e] \in Nat
  BY <1>5, FeedType
<1>7. RunOf(r) \in Nat \ {0}
  BY <1>1 DEF RunOf, JobRecord, TypeOK
<1>8. r.count \in [Days -> Nat] /\ r.latest \in [Days -> Nat]
  BY <1>1 DEF JobRecord
<1>9. PartNumber(r, d) \in Nat \ {0}
  BY <1>4, <1>8 DEF PartNumber
<1>10. PartOf(r, d) \in PartRecord
  BY <1>4, <1>5, <1>7, <1>9 DEF PartOf, PartRecord
<1>11. AfterPart(r, d, e) \in JobRecord
  <2> DEFINE counted == [r.count EXCEPT ![d] = @ + 1]
             stamped == [r.latest EXCEPT ![d] = Ts[e]]
  <2>1. counted \in [Days -> Nat] /\ stamped \in [Days -> Nat]
    BY <1>4, <1>6, <1>8
  <2> HIDE DEF counted, stamped, r
  <2>2. [r EXCEPT !.step = "manifest", !.run = RunOf(r), !.day = d,
                  !.count = counted, !.latest = stamped] \in JobRecord
    BY <1>1, <1>4, <1>7, <2>1 DEF JobRecord, Steps
  <2> QED
    BY <2>2 DEF AfterPart, counted, stamped
<1>12. job' = [job EXCEPT ![j] = AfterPart(r, d, e)]
  BY <1>3 DEF AfterPart, TypeOK
<1> QED
  BY <1>3, <1>4, <1>5, <1>10, <1>11, <1>12

LEMMA UploadPartType ==
  ASSUME TypeOK, NEW j \in Jobs, UploadPart(j)
  PROVE  TypeOK'
<1>1. PICK part \in PartRecord, r \in JobRecord :
        /\ parts' = {p \in parts : Key(p) # Key(part)} \cup {part}
        /\ job' = [job EXCEPT ![j] = r]
  BY UploadPartEffect
<1>2. parts' \subseteq PartRecord
  BY <1>1 DEF TypeOK
<1>3. job' \in [Jobs -> JobRecord]
  BY <1>1 DEF TypeOK
<1>4. runs' \in Nat
  BY DEF UploadPart, TypeOK
<1> QED
  BY <1>2, <1>3, <1>4 DEF UploadPart, TypeOK

LEMMA UploadManifestType ==
  ASSUME TypeOK, NEW j \in Jobs, UploadManifest(j), job[j].run # 0
  PROVE  TypeOK'
<1> DEFINE r == job[j]
           manifest == [run |-> r.run, day |-> r.day, files |-> ManifestFiles(r),
                        latest |-> r.latest[r.day], at |-> uploads + 1]
<1>1. job' \in [Jobs -> JobRecord]
  <2>1. r \in JobRecord
    BY DEF TypeOK
  <2>2. [r EXCEPT !.batch = {}] \in JobRecord
    BY <2>1 DEF JobRecord
  <2>3. [r EXCEPT !.step = "part", !.batch = r.batch \ OfDay(r, r.day)] \in JobRecord
    BY <2>1 DEF JobRecord, Steps
  <2>4. Advance(j, [r EXCEPT !.batch = {}]) \in JobRecord
    BY <2>2, AdvanceType
  <2> QED
    BY <2>3, <2>4 DEF UploadManifest, TypeOK
<1>2. manifest \in ManifestRecord
  BY DEF TypeOK, JobRecord, ManifestRecord, ManifestFiles
<1>3. manifests' = {m \in manifests : m.run # r.run \/ m.day # r.day} \cup {manifest}
  BY DEF UploadManifest
<1>4. uploads' \in Nat
  BY DEF UploadManifest, TypeOK
<1> QED
  BY <1>1, <1>2, <1>3, <1>4 DEF UploadManifest, TypeOK

(* ----------------------- the files of a manifest ---------------------- *)

(* A job about to write a manifest has a run id.                           *)
Named == \A j \in Jobs : job[j].step = "manifest" => job[j].run # 0

(* Run ids are handed out once.                                            *)
RunsApart ==
  /\ \A p \in parts : p.run <= runs
  /\ \A j \in Jobs : job[j].run <= runs
  /\ \A i, j \in Jobs : i # j /\ job[i].run # 0 => job[i].run # job[j].run

(* A job counts exactly the part files of its run.                         *)
CountsExact ==
  \A j \in Jobs :
    /\ \A p \in parts : p.run = job[j].run => p.part <= job[j].count[p.day]
    /\ \A d \in Days : \A n \in 1..job[j].count[d] :
         \E p \in parts : Key(p) = <<job[j].run, d, n>>

FileInv == TypeOK /\ Named /\ RunsApart /\ CountsExact /\ ListedFilesExist

(* A job that is as it was, or has begun anew, as to the files it wrote.   *)
Resumed(i) ==
  /\ job'[i].step = "manifest" => job[i].step = "manifest" /\ job'[i].run = job[i].run
  /\ \/ job'[i].run = job[i].run /\ job'[i].count = job[i].count
     \/ job'[i].run = 0 /\ job'[i].count = [d \in Days |-> 0]

LEMMA FreshRecords ==
  /\ IdleJob.run = 0 /\ IdleJob.count = [d \in Days |-> 0] /\ IdleJob.step = "idle"
  /\ \A from, last \in Days :
       /\ DayRun(from, last).run = 0
       /\ DayRun(from, last).count = [d \in Days |-> 0]
       /\ DayRun(from, last).step = "page"
  BY DEF IdleJob, DayRun

LEMMA AfterDayFresh ==
  ASSUME TypeOK, NEW j \in Jobs
  PROVE  /\ AfterDay(j).run = 0
         /\ AfterDay(j).count = [d \in Days |-> 0]
         /\ AfterDay(j).step # "manifest"
<1>1. job[j].day \in Days /\ job[j].last \in Days
  BY DEF TypeOK, JobRecord
<1>2. job[j].day < job[j].last => job[j].day + 1 \in Days
  BY <1>1, DaysType DEF Days
<1> QED
  BY <1>1, <1>2, FreshRecords DEF AfterDay

LEMMA AdvanceKeeps ==
  ASSUME TypeOK, NEW j \in Jobs, NEW r \in JobRecord
  PROVE  /\ Advance(j, r).step # "manifest"
         /\ \/ Advance(j, r).run = r.run /\ Advance(j, r).count = r.count
            \/ Advance(j, r).run = 0 /\ Advance(j, r).count = [d \in Days |-> 0]
<1> DEFINE low == Lowest(r.buffer, BatchSize)
           cut == [r EXCEPT !.step = "part", !.batch = low, !.buffer = @ \ low]
           next == [r EXCEPT !.step = "page"]
<1> HIDE DEF low
<1>1. cut.run = r.run /\ cut.count = r.count /\ cut.step = "part"
  BY DEF JobRecord
<1>2. next.run = r.run /\ next.count = r.count /\ next.step = "page"
  BY DEF JobRecord
<1>3. \/ Advance(j, r) = cut
      \/ Advance(j, r) = next
      \/ Advance(j, r) = AfterDay(j)
  BY DEF Advance, low
<1> HIDE DEF cut, next
<1> QED
  BY <1>1, <1>2, <1>3, AfterDayFresh

LEMMA InitFiles == Init => FileInv
<1> SUFFICES ASSUME Init PROVE FileInv
  OBVIOUS
<1>1. \A j \in Jobs : job[j] = IdleJob
  BY DEF Init
<1>2. parts = {} /\ manifests = {} /\ runs = 0
  BY DEF Init
<1>3. Named /\ RunsApart
  BY <1>1, <1>2, FreshRecords DEF Named, RunsApart
<1>4. CountsExact
  <2>1. \A d \in Days : IdleJob.count[d] = 0
    BY FreshRecords
  <2>2. \A j \in Jobs : \A d \in Days : 1..job[j].count[d] = {}
    BY <1>1, <2>1
  <2> QED
    BY <1>2, <2>2 DEF CountsExact
<1> QED
  BY <1>2, <1>3, <1>4, InitType DEF FileInv, ListedFilesExist

(* Steps that write no part file.                                          *)
LEMMA ResumedStep ==
  ASSUME FileInv, TypeOK', \A i \in Jobs : Resumed(i), parts' = parts, runs' = runs
  PROVE  Named' /\ RunsApart' /\ CountsExact'
<1>1. \A p \in parts : p.run \in Nat \ {0} /\ p.part \in Nat \ {0} /\ p.day \in Days
  BY DEF FileInv, TypeOK, PartRecord
<1>2. \A j \in Jobs : job[j].run \in Nat /\ job'[j].run \in Nat
  BY DEF FileInv, TypeOK, JobRecord
<1>3. runs \in Nat
  BY DEF FileInv, TypeOK
<1>4. RunsApart'
  BY <1>2, <1>3 DEF FileInv, RunsApart, Resumed
<1>5. ASSUME NEW j \in Jobs
      PROVE  /\ \A p \in parts : p.run = job'[j].run => p.part <= job'[j].count[p.day]
             /\ \A d \in Days : \A n \in 1..job'[j].count[d] :
                  \E p \in parts : Key(p) = <<job'[j].run, d, n>>
  <2>1. CASE job'[j].run = job[j].run /\ job'[j].count = job[j].count
    BY <2>1 DEF FileInv, CountsExact
  <2>2. CASE job'[j].run = 0 /\ job'[j].count = [d \in Days |-> 0]
    <3>1. \A d \in Days : 1..job'[j].count[d] = {}
      BY <2>2
    <3> QED
      BY <1>1, <2>2, <3>1
  <2> QED
    BY <2>1, <2>2 DEF Resumed
<1>6. CountsExact'
  BY <1>5 DEF CountsExact, Key
<1>7. Named'
  <2> SUFFICES ASSUME NEW j \in Jobs, job'[j].step = "manifest" PROVE job'[j].run # 0
    BY DEF Named
  <2> QED
    BY DEF FileInv, Named, Resumed
<1> QED
  BY <1>4, <1>6, <1>7

(* One job is replaced by a record that Resumed admits.                    *)
LEMMA OneResumes ==
  ASSUME TypeOK, NEW j \in Jobs, NEW r, job' = [job EXCEPT ![j] = r],
         r.step # "manifest" \/ (r.step = job[j].step /\ r.run = job[j].run),
         \/ r.run = job[j].run /\ r.count = job[j].count
         \/ r.run = 0 /\ r.count = [d \in Days |-> 0]
  PROVE  \A i \in Jobs : Resumed(i)
<1> SUFFICES ASSUME NEW i \in Jobs PROVE Resumed(i)
  OBVIOUS
<1>1. CASE i = j
  <2>1. job'[i] = r
    BY <1>1 DEF TypeOK
  <2> QED
    BY <1>1, <2>1 DEF Resumed
<1>2. CASE i # j
  <2>1. job'[i] = job[i]
    BY <1>2 DEF TypeOK
  <2> QED
    BY <2>1 DEF Resumed
<1> QED
  BY <1>1, <1>2

LEMMA StartCatchupResumes ==
  ASSUME TypeOK, NEW j \in Jobs, StartCatchup(j)
  PROVE  \A i \in Jobs : Resumed(i)
<1> DEFINE r == [job[j] EXCEPT !.step = "resume"]
<1>1. r.run = job[j].run /\ r.count = job[j].count /\ r.step = "resume"
  BY DEF TypeOK, JobRecord
<1>2. job' = [job EXCEPT ![j] = r]
  BY DEF StartCatchup, TypeOK
<1> HIDE DEF r
<1> QED
  BY <1>1, <1>2, OneResumes

LEMMA FindPartitionResumes ==
  ASSUME TypeOK, NEW j \in Jobs, FindPartition(j)
  PROVE  \A i \in Jobs : Resumed(i)
<1>1. PICK d \in LatestPartition :
        job' = [job EXCEPT ![j].step = "source", ![j].day = d]
  BY DEF FindPartition
<1> DEFINE r == [job[j] EXCEPT !.step = "source", !.day = d]
<1>2. r.run = job[j].run /\ r.count = job[j].count /\ r.step = "source"
  BY DEF TypeOK, JobRecord
<1>3. job' = [job EXCEPT ![j] = r]
  BY <1>1 DEF TypeOK
<1> HIDE DEF r
<1> QED
  BY <1>2, <1>3, OneResumes

LEMMA FindSourceResumes ==
  ASSUME TypeOK, NEW j \in Jobs, FindSource(j)
  PROVE  \A i \in Jobs : Resumed(i)
<1>1. CASE job' = [job EXCEPT ![j] = IdleJob]
  BY <1>1, OneResumes, FreshRecords
<1>2. ASSUME NEW cursor, NEW to,
             job' = [job EXCEPT ![j] = [IdleJob EXCEPT !.step = "page",
                                          !.cursor = cursor, !.to = to]]
      PROVE  \A i \in Jobs : Resumed(i)
  <2> DEFINE r == [IdleJob EXCEPT !.step = "page", !.cursor = cursor, !.to = to]
  <2>1. r.run = 0 /\ r.count = [d \in Days |-> 0] /\ r.step = "page"
    BY DEF IdleJob
  <2>2. job' = [job EXCEPT ![j] = r]
    BY <1>2
  <2> HIDE DEF r
  <2> QED
    BY <2>1, <2>2, OneResumes
<1> QED
  BY <1>1, <1>2 DEF FindSource

LEMMA FetchPageResumes ==
  ASSUME TypeOK, NEW j \in Jobs, FetchPage(j)
  PROVE  \A i \in Jobs : Resumed(i)
<1> DEFINE r == job[j]
           page == Page(r)
           short == Cardinality(page) < PageSize
<1>1. r \in JobRecord /\ page \in SUBSET Events
  BY PageIsIn DEF TypeOK
<1>2. ASSUME NEW q \in JobRecord, q.run = r.run, q.count = r.count,
             job' = [job EXCEPT ![j] = Advance(j, q)]
      PROVE  \A i \in Jobs : Resumed(i)
  BY <1>2, AdvanceKeeps, OneResumes
<1>3. CASE job' = [job EXCEPT ![j] = Advance(j, [r EXCEPT !.finished = TRUE])]
  <2>1. PICK yes \in BOOLEAN : yes = TRUE
    OBVIOUS
  <2> DEFINE q == [r EXCEPT !.finished = yes]
  <2>2. q \in JobRecord /\ q.run = r.run /\ q.count = r.count
    BY <1>1 DEF JobRecord
  <2>3. job' = [job EXCEPT ![j] = Advance(j, q)]
    BY <1>3, <2>1
  <2> HIDE DEF q
  <2> QED
    BY <1>2, <2>2, <2>3
<1>4. ASSUME NEW e \in Greatest(page),
             job' = [job EXCEPT ![j] = Advance(j,
                       [r EXCEPT !.buffer = @ \cup page, !.cursor = Ts[e],
                                 !.finished = Cardinality(page) < PageSize])]
      PROVE  \A i \in Jobs : Resumed(i)
  <2>1. Ts[e] \in Int
    BY <1>1, FeedType DEF Greatest
  <2>2. r.buffer \cup page \in SUBSET Events /\ short \in BOOLEAN
    BY <1>1 DEF JobRecord
  <2> HIDE DEF page, short
  <2> DEFINE q == [r EXCEPT !.buffer = @ \cup page, !.cursor = Ts[e], !.finished = short]
  <2>3. q \in JobRecord /\ q.run = r.run /\ q.count = r.count
    BY <1>1, <2>1, <2>2 DEF JobRecord
  <2>4. job' = [job EXCEPT ![j] = Advance(j, q)]
    BY <1>4 DEF page, short
  <2> HIDE DEF q
  <2> QED
    BY <1>2, <2>3, <2>4
<1> QED
  BY <1>3, <1>4 DEF FetchPage

LEMMA UploadManifestResumes ==
  ASSUME TypeOK, NEW j \in Jobs, UploadManifest(j)
  PROVE  \A i \in Jobs : Resumed(i)
<1> DEFINE r == job[j]
           rest == r.batch \ OfDay(r, r.day)
<1>1. r \in JobRecord
  BY DEF TypeOK
<1>2. CASE rest # {}
  <2> DEFINE q == [r EXCEPT !.step = "part", !.batch = rest]
  <2>1. q.run = r.run /\ q.count = r.count /\ q.step = "part"
    BY <1>1 DEF JobRecord
  <2>2. job' = [job EXCEPT ![j] = q]
    BY <1>2 DEF UploadManifest
  <2> HIDE DEF q
  <2> QED
    BY <2>1, <2>2, OneResumes
<1>3. CASE rest = {}
  <2> DEFINE q == [r EXCEPT !.batch = {}]
  <2>1. q \in JobRecord /\ q.run = r.run /\ q.count = r.count
    BY <1>1 DEF JobRecord
  <2>2. job' = [job EXCEPT ![j] = Advance(j, q)]
    BY <1>3 DEF UploadManifest
  <2> HIDE DEF q
  <2> QED
    BY <2>1, <2>2, AdvanceKeeps, OneResumes
<1> QED
  BY <1>2, <1>3

(* The job that writes a part file gives it a key of its own.              *)
LEMMA UploadPartFiles ==
  ASSUME FileInv, NEW j \in Jobs, UploadPart(j)
  PROVE  FileInv' /\ parts \subseteq parts'
<1> DEFINE r == job[j]
<1>t. TypeOK
  BY DEF FileInv
<1>0. PICK d \in BatchDay(r) : \E e \in OfDay(r, d) :
        /\ d \in Days
        /\ PartOf(r, d) \in PartRecord
        /\ AfterPart(r, d, e) \in JobRecord
        /\ parts' = {p \in parts : Key(p) # Key(PartOf(r, d))} \cup {PartOf(r, d)}
        /\ job' = [job EXCEPT ![j] = AfterPart(r, d, e)]
  BY <1>t, UploadPartEffect
<1>1. PICK e \in OfDay(r, d) :
        /\ d \in Days
        /\ PartOf(r, d) \in PartRecord
        /\ AfterPart(r, d, e) \in JobRecord
        /\ parts' = {p \in parts : Key(p) # Key(PartOf(r, d))} \cup {PartOf(r, d)}
        /\ job' = [job EXCEPT ![j] = AfterPart(r, d, e)]
  BY <1>0
<1> DEFINE new == PartOf(r, d)
           q == AfterPart(r, d, e)
<1>2. /\ r \in JobRecord /\ r.run \in Nat /\ r.count \in [Days -> Nat] /\ runs \in Nat
      /\ \A p \in parts : p \in PartRecord
      /\ \A i \in Jobs : job[i].run \in Nat
  BY <1>t DEF TypeOK, JobRecord
<1>3. /\ new.run = RunOf(r) /\ new.day = d /\ new.part = r.count[d] + 1
      /\ Key(new) = <<RunOf(r), d, r.count[d] + 1>>
  BY DEF PartOf, PartNumber, Key
<1>4. q.run = RunOf(r) /\ q.count = [r.count EXCEPT ![d] = @ + 1]
  BY <1>2 DEF AfterPart, JobRecord
<1>5. job'[j] = q /\ \A i \in Jobs \ {j} : job'[i] = job[i]
  BY <1>1, <1>t DEF TypeOK
<1>6. \A p \in parts : p.run \in Nat \ {0} /\ p.part \in Nat \ {0} /\ p.day \in Days
  BY <1>2 DEF PartRecord
<1>7. RunOf(r) \in Nat \ {0} /\ RunOf(r) <= runs' /\ runs <= runs' /\ runs' \in Nat
  BY <1>2, <1>t DEF UploadPart, RunOf, FileInv, RunsApart
<1>8. r.run = 0 => \A c \in Days : r.count[c] = 0
  <2> SUFFICES ASSUME r.run = 0, NEW c \in Days, r.count[c] # 0 PROVE FALSE
    OBVIOUS
  <2>1. 1 \in 1..r.count[c]
    BY <1>2
  <2>2. PICK p \in parts : Key(p) = <<r.run, c, 1>>
    BY <2>1 DEF FileInv, CountsExact
  <2> QED
    BY <2>2, <1>6 DEF Key
<1>9. \A p \in parts : p.run = RunOf(r) => p.part <= r.count[p.day]
  <2>1. CASE r.run = 0
    BY <2>1, <1>2, <1>6 DEF RunOf, FileInv, RunsApart
  <2>2. CASE r.run # 0
    BY <2>2 DEF RunOf, FileInv, CountsExact
  <2> QED
    BY <2>1, <2>2
<1>10. \A p \in parts : Key(p) # Key(new)
  <2> SUFFICES ASSUME NEW p \in parts, Key(p) = Key(new) PROVE FALSE
    OBVIOUS
  <2>1. p.run = RunOf(r) /\ p.day = d /\ p.part = r.count[d] + 1
    BY <1>3 DEF Key
  <2>2. r.count[d] \in Nat
    BY <1>1, <1>2
  <2> QED
    BY <1>9, <2>1, <2>2
<1>11. parts' = parts \cup {new}
  BY <1>1, <1>10
<1> HIDE DEF new, q
<1>12. \A i \in Jobs \ {j} : job[i].run # RunOf(r)
  <2>1. CASE r.run = 0
    BY <2>1, <1>2 DEF RunOf, FileInv, RunsApart
  <2>2. CASE r.run # 0
    BY <2>2 DEF RunOf, FileInv, RunsApart
  <2> QED
    BY <2>1, <2>2
<1>13. RunsApart'
  <2>1. \A p \in parts' : p.run <= runs'
    BY <1>2, <1>3, <1>6, <1>7, <1>11 DEF FileInv, RunsApart
  <2>2. \A i \in Jobs : job'[i].run <= runs'
    BY <1>2, <1>4, <1>5, <1>7 DEF FileInv, RunsApart
  <2>3. \A i, k \in Jobs : i # k /\ job'[i].run # 0 => job'[i].run # job'[k].run
    BY <1>4, <1>5, <1>12 DEF FileInv, RunsApart
  <2> QED
    BY <2>1, <2>2, <2>3 DEF RunsApart
<1>14. ASSUME NEW i \in Jobs
       PROVE  /\ \A p \in parts' : p.run = job'[i].run => p.part <= job'[i].count[p.day]
              /\ \A c \in Days : \A n \in 1..job'[i].count[c] :
                   \E p \in parts' : Key(p) = <<job'[i].run, c, n>>
  <2>1. CASE i # j
    <3>1. job'[i] = job[i] /\ new.run # job[i].run
      BY <2>1, <1>3, <1>5, <1>12
    <3> QED
      BY <3>1, <1>11 DEF FileInv, CountsExact
  <2>2. CASE i = j
    <3>1. \A c \in Days : /\ r.count[c] \in Nat
                          /\ q.count[c] = IF c = d THEN r.count[c] + 1 ELSE r.count[c]
      BY <1>2, <1>4
    <3>2. job'[i].run = RunOf(r) /\ job'[i].count = q.count
      BY <2>2, <1>4, <1>5
    <3>3. \A p \in parts : p.run = RunOf(r) => p.part <= q.count[p.day]
      <4> SUFFICES ASSUME NEW p \in parts, p.run = RunOf(r) PROVE p.part <= q.count[p.day]
        OBVIOUS
      <4>1. p.part <= r.count[p.day] /\ p.day \in Days /\ p.part \in Nat
        BY <1>6, <1>9
      <4>2. q.count[p.day] = r.count[p.day] + 1 \/ q.count[p.day] = r.count[p.day]
        BY <3>1, <4>1
      <4>3. r.count[p.day] \in Nat
        BY <3>1, <4>1
      <4> HIDE DEF r
      <4> QED
        BY <4>1, <4>2, <4>3
    <3>4. new.part <= q.count[new.day]
      BY <1>1, <1>3, <3>1
    <3>5. ASSUME NEW c \in Days, NEW n \in 1..q.count[c]
          PROVE  \E p \in parts' : Key(p) = <<RunOf(r), c, n>>
      <4>1. CASE n \in 1..r.count[c]
        <5>1. r.run # 0
          BY <4>1, <1>8
        <5>2. RunOf(r) = r.run
          BY <5>1 DEF RunOf
        <5> QED
          BY <4>1, <5>2, <1>11 DEF FileInv, CountsExact
      <4>2. CASE n \notin 1..r.count[c]
        <5>1. c = d /\ n = r.count[d] + 1
          BY <4>2, <3>1
        <5> QED
          BY <5>1, <1>3, <1>11
      <4> QED
        BY <4>1, <4>2
    <3> QED
      BY <3>2, <3>3, <3>4, <3>5, <1>11
  <2> QED
    BY <2>1, <2>2
<1>15. CountsExact'
  BY <1>14 DEF CountsExact, Key
<1>16. Named'
  BY <1>4, <1>5, <1>7 DEF FileInv, Named
<1>17. ListedFilesExist'
  BY <1>11 DEF UploadPart, FileInv, ListedFilesExist, Key
<1>18. TypeOK'
  BY <1>t, UploadPartType
<1> QED
  BY <1>11, <1>13, <1>15, <1>16, <1>17, <1>18 DEF FileInv

LEMMA UploadManifestFiles ==
  ASSUME FileInv, NEW j \in Jobs, UploadManifest(j)
  PROVE  FileInv' /\ parts \subseteq parts'
<1> DEFINE r == job[j]
           manifest == [run |-> r.run, day |-> r.day, files |-> ManifestFiles(r),
                        latest |-> r.latest[r.day], at |-> uploads + 1]
<1>1. TypeOK'
  BY UploadManifestType DEF FileInv, Named, UploadManifest
<1>2. Named' /\ RunsApart' /\ CountsExact'
  BY <1>1, UploadManifestResumes, ResumedStep DEF UploadManifest, FileInv
<1>3. manifests' = {m \in manifests : m.run # r.run \/ m.day # r.day} \cup {manifest}
  BY DEF UploadManifest
<1>4. r.day \in Days
  BY DEF FileInv, TypeOK, JobRecord
<1>5. \A n \in manifest.files : \E p \in parts : Key(p) = <<manifest.run, manifest.day, n>>
  BY <1>4 DEF FileInv, CountsExact, ManifestFiles
<1> HIDE DEF manifest
<1>6. ListedFilesExist'
  BY <1>3, <1>5 DEF UploadManifest, FileInv, ListedFilesExist, Key
<1> QED
  BY <1>1, <1>2, <1>6 DEF FileInv, UploadManifest

(* Every other step of a job.                                              *)
LEMMA OtherFiles ==
  ASSUME FileInv, TypeOK', \A i \in Jobs : Resumed(i),
         UNCHANGED <<parts, manifests, runs>>
  PROVE  FileInv' /\ parts \subseteq parts'
<1>1. Named' /\ RunsApart' /\ CountsExact'
  BY ResumedStep
<1>2. ListedFilesExist'
  BY DEF FileInv, ListedFilesExist, Key
<1> QED
  BY <1>1, <1>2 DEF FileInv

LEMMA FileStep ==
  ASSUME FileInv, [Next]_vars
  PROVE  FileInv' /\ parts \subseteq parts'
<1>t. TypeOK
  BY DEF FileInv
<1>1. CASE Index
  <2>1. \A i \in Jobs : Resumed(i)
    BY <1>1 DEF Index, Resumed
  <2> QED
    BY <1>1, <1>t, <2>1, IndexType, OtherFiles DEF Index
<1>2. ASSUME NEW j \in Jobs, StartCatchup(j)
      PROVE  FileInv' /\ parts \subseteq parts'
  BY <1>2, <1>t, StartCatchupType, StartCatchupResumes, OtherFiles DEF StartCatchup
<1>3. ASSUME NEW j \in Jobs, NEW from \in Days, NEW last \in Days,
             StartBackfill(j, from, last)
      PROVE  FileInv' /\ parts \subseteq parts'
  <2>1. \A i \in Jobs : Resumed(i)
    BY <1>3, <1>t, FreshRecords, OneResumes DEF StartBackfill
  <2> QED
    BY <1>3, <1>t, <2>1, StartBackfillType, OtherFiles DEF StartBackfill
<1>4. ASSUME NEW j \in Jobs, FindPartition(j)
      PROVE  FileInv' /\ parts \subseteq parts'
  BY <1>4, <1>t, FindPartitionType, FindPartitionResumes, OtherFiles DEF FindPartition
<1>5. ASSUME NEW j \in Jobs, FindSource(j)
      PROVE  FileInv' /\ parts \subseteq parts'
  BY <1>5, <1>t, FindSourceType, FindSourceResumes, OtherFiles DEF FindSource
<1>6. ASSUME NEW j \in Jobs, FetchPage(j)
      PROVE  FileInv' /\ parts \subseteq parts'
  BY <1>6, <1>t, FetchPageType, FetchPageResumes, OtherFiles DEF FetchPage
<1>7. ASSUME NEW j \in Jobs, Fail(j)
      PROVE  FileInv' /\ parts \subseteq parts'
  <2>1. \A i \in Jobs : Resumed(i)
    BY <1>7, <1>t, AfterDayFresh, OneResumes DEF Fail
  <2> QED
    BY <1>7, <1>t, <2>1, FailType, OtherFiles DEF Fail
<1>8. ASSUME NEW j \in Jobs, Crash(j)
      PROVE  FileInv' /\ parts \subseteq parts'
  <2>1. \A i \in Jobs : Resumed(i)
    BY <1>8, <1>t, FreshRecords, OneResumes DEF Crash
  <2> QED
    BY <1>8, <1>t, <2>1, CrashType, OtherFiles DEF Crash
<1>9. CASE UNCHANGED vars
  BY <1>9 DEF vars, FileInv, TypeOK, Named, RunsApart, CountsExact, ListedFilesExist, Key
<1> QED
  BY <1>1, <1>2, <1>3, <1>4, <1>5, <1>6, <1>7, <1>8, <1>9, UploadPartFiles,
     UploadManifestFiles DEF Next, JobStep, Progress

THEOREM FilesInvariant == Spec => []FileInv
<1>1. Init => FileInv
  BY InitFiles
<1>2. FileInv /\ [Next]_vars => FileInv'
  BY FileStep
<1> QED
  BY <1>1, <1>2, PTL DEF Spec

(* The state of the ingestion is well typed in every reachable state.      *)
THEOREM TypeCorrect == Spec => []TypeOK
<1>1. FileInv => TypeOK
  BY DEF FileInv
<1> QED
  BY <1>1, FilesInvariant, PTL

(* Every file a manifest lists exists, through crashes between a part file *)
(* and its manifest, overlapping runs and repairs.                         *)
THEOREM ManifestsAreBacked == Spec => []ListedFilesExist
<1>1. FileInv => ListedFilesExist
  BY DEF FileInv
<1> QED
  BY <1>1, FilesInvariant, PTL

(* No part file is overwritten or removed, by whichever job.               *)
THEOREM PartsAreKept == Spec => PartsKept
<1>1. FileInv /\ [Next]_vars => [parts \subseteq parts']_vars
  BY FileStep
<1> QED
  BY <1>1, FilesInvariant, PTL DEF Spec, PartsKept

(* ------------------------- Bronze has no holes ------------------------ *)

(* An event of a set, or one that shares its timestamp with an earlier     *)
(* event of it.                                                            *)
Reached(S, e) == e \in S \/ \E f \in S : f < e /\ Ts[f] = Ts[e]

AllListed == {e \in Events : Listed(e)}

ListedPart(p) == \E m \in manifests : m.run = p.run /\ m.day = p.day /\ p.part \in m.files

Active(r) == r.step \in {"page", "part", "manifest"}

Pending(r) == r.buffer \cup r.batch

(* The feed grows at its end, what is stored comes from it, and a manifest *)
(* lists no more files than its run has written.                           *)
FeedInv ==
  /\ \A e \in Visible, n \in Events \ Visible : Ts[e] < Ts[n]
  /\ \A p \in parts : /\ p.events # {} /\ p.events \subseteq Visible
                      /\ \A e \in p.events : DayOf(Ts[e]) = p.day
  /\ \A m \in manifests : \E p \in parts : \E e \in p.events :
       ListedPart(p) /\ p.run = m.run /\ Ts[e] = m.latest /\ DayOf(Ts[e]) = m.day
  /\ \A m \in manifests : m.run <= runs
  /\ \A m \in manifests, j \in Jobs :
       m.run = job[j].run => m.files \subseteq 1..job[j].count[m.day]

(* The file of the day's events of the batch, written but not yet listed.  *)
JustWritten(r, p) ==
  p.run = r.run /\ p.day = r.day /\ p.part = r.count[r.day] /\ p.events = OfDay(r, r.day)

FirstOfDay(d) == d * DayLength

(* What a job has in hand when the visible events are V and the files P.   *)
InOrder(r, V) ==
  /\ Pending(r) \subseteq V
  /\ \A e \in Pending(r) : Ts[e] <= r.cursor
  /\ \A b \in r.batch, u \in r.buffer : b < u
  /\ r.command = "backfill" =>
       /\ r.cursor >= FirstOfDay(r.day) - 1 /\ r.to = FirstOfDay(r.day + 1) - 1
       /\ \A e \in Pending(r) : DayOf(Ts[e]) = r.day

Tidy(r, V, P) ==
  /\ r.step \notin {"part", "manifest"} => r.batch = {}
  /\ ~Active(r) => r.buffer = {}
  /\ Active(r) => InOrder(r, V)
  /\ r.step = "manifest" =>
       /\ \E p \in P : JustWritten(r, p)
       /\ \E e \in Greatest(OfDay(r, r.day)) : r.latest[r.day] = Ts[e]

AllTidy == \A j \in Jobs : Tidy(job[j], Visible, parts)

(* A backfill that has fetched the last page of a day and will go on with  *)
(* the next one.                                                           *)
Passing(r) == r.command = "backfill" /\ r.finished /\ r.day < r.last

(* A job has seen all that there is at time t.                              *)
Seen(r, t) == t <= r.cursor \/ (Passing(r) /\ t <= r.to)

(* There is a partition of this event's day or an earlier one.             *)
Begun(D, e) == \E d \in D : d <= DayOf(Ts[e])

(* The events that a job must have in hand or find listed.                 *)
Charged(r, D, e) == Begun(D, e) \/ (r.command = "backfill" /\ r.day <= DayOf(Ts[e]))

(* A job leaves nothing behind, when V are the visible and L the listed    *)
(* events and D the partitions.                                            *)
Sweeps(r, V, L, D) ==
  /\ \A e \in V :
       Charged(r, D, e) /\ Seen(r, Ts[e]) => Reached(L \cup Pending(r), e)
  /\ \A n \in Events \ V :
       Ts[n] <= r.cursor => r.command = "backfill" /\ DayOf(Ts[n]) < r.day
  /\ D # {} =>
       /\ \A x \in Pending(r) : Begun(D, x)
       /\ IF r.command = "backfill" THEN \E d \in D : d <= r.day
          ELSE \E e \in V : Begun(D, e) /\ Ts[e] <= r.cursor + 1

(* The first backfill runs alone.                                          *)
FirstAlone ==
  parts = {} =>
    /\ \A i, j \in Jobs : job[i].step # "idle" /\ job[j].step # "idle" => i = j
    /\ \A j \in Jobs : job[j].step # "idle" => job[j].command = "backfill" /\ Active(job[j])

(* Nothing is missing below an event that is stored.                       *)
NoneBelow ==
  \A p \in parts : \A g \in p.events : \A e \in Events :
    e < g /\ Begun(Partitions, e) => Reached(AllListed \cup p.events, e)

Orderly == Without({"error", "gap", "late"})

SweepInv ==
  Orderly =>
    /\ FirstAlone
    /\ \A j \in Jobs : Active(job[j]) => Sweeps(job[j], Visible, AllListed, Partitions)
    /\ NoneBelow

(* ------------------------- pages and batches -------------------------- *)

LEMMA EventsFinite ==
  /\ Events \subseteq Nat /\ IsFiniteSet(Events)
  /\ \A S \in SUBSET Events : IsFiniteSet(S) /\ Cardinality(S) \in Nat
<1>1. Len(Ts) \in Nat
  BY FeedType DEF Events
<1>2. Events \subseteq Nat /\ IsFiniteSet(Events)
  BY <1>1, FS_Interval DEF Events
<1> QED
  BY <1>2, FS_Subset, FS_CardinalityType

LEMMA LeastExists ==
  ASSUME NEW S \in SUBSET Nat, S # {}
  PROVE  \E x \in S : \A y \in S : x <= y
<1>1. PICK x \in S : \A y \in S : <<y, x>> \notin OpToRel(<, Nat)
  BY NatLessThanWellFounded, WFMin
<1>2. ASSUME NEW y \in S, y < x PROVE FALSE
  BY <1>1, <1>2 DEF OpToRel
<1> QED
  BY <1>2

(* What Lowest takes is below what it leaves.                              *)
LEMMA LowestIsLow ==
  ASSUME NEW S \in SUBSET Events, NEW n \in Nat,
         NEW e \in Lowest(S, n), NEW f \in S \ Lowest(S, n)
  PROVE  e < f
<1>0. S \subseteq Nat
  BY EventsFinite
<1>1. e \in Nat /\ f \in Nat /\ e \in S
  BY <1>0 DEF Lowest
<1> SUFFICES ASSUME f <= e PROVE FALSE
  BY <1>1
<1> DEFINE Below(x) == {y \in S : y < x}
<1>2. Below(f) \subseteq Below(e)
  <2> SUFFICES ASSUME NEW y \in S, y < f PROVE y < e
    OBVIOUS
  <2> QED
    BY <1>0, <1>1
<1>3. /\ IsFiniteSet(Below(e)) /\ Cardinality(Below(e)) \in Nat
      /\ Cardinality(Below(f)) \in Nat
  BY EventsFinite
<1>4. Cardinality(Below(f)) <= Cardinality(Below(e))
  BY <1>2, <1>3, FS_Subset
<1>5. Cardinality(Below(e)) < n /\ ~(Cardinality(Below(f)) < n)
  BY DEF Lowest
<1> QED
  BY <1>3, <1>4, <1>5

(* It takes everything if it takes fewer than it may.                      *)
LEMMA ShortTakesAll ==
  ASSUME NEW S \in SUBSET Events, NEW n \in Nat, Cardinality(Lowest(S, n)) < n
  PROVE  Lowest(S, n) = S
<1>1. Lowest(S, n) \subseteq S
  BY DEF Lowest
<1> SUFFICES ASSUME S \ Lowest(S, n) # {} PROVE FALSE
  BY <1>1
<1>2. PICK e \in S \ Lowest(S, n) : \A f \in S \ Lowest(S, n) : e <= f
  <2>1. S \ Lowest(S, n) \in SUBSET Nat
    BY EventsFinite
  <2> QED
    BY <2>1, LeastExists
<1> DEFINE Below == {y \in S : y < e}
<1>3. Below \subseteq Lowest(S, n)
  <2>1. S \subseteq Nat
    BY EventsFinite
  <2> SUFFICES ASSUME NEW y \in S, y < e, y \notin Lowest(S, n) PROVE FALSE
    OBVIOUS
  <2>2. e <= y
    BY <1>2
  <2> QED
    BY <2>1, <2>2
<1>4. ~(Cardinality(Below) < n)
  BY <1>2 DEF Lowest
<1>5. /\ IsFiniteSet(Lowest(S, n)) /\ Cardinality(Lowest(S, n)) \in Nat
      /\ Cardinality(Below) \in Nat
  BY <1>1, EventsFinite
<1>6. Cardinality(Below) <= Cardinality(Lowest(S, n))
  BY <1>3, <1>5, FS_Subset
<1> QED
  BY <1>4, <1>5, <1>6

LEMMA EmptyTakesAll ==
  ASSUME NEW S \in SUBSET Events, NEW n \in Nat \ {0}, Lowest(S, n) = {}
  PROVE  S = {}
<1>1. Cardinality(Lowest(S, n)) < n
  BY FS_EmptySet
<1> QED
  BY <1>1, ShortTakesAll

(* ------------------------------ effects ------------------------------- *)

Elsewhere(j) == \A i \in Jobs \ {j} : job'[i] = job[i]

StoreAside == UNCHANGED <<parts, manifests, runs, uploads>>

SameRun(a, r) ==
  /\ a.command = r.command /\ a.day = r.day /\ a.last = r.last /\ a.to = r.to
  /\ a.finished = r.finished /\ a.run = r.run /\ a.count = r.count /\ a.latest = r.latest

LEMMA DayRunFields ==
  ASSUME NEW d, NEW last, NEW r, r = DayRun(d, last)
  PROVE  /\ r.step = "page" /\ r.command = "backfill" /\ r.day = d /\ r.last = last
         /\ r.cursor = FirstOfDay(d) - 1 /\ r.to = FirstOfDay(d + 1) - 1
         /\ r.finished = FALSE /\ r.buffer = {} /\ r.batch = {} /\ r.run = 0
BY DEF DayRun, IdleJob, FirstOfDay

LEMMA IdleJobFields ==
  /\ IdleJob.step = "idle" /\ IdleJob.buffer = {} /\ IdleJob.batch = {} /\ IdleJob.run = 0
  /\ IdleJob.command = "catchup" /\ IdleJob.finished = FALSE
BY DEF IdleJob

(* What AfterDay leads to.                                                 *)
LEMMA AfterDayEffect ==
  ASSUME TypeOK, NEW j \in Jobs
  PROVE  \/ /\ job[j].command = "backfill" /\ job[j].day < job[j].last
            /\ job[j].day + 1 \in Days /\ job[j].last \in Days
            /\ AfterDay(j) = DayRun(job[j].day + 1, job[j].last)
         \/ AfterDay(j) = IdleJob
<1>1. job[j].day \in Days /\ job[j].last \in Days
  BY DEF TypeOK, JobRecord
<1>2. job[j].day < job[j].last => job[j].day + 1 \in Days
  BY <1>1, DaysType DEF Days
<1> QED
  BY <1>1, <1>2 DEF AfterDay

(* A step by Advance from a record without a batch.                        *)
LEMMA AdvanceEffect ==
  ASSUME TypeOK, NEW j \in Jobs, NEW r \in JobRecord, r.batch = {}
  PROVE  LET a == Advance(j, r)
         IN  \/ /\ a.step \in {"page", "part"} /\ SameRun(a, r) /\ a.cursor = r.cursor
                /\ Pending(a) = r.buffer
                /\ \A b \in a.batch, u \in a.buffer : b < u
                /\ a.step = "page" => a.batch = {}
             \/ r.finished /\ r.buffer = {} /\ a = AfterDay(j)
<1> DEFINE low == Lowest(r.buffer, BatchSize)
           high == r.buffer \ low
           cut == [r EXCEPT !.step = "part", !.batch = low, !.buffer = high]
           next == [r EXCEPT !.step = "page"]
<1>0. r.buffer \in SUBSET Events
  BY DEF JobRecord
<1>1. low \subseteq r.buffer /\ \A b \in low, u \in high : b < u
  BY <1>0, LowestIsIn, LowestIsLow, IngestAssumption
<1>2. \/ Advance(j, r) = cut
      \/ Advance(j, r) = next
      \/ r.finished /\ r.buffer = {} /\ Advance(j, r) = AfterDay(j)
  BY DEF Advance, JobRecord
<1> HIDE DEF low, high
<1>3. /\ cut.step = "part" /\ SameRun(cut, r) /\ cut.cursor = r.cursor
      /\ cut.batch = low /\ cut.buffer = high
  BY DEF JobRecord, SameRun
<1>4. /\ next.step = "page" /\ SameRun(next, r) /\ next.cursor = r.cursor
      /\ next.batch = r.batch /\ next.buffer = r.buffer
  BY DEF JobRecord, SameRun
<1> HIDE DEF cut, next
<1>5. Pending(cut) = r.buffer
  BY <1>1, <1>3 DEF Pending, high
<1>6. Pending(next) = r.buffer
  BY <1>4 DEF Pending
<1> QED
  BY <1>1, <1>2, <1>3, <1>4, <1>5, <1>6

LEMMA StartCatchupEffect ==
  ASSUME TypeOK, NEW j \in Jobs, StartCatchup(j)
  PROVE  /\ indexed' = indexed /\ StoreAside /\ Elsewhere(j)
         /\ job[j].step = "idle" /\ job'[j].step = "resume"
         /\ job'[j].buffer = job[j].buffer /\ job'[j].batch = job[j].batch
         /\ job'[j].run = job[j].run
         /\ parts # {} /\ (Busy => "overlap" \in events')
BY DEF StartCatchup, TypeOK, JobRecord, Elsewhere, StoreAside, Disturb

LEMMA StartBackfillEffect ==
  ASSUME TypeOK, NEW j \in Jobs, NEW from \in Days, NEW last \in Days,
         StartBackfill(j, from, last)
  PROVE  /\ indexed' = indexed /\ StoreAside /\ Elsewhere(j)
         /\ job[j].step = "idle" /\ job'[j] = DayRun(from, last)
         /\ \/ parts = {} /\ ~Busy
            \/ from \in Partitions /\ "repair" \in events'
            \/ "gap" \in events'
BY DEF StartBackfill, TypeOK, Elsewhere, StoreAside, Disturb

LEMMA FindPartitionEffect ==
  ASSUME TypeOK, NEW j \in Jobs, FindPartition(j)
  PROVE  /\ indexed' = indexed /\ StoreAside /\ Elsewhere(j)
         /\ job[j].step = "resume" /\ job'[j].step = "source"
         /\ job'[j].buffer = job[j].buffer /\ job'[j].batch = job[j].batch
         /\ job'[j].run = job[j].run /\ job'[j].day \in LatestPartition
<1>1. PICK d \in LatestPartition :
        job' = [job EXCEPT ![j].step = "source", ![j].day = d]
  BY DEF FindPartition
<1> QED
  BY <1>1 DEF FindPartition, TypeOK, JobRecord, Elsewhere, StoreAside

LEMMA FindSourceEffect ==
  ASSUME TypeOK, NEW j \in Jobs, FindSource(j)
  PROVE  /\ indexed' = indexed /\ StoreAside /\ Elsewhere(j) /\ job[j].step = "source"
         /\ \/ job'[j] = IdleJob
            \/ \E m \in Newest({n \in manifests : n.day = job[j].day}) :
                 /\ m \in manifests /\ m.day = job[j].day
                 /\ job'[j].step = "page" /\ job'[j].command = "catchup"
                 /\ job'[j].cursor = m.latest - 1 /\ job'[j].finished = FALSE
                 /\ job'[j].buffer = {} /\ job'[j].batch = {} /\ job'[j].run = 0
<1> DEFINE newest == Newest({m \in manifests : m.day = job[j].day})
<1>0. indexed' = indexed /\ StoreAside /\ job[j].step = "source"
  BY DEF FindSource, StoreAside
<1>1. CASE newest = {}
  BY <1>0, <1>1 DEF FindSource, TypeOK, Elsewhere
<1>2. CASE newest # {}
  <2>1. PICK m \in newest : \E to \in UntilNow(m.latest) :
               job' = [job EXCEPT ![j] = [IdleJob EXCEPT !.step = "page",
                                            !.cursor = m.latest - 1, !.to = to]]
    BY <1>2 DEF FindSource
  <2>2. PICK to \in UntilNow(m.latest) :
               job' = [job EXCEPT ![j] = [IdleJob EXCEPT !.step = "page",
                                            !.cursor = m.latest - 1, !.to = to]]
    BY <2>1
  <2> DEFINE r == [IdleJob EXCEPT !.step = "page", !.cursor = m.latest - 1, !.to = to]
  <2>3. /\ r.step = "page" /\ r.command = "catchup" /\ r.cursor = m.latest - 1
        /\ r.finished = FALSE /\ r.buffer = {} /\ r.batch = {} /\ r.run = 0
    BY DEF IdleJob
  <2> HIDE DEF r
  <2>4. job' = [job EXCEPT ![j] = r]
    BY <2>2 DEF r
  <2>5. m \in manifests /\ m.day = job[j].day
    BY DEF Newest
  <2> QED
    BY <1>0, <2>3, <2>4, <2>5 DEF TypeOK, Elsewhere
<1> QED
  BY <1>1, <1>2

(* What one page adds to what a job has seen.                              *)
Fetched(q, r) ==
  /\ q.buffer = r.buffer \cup Page(r) /\ q.batch = r.batch
  /\ q.command = r.command /\ q.day = r.day /\ q.last = r.last /\ q.to = r.to
  /\ q.run = r.run /\ q.count = r.count /\ q.latest = r.latest
  /\ r.cursor <= q.cursor
  /\ q.cursor = r.cursor \/ \E x \in Page(r) : q.cursor = Ts[x]
  /\ \A e \in Page(r) :
       e \in Visible /\ r.cursor < Ts[e] /\ Ts[e] <= r.to /\ Ts[e] <= q.cursor
  /\ \A e \in Visible :
       r.cursor < Ts[e] /\ (Ts[e] <= q.cursor \/ (q.finished /\ Ts[e] <= r.to)) =>
         Reached(Page(r), e)

LEMMA VisibleType ==
  TypeOK => Visible \subseteq Events /\ \A e \in Events : Ts[e] \in Nat /\ e \in Nat
BY FeedType, EventsFinite DEF TypeOK, Visible, Events

LEMMA FetchEffect ==
  ASSUME TypeOK, NEW j \in Jobs, FetchPage(j)
  PROVE  /\ indexed' = indexed /\ StoreAside /\ Elsewhere(j) /\ job[j].step = "page"
         /\ \E q \in JobRecord : Fetched(q, job[j]) /\ job'[j] = Advance(j, q)
<1> DEFINE r == job[j]
           page == Page(r)
           S == {e \in Visible : r.cursor < Ts[e] /\ Ts[e] <= r.to}
<1>0. indexed' = indexed /\ StoreAside /\ r.step = "page"
  BY DEF FetchPage, StoreAside
<1>1. /\ r \in JobRecord /\ r.cursor \in Int /\ r.to \in Nat /\ page \in SUBSET Events
      /\ S \in SUBSET Events /\ \A e \in Events : Ts[e] \in Nat /\ e \in Nat
  BY PageIsIn, VisibleType DEF TypeOK, JobRecord
<1>2. page = Lowest(S, PageSize) /\ PageSize \in Nat \ {0}
  BY IngestAssumption DEF Page
<1>3. \A e \in page : e \in Visible /\ r.cursor < Ts[e] /\ Ts[e] <= r.to
  BY <1>2, LowestIsIn
<1>4. page = {} \/ Cardinality(page) < PageSize => page = S
  BY <1>1, <1>2, ShortTakesAll, EmptyTakesAll
<1>5. \A e \in S : e \in page \/ \A f \in page : f < e
  BY <1>1, <1>2, LowestIsLow
<1>6. CASE page = {} /\ job' = [job EXCEPT ![j] = Advance(j, [r EXCEPT !.finished = TRUE])]
  <2> DEFINE q == [r EXCEPT !.finished = TRUE]
  <2>1. /\ q.command = r.command /\ q.day = r.day /\ q.last = r.last /\ q.to = r.to
        /\ q.run = r.run /\ q.count = r.count /\ q.latest = r.latest
        /\ q.buffer = r.buffer /\ q.batch = r.batch /\ q.cursor = r.cursor
    BY <1>1 DEF JobRecord
  <2>2. q \in JobRecord
    <3>1. PICK yes \in BOOLEAN : yes = TRUE
      OBVIOUS
    <3>2. [r EXCEPT !.finished = yes] \in JobRecord
      BY <1>1 DEF JobRecord
    <3> QED
      BY <3>1, <3>2
  <2>3. job'[j] = Advance(j, q) /\ Elsewhere(j)
    BY <1>6 DEF TypeOK, Elsewhere
  <2> HIDE DEF q
  <2>4. S = {}
    BY <1>4, <1>6
  <2>5. \A e \in Visible : r.cursor < Ts[e] => ~(Ts[e] <= r.to) /\ ~(Ts[e] <= q.cursor)
    <3> SUFFICES ASSUME NEW e \in Visible, r.cursor < Ts[e]
                 PROVE  ~(Ts[e] <= r.to) /\ ~(Ts[e] <= q.cursor)
      OBVIOUS
    <3>1. Ts[e] \in Nat
      BY VisibleType, <1>1
    <3>2. e \notin S
      BY <2>4
    <3> QED
      BY <1>1, <2>1, <3>1, <3>2
  <2>6. q.buffer = r.buffer \cup page
    BY <1>6, <2>1
  <2>7. Fetched(q, r)
    BY <1>1, <1>3, <1>6, <2>1, <2>5, <2>6 DEF Fetched
  <2> QED
    BY <1>0, <2>2, <2>3, <2>7
<1>7. ASSUME NEW x \in Greatest(page),
             job' = [job EXCEPT ![j] = Advance(j,
                       [r EXCEPT !.buffer = @ \cup page, !.cursor = Ts[x],
                                 !.finished = Cardinality(page) < PageSize])]
      PROVE  Elsewhere(j) /\ \E q \in JobRecord : Fetched(q, r) /\ job'[j] = Advance(j, q)
  <2> DEFINE short == Cardinality(page) < PageSize
             all == r.buffer \cup page
             q == [r EXCEPT !.buffer = all, !.cursor = Ts[x], !.finished = short]
  <2>0. x \in page /\ x \in Events /\ \A f \in page : f <= x
    BY <1>1 DEF Greatest
  <2>1. all \in SUBSET Events /\ short \in BOOLEAN /\ Ts[x] \in Int
    BY <1>1, <2>0 DEF JobRecord
  <2>2. job'[j] = Advance(j, q) /\ Elsewhere(j)
    BY <1>7 DEF TypeOK, JobRecord, Elsewhere
  <2> HIDE DEF short, all
  <2>3. /\ q.command = r.command /\ q.day = r.day /\ q.last = r.last /\ q.to = r.to
        /\ q.run = r.run /\ q.count = r.count /\ q.latest = r.latest
        /\ q.buffer = all /\ q.batch = r.batch /\ q.cursor = Ts[x] /\ q.finished = short
    BY <1>1 DEF JobRecord
  <2>4. q \in JobRecord
    BY <1>1, <2>1 DEF JobRecord
  <2> HIDE DEF q
  <2>5. \A e \in page : Ts[e] <= Ts[x]
    BY <1>1, <2>0, IngestAssumption
  <2>6. ASSUME NEW e \in Visible, r.cursor < Ts[e],
               Ts[e] <= Ts[x] \/ (short /\ Ts[e] <= r.to)
        PROVE  Reached(page, e)
    <3>0. e \in Events /\ Ts[e] \in Nat
      BY VisibleType
    <3>1. CASE short /\ Ts[e] <= r.to
      <4>1. e \in S
        BY <2>6, <3>1
      <4> QED
        BY <1>4, <3>1, <4>1 DEF Reached, short
    <3>2. CASE Ts[e] <= Ts[x]
      <4>1. Ts[x] <= r.to /\ Ts[x] \in Nat
        BY <1>1, <1>3, <2>0
      <4>2. e \in S
        BY <1>1, <2>6, <3>0, <3>2, <4>1
      <4>3. CASE e \in page
        BY <4>3 DEF Reached
      <4>4. CASE e \notin page
        <5>1. x < e
          BY <1>5, <2>0, <4>2, <4>4
        <5>2. Ts[x] <= Ts[e]
          BY <1>1, <2>0, <3>0, <5>1, IngestAssumption
        <5> QED
          BY <2>0, <3>0, <3>2, <4>1, <5>1, <5>2 DEF Reached
      <4> QED
        BY <4>3, <4>4
    <3> QED
      BY <2>6, <3>1, <3>2
  <2>7. r.cursor <= Ts[x]
    BY <1>1, <1>3, <2>0
  <2>8. Fetched(q, r)
    BY <1>3, <2>0, <2>3, <2>5, <2>6, <2>7 DEF Fetched, all
  <2> QED
    BY <2>2, <2>4, <2>8
<1> QED
  BY <1>0, <1>6, <1>7 DEF FetchPage

(* The job that has written a part file holds what it held.                *)
SameHand(a, r) ==
  /\ a.command = r.command /\ a.last = r.last /\ a.cursor = r.cursor /\ a.to = r.to
  /\ a.finished = r.finished /\ a.buffer = r.buffer /\ a.batch = r.batch

LEMMA PartEffect ==
  ASSUME FileInv, NEW j \in Jobs, UploadPart(j)
  PROVE  /\ indexed' = indexed /\ manifests' = manifests /\ uploads' = uploads
         /\ Elsewhere(j) /\ job[j].step = "part" /\ job'[j].step = "manifest"
         /\ SameHand(job'[j], job[j])
         /\ runs <= runs' /\ job'[j].run = RunOf(job[j])
         /\ RunOf(job[j]) = job[j].run \/ (job[j].run = 0 /\ RunOf(job[j]) = runs + 1)
         /\ \E d \in Days, x \in Least(job[j].batch) : \E e \in Greatest(OfDay(job[j], d)) :
              /\ d = DayOf(Ts[x]) /\ job'[j].day = d
              /\ job'[j].latest[d] = Ts[e]
              /\ job'[j].count = [job[j].count EXCEPT ![d] = @ + 1]
              /\ parts' = parts \cup {PartOf(job[j], d)}
              /\ JustWritten(job'[j], PartOf(job[j], d))
<1> DEFINE r == job[j]
<1>0. TypeOK /\ r \in JobRecord /\ runs \in Nat
  BY DEF FileInv, TypeOK
<1>1. PICK d \in BatchDay(r) : \E e \in Greatest(OfDay(r, d)) :
        /\ d \in Days /\ PartOf(r, d) \in PartRecord
        /\ parts' = {p \in parts : Key(p) # Key(PartOf(r, d))} \cup {PartOf(r, d)}
        /\ job' = [job EXCEPT ![j] = AfterPart(r, d, e)]
  BY <1>0, UploadPartEffect
<1>2. PICK e \in Greatest(OfDay(r, d)) :
        /\ d \in Days /\ PartOf(r, d) \in PartRecord
        /\ parts' = {p \in parts : Key(p) # Key(PartOf(r, d))} \cup {PartOf(r, d)}
        /\ job' = [job EXCEPT ![j] = AfterPart(r, d, e)]
  BY <1>1
<1>3. PICK x \in Least(r.batch) : d = DayOf(Ts[x])
  BY DEF BatchDay
<1> DEFINE a == AfterPart(r, d, e)
           counted == [r.count EXCEPT ![d] = @ + 1]
           stamped == [r.latest EXCEPT ![d] = Ts[e]]
<1>4. r.count \in [Days -> Nat] /\ r.latest \in [Days -> Nat]
  BY <1>0 DEF JobRecord
<1>5. counted[d] = r.count[d] + 1 /\ stamped[d] = Ts[e]
  BY <1>2, <1>4
<1> HIDE DEF counted, stamped
<1>6. /\ SameHand(a, r) /\ a.step = "manifest" /\ a.run = RunOf(r) /\ a.day = d
      /\ a.count = counted /\ a.latest = stamped
  BY <1>0 DEF AfterPart, SameHand, JobRecord, counted, stamped
<1>7. job'[j] = a /\ Elsewhere(j)
  BY <1>0, <1>2 DEF TypeOK, Elsewhere
<1> HIDE DEF a
<1>8. parts' = parts \cup {PartOf(r, d)}
  <2>1. parts \subseteq parts'
    BY UploadPartFiles
  <2> QED
    BY <1>2, <2>1
<1>9. JustWritten(a, PartOf(r, d))
  <2>1. OfDay(a, d) = OfDay(r, d)
    BY <1>6 DEF OfDay, SameHand
  <2> QED
    BY <1>5, <1>6, <2>1 DEF JustWritten, PartOf, PartNumber
<1>10. /\ indexed' = indexed /\ manifests' = manifests /\ uploads' = uploads
       /\ r.step = "part" /\ runs' = IF r.run = 0 THEN runs + 1 ELSE runs
  BY DEF UploadPart
<1>11. /\ runs <= runs'
       /\ RunOf(r) = r.run \/ (r.run = 0 /\ RunOf(r) = runs + 1)
  BY <1>0, <1>10 DEF RunOf
<1>12. a.latest[d] = Ts[e] /\ a.count = [r.count EXCEPT ![d] = @ + 1]
  BY <1>5, <1>6 DEF counted
<1> QED
  BY <1>2, <1>3, <1>6, <1>7, <1>8, <1>9, <1>10, <1>11, <1>12

(* The manifest a job writes.                                              *)
ManifestOf(r) ==
  [run |-> r.run, day |-> r.day, files |-> ManifestFiles(r),
   latest |-> r.latest[r.day], at |-> uploads + 1]

LEMMA ManifestEffect ==
  ASSUME TypeOK, NEW j \in Jobs, UploadManifest(j)
  PROVE  /\ indexed' = indexed /\ parts' = parts /\ runs' = runs /\ Elsewhere(j)
         /\ job[j].step = "manifest" /\ uploads' = uploads + 1
         /\ manifests' = {m \in manifests : m.run # job[j].run \/ m.day # job[j].day}
                           \cup {ManifestOf(job[j])}
         /\ \E q \in JobRecord :
              /\ SameRun(q, job[j]) /\ q.cursor = job[j].cursor /\ q.buffer = job[j].buffer
              /\ q.batch = job[j].batch \ OfDay(job[j], job[j].day)
              /\ \/ q.batch # {} /\ q.step = "part" /\ job'[j] = q
                 \/ q.batch = {} /\ job'[j] = Advance(j, q)
<1> DEFINE r == job[j]
           rest == r.batch \ OfDay(r, r.day)
<1>0. r \in JobRecord /\ rest \in SUBSET Events
  BY DEF TypeOK, JobRecord
<1>1. /\ indexed' = indexed /\ parts' = parts /\ runs' = runs
      /\ r.step = "manifest" /\ uploads' = uploads + 1
      /\ manifests' = {m \in manifests : m.run # r.run \/ m.day # r.day} \cup {ManifestOf(r)}
  BY DEF UploadManifest, ManifestOf
<1> DEFINE q1 == [r EXCEPT !.step = "part", !.batch = rest]
           q2 == [r EXCEPT !.batch = {}]
<1>2. \/ rest # {} /\ job' = [job EXCEPT ![j] = q1]
      \/ rest = {} /\ job' = [job EXCEPT ![j] = Advance(j, q2)]
  BY DEF UploadManifest
<1> HIDE DEF rest
<1>3. /\ q1 \in JobRecord /\ SameRun(q1, r) /\ q1.cursor = r.cursor /\ q1.buffer = r.buffer
      /\ q1.batch = rest /\ q1.step = "part"
  BY <1>0 DEF JobRecord, Steps, SameRun
<1>4. /\ q2 \in JobRecord /\ SameRun(q2, r) /\ q2.cursor = r.cursor /\ q2.buffer = r.buffer
      /\ q2.batch = {}
  BY <1>0 DEF JobRecord, SameRun
<1> HIDE DEF q1, q2
<1>5. Elsewhere(j) /\ (job'[j] = q1 \/ rest = {})
      /\ (job'[j] = Advance(j, q2) \/ rest # {})
  BY <1>2 DEF TypeOK, Elsewhere
<1>6. CASE rest # {}
  BY <1>1, <1>3, <1>5, <1>6 DEF rest
<1>7. CASE rest = {}
  BY <1>1, <1>4, <1>5, <1>7 DEF rest
<1> QED
  BY <1>6, <1>7

LEMMA FailEffect ==
  ASSUME TypeOK, NEW j \in Jobs, Fail(j)
  PROVE  /\ indexed' = indexed /\ StoreAside /\ Elsewhere(j) /\ job[j].step # "idle"
         /\ job'[j] = AfterDay(j)
         /\ AfterDay(j) = IdleJob \/ job[j].command # "backfill" \/ "error" \in events'
BY DEF Fail, TypeOK, Elsewhere, StoreAside, Disturb

LEMMA CrashEffect ==
  ASSUME TypeOK, NEW j \in Jobs, Crash(j)
  PROVE  /\ indexed' = indexed /\ StoreAside /\ Elsewhere(j) /\ job'[j] = IdleJob
         /\ job[j].step # "idle"
BY DEF Crash, TypeOK, Elsewhere, StoreAside

LEMMA IndexEffect ==
  ASSUME TypeOK, Index
  PROVE  /\ job' = job /\ StoreAside
         /\ \E n \in Events :
              /\ n \notin Visible /\ Visible \subseteq Visible'
              /\ \A e \in Visible' \ Visible : e \in Events /\ Ts[e] = Ts[n]
              /\ \A e \in Events \ Visible' : Ts[n] < Ts[e]
              /\ LeftBehind(DayOf(Ts[n])) => "late" \in events'
<1>1. PICK n \in Events :
        /\ indexed < n /\ \A e \in (indexed + 1)..n : Ts[e] = Ts[n]
        /\ n + 1 \in Events => Ts[n + 1] # Ts[n]
        /\ indexed' = n
        /\ IF LeftBehind(DayOf(Ts[n])) THEN Disturb("late", TRUE) ELSE Calm
  BY DEF Index
<1>2. indexed \in Nat /\ n \in Nat /\ Events \subseteq Nat /\ \A e \in Events : Ts[e] \in Nat
  BY FeedType, EventsFinite DEF TypeOK
<1>3. Visible = 1..indexed /\ Visible' = 1..n
  BY <1>1 DEF Visible
<1>4. n \notin Visible /\ Visible \subseteq Visible'
  BY <1>1, <1>2, <1>3
<1>5. \A e \in Visible' \ Visible : e \in Events /\ Ts[e] = Ts[n]
  BY <1>1, <1>2, <1>3, FeedType DEF Events
<1>6. ASSUME NEW e \in Events \ Visible' PROVE Ts[n] < Ts[e]
  <2>1. n + 1 <= e /\ e \in Nat
    BY <1>2, <1>3, FeedType DEF Events
  <2>2. n + 1 \in Events
    BY <1>2, <2>1, FeedType DEF Events
  <2>3. Ts[n] <= Ts[n + 1] /\ Ts[n + 1] <= Ts[e]
    BY <1>2, <2>1, <2>2, IngestAssumption
  <2> QED
    BY <1>1, <1>2, <2>2, <2>3
<1>7. LeftBehind(DayOf(Ts[n])) => "late" \in events'
  BY <1>1 DEF Disturb
<1> QED
  BY <1>4, <1>5, <1>6, <1>7 DEF Index, StoreAside

LEMMA DayBounds ==
  ASSUME NEW t \in Nat, NEW d \in Nat
  PROVE  /\ FirstOfDay(d) \in Nat /\ DayOf(t) \in Nat
         /\ DayOf(t) < d <=> t <= FirstOfDay(d) - 1
         /\ FirstOfDay(d + 1) = FirstOfDay(d) + DayLength
<1> DEFINE q == t \div DayLength
           a == q * DayLength
           b == d * DayLength
<1>0. DayLength \in Nat \ {0}
  BY IngestAssumption
<1>1. q \in Nat /\ a <= t /\ t < a + DayLength /\ a \in Nat /\ b \in Nat
  BY <1>0
<1>2. (d + 1) * DayLength = b + DayLength
  BY <1>0
<1>3. q < d => a + DayLength <= b
  <2> SUFFICES ASSUME q < d PROVE a + DayLength <= b
    OBVIOUS
  <2>1. PICK k \in Nat : d = q + 1 + k
    <3>1. d - q - 1 \in Nat /\ d = q + 1 + (d - q - 1)
      BY <1>1
    <3> QED
      BY <3>1
  <2>2. b = a + DayLength + k * DayLength /\ k * DayLength \in Nat
    BY <1>0, <1>1, <2>1
  <2> HIDE DEF a, b
  <2> QED
    BY <1>0, <1>1, <2>2
<1>4. ~(q < d) => b <= a
  <2> SUFFICES ASSUME ~(q < d) PROVE b <= a
    OBVIOUS
  <2>1. PICK k \in Nat : q = d + k
    <3>1. q - d \in Nat /\ q = d + (q - d)
      BY <1>1
    <3> QED
      BY <3>1
  <2>2. a = b + k * DayLength /\ k * DayLength \in Nat
    BY <1>0, <1>1, <2>1
  <2> HIDE DEF a, b
  <2> QED
    BY <1>0, <1>1, <2>2
<1>5. DayOf(t) = q /\ FirstOfDay(d) = b /\ FirstOfDay(d + 1) = (d + 1) * DayLength
  BY DEF DayOf, FirstOfDay
<1> HIDE DEF a, b, q
<1> QED
  BY <1>0, <1>1, <1>2, <1>3, <1>4, <1>5

(* The visible events are of the days between the first and the last.      *)
LEMMA VisibleDays ==
  TypeOK => \A e \in Events : DayOf(Ts[e]) \in Nat /\ Ts[e] \in Nat /\ e \in Nat
BY VisibleType, DayBounds

LEMMA JobFields ==
  ASSUME TypeOK, NEW j \in Jobs
  PROVE  /\ job[j] \in JobRecord /\ job[j].day \in Days /\ job[j].day \in Nat
         /\ job[j].last \in Days /\ job[j].last \in Nat
         /\ job[j].cursor \in Int /\ job[j].to \in Nat
         /\ job[j].buffer \in SUBSET Events /\ job[j].batch \in SUBSET Events
         /\ job[j].run \in Nat /\ job[j].count \in [Days -> Nat]
         /\ Pending(job[j]) \in SUBSET Events
BY DaysType DEF TypeOK, JobRecord, Pending

LEMMA FreshTidy ==
  ASSUME NEW V, NEW P
  PROVE  /\ Tidy(IdleJob, V, P)
         /\ \A d, last \in Days : Tidy(DayRun(d, last), V, P) /\ InOrder(DayRun(d, last), V)
<1>1. Tidy(IdleJob, V, P)
  BY IdleJobFields DEF Tidy, Active
<1>2. ASSUME NEW d \in Days, NEW last \in Days
      PROVE  Tidy(DayRun(d, last), V, P) /\ InOrder(DayRun(d, last), V)
  <2>0. PICK r : r = DayRun(d, last)
    OBVIOUS
  <2>1. /\ r.step = "page" /\ r.command = "backfill" /\ r.day = d
        /\ r.cursor = FirstOfDay(d) - 1 /\ r.to = FirstOfDay(d + 1) - 1
        /\ r.buffer = {} /\ r.batch = {}
    BY <2>0 DEF DayRun, IdleJob, FirstOfDay
  <2>2. FirstOfDay(d) \in Nat
    BY DaysType, DayBounds
  <2>3. InOrder(r, V)
    BY <2>1, <2>2 DEF InOrder, Pending
  <2>4. Tidy(r, V, P)
    BY <2>1, <2>3 DEF Tidy
  <2> QED
    BY <2>0, <2>3, <2>4
<1> QED
  BY <1>1, <1>2

LEMMA AdvanceTidy ==
  ASSUME TypeOK, NEW j \in Jobs, NEW q \in JobRecord, NEW V, NEW P,
         q.batch = {}, InOrder(q, V)
  PROVE  Tidy(Advance(j, q), V, P)
<1> DEFINE a == Advance(j, q)
<1>1. CASE /\ a.step \in {"page", "part"} /\ SameRun(a, q) /\ a.cursor = q.cursor
           /\ Pending(a) = q.buffer
           /\ \A b \in a.batch, u \in a.buffer : b < u
           /\ a.step = "page" => a.batch = {}
  <2> HIDE DEF a
  <2>1. Pending(a) = Pending(q)
    BY <1>1 DEF Pending
  <2>2. InOrder(a, V)
    BY <1>1, <2>1 DEF InOrder, SameRun
  <2> QED
    BY <1>1, <2>2 DEF Tidy, Active, a
<1>2. CASE a = AfterDay(j)
  BY <1>2, AfterDayEffect, FreshTidy
<1> QED
  BY <1>1, <1>2, AdvanceEffect

(* More visible events and more files disturb nothing.                     *)
LEMMA TidyStays ==
  ASSUME NEW r, NEW V, NEW W, NEW P, NEW Q, Tidy(r, V, P), V \subseteq W, P \subseteq Q
  PROVE  Tidy(r, W, Q)
BY DEF Tidy, InOrder

(* The page belongs to the day of a backfill.                              *)
LEMMA FetchedInOrder ==
  ASSUME TypeOK, NEW j \in Jobs, NEW q \in JobRecord,
         job[j].batch = {}, InOrder(job[j], Visible), Fetched(q, job[j])
  PROVE  q.batch = {} /\ InOrder(q, Visible)
<1> DEFINE r == job[j]
<1>0. r.day \in Nat /\ r.cursor \in Int /\ q.cursor \in Int /\ Visible \subseteq Events
  BY JobFields, VisibleType DEF JobRecord
<1>1. Pending(q) = r.buffer \cup Page(r) /\ Pending(r) = r.buffer /\ q.batch = {}
  BY DEF Fetched, Pending
<1>2. Pending(q) \subseteq Visible
  BY <1>1 DEF Fetched, InOrder
<1>3. \A e \in Pending(q) : Ts[e] <= q.cursor
  <2> SUFFICES ASSUME NEW e \in r.buffer PROVE Ts[e] <= q.cursor
    BY <1>1 DEF Fetched
  <2>1. Ts[e] <= r.cursor /\ e \in Visible
    BY <1>1 DEF InOrder
  <2>2. r.cursor <= q.cursor /\ Ts[e] \in Nat
    BY <1>0, <2>1, VisibleType DEF Fetched
  <2> QED
    BY <1>0, <2>1, <2>2
<1>4. ASSUME r.command = "backfill"
      PROVE  /\ q.cursor >= FirstOfDay(r.day) - 1 /\ r.to = FirstOfDay(r.day + 1) - 1
             /\ \A e \in Pending(q) : DayOf(Ts[e]) = r.day
  <2>1. r.cursor >= FirstOfDay(r.day) - 1 /\ r.to = FirstOfDay(r.day + 1) - 1
    BY <1>4 DEF InOrder
  <2>2. FirstOfDay(r.day) \in Nat
    BY <1>0, DayBounds
  <2>3. q.cursor >= FirstOfDay(r.day) - 1
    BY <1>0, <2>1, <2>2 DEF Fetched
  <2>4. ASSUME NEW e \in Page(r) PROVE DayOf(Ts[e]) = r.day
    <3>1. e \in Events /\ r.cursor < Ts[e] /\ Ts[e] <= r.to /\ Ts[e] \in Nat
      BY <1>0, VisibleType DEF Fetched
    <3>2. ~(Ts[e] <= FirstOfDay(r.day) - 1)
      BY <1>0, <2>1, <2>2, <3>1
    <3>a. ~(DayOf(Ts[e]) < r.day) /\ DayOf(Ts[e]) \in Nat
      BY <1>0, <3>1, <3>2, DayBounds
    <3>b. r.day + 1 \in Nat /\ Ts[e] <= FirstOfDay(r.day + 1) - 1
      BY <1>0, <2>1, <3>1
    <3>c. DayOf(Ts[e]) < r.day + 1
      BY <3>1, <3>b, DayBounds
    <3>3. ~(DayOf(Ts[e]) < r.day) /\ DayOf(Ts[e]) < r.day + 1 /\ DayOf(Ts[e]) \in Nat
      BY <3>a, <3>c
    <3> QED
      BY <1>0, <3>3
  <2>5. \A e \in r.buffer : DayOf(Ts[e]) = r.day
    BY <1>1, <1>4 DEF InOrder
  <2> QED
    BY <1>1, <2>1, <2>3, <2>4, <2>5
<1>5. q.command = r.command /\ q.day = r.day /\ q.to = r.to
  BY DEF Fetched
<1> QED
  BY <1>1, <1>2, <1>3, <1>4, <1>5 DEF InOrder

LEMMA InitTidy == Init => AllTidy
<1> SUFFICES ASSUME Init, NEW j \in Jobs PROVE Tidy(job[j], Visible, parts)
  BY DEF AllTidy
<1>1. job[j] = IdleJob
  BY DEF Init
<1> QED
  BY <1>1, FreshTidy

(* A batch after one of its days has been written.                         *)
LEMMA RestInOrder ==
  ASSUME NEW r, NEW q, NEW V, NEW d, InOrder(r, V), SameRun(q, r), q.cursor = r.cursor,
         q.buffer = r.buffer, q.batch = r.batch \ OfDay(r, d)
  PROVE  InOrder(q, V)
BY DEF InOrder, SameRun, Pending

LEMMA JobStepTidy ==
  ASSUME FileInv, AllTidy, NEW j \in Jobs, JobStep(j)
  PROVE  Tidy(job'[j], Visible', parts') /\ Elsewhere(j) /\ Visible' = Visible
<1> TypeOK /\ Tidy(job[j], Visible, parts)
  BY DEF FileInv, AllTidy
<1>v. indexed' = indexed => Visible' = Visible
  BY DEF Visible
<1>p. StoreAside => parts' = parts
  BY DEF StoreAside
<1>1. CASE StartCatchup(j)
  BY <1>1, <1>v, StartCatchupEffect DEF Tidy, Active
<1>2. ASSUME NEW from \in Days, NEW last \in Days, StartBackfill(j, from, last)
      PROVE  Tidy(job'[j], Visible', parts') /\ Elsewhere(j) /\ Visible' = Visible
  BY <1>2, <1>v, StartBackfillEffect, FreshTidy
<1>3. CASE FindPartition(j)
  BY <1>3, <1>v, FindPartitionEffect DEF Tidy, Active
<1>4. CASE FindSource(j)
  <2>1. CASE job'[j] = IdleJob
    BY <1>4, <1>v, <2>1, FindSourceEffect, FreshTidy
  <2>2. CASE job'[j].step = "page" /\ job'[j].command = "catchup"
             /\ job'[j].buffer = {} /\ job'[j].batch = {}
    BY <1>4, <1>v, <2>2, FindSourceEffect DEF Tidy, InOrder, Pending
  <2> QED
    BY <1>4, <2>1, <2>2, FindSourceEffect
<1>5. CASE FetchPage(j)
  <2>1. PICK q \in JobRecord : Fetched(q, job[j]) /\ job'[j] = Advance(j, q)
    BY <1>5, FetchEffect
  <2>2. job[j].batch = {} /\ InOrder(job[j], Visible)
    BY <1>5, FetchEffect DEF Tidy, Active
  <2>3. Tidy(Advance(j, q), Visible, parts)
    BY <2>1, <2>2, FetchedInOrder, AdvanceTidy
  <2> QED
    BY <1>5, <1>v, <1>p, <2>1, <2>3, FetchEffect
<1>6. CASE UploadPart(j)
  <2>1. PICK d \in Days, x \in Least(job[j].batch) : \E e \in Greatest(OfDay(job[j], d)) :
           /\ d = DayOf(Ts[x]) /\ job'[j].day = d /\ job'[j].latest[d] = Ts[e]
           /\ parts' = parts \cup {PartOf(job[j], d)}
           /\ JustWritten(job'[j], PartOf(job[j], d))
    BY <1>6, PartEffect
  <2>2. /\ SameHand(job'[j], job[j]) /\ job'[j].step = "manifest" /\ job[j].step = "part"
        /\ Elsewhere(j) /\ indexed' = indexed
    BY <1>6, PartEffect
  <2>3. OfDay(job'[j], d) = OfDay(job[j], d)
    BY <2>2 DEF OfDay, SameHand
  <2>4. x \in job[j].batch /\ (job[j].command = "backfill" => DayOf(Ts[x]) = job[j].day)
    BY <2>2 DEF Least, Tidy, Active, InOrder, Pending
  <2>5. InOrder(job'[j], Visible)
    <3>1. InOrder(job[j], Visible)
      BY <2>2 DEF Tidy, Active
    <3>2. Pending(job'[j]) = Pending(job[j])
      BY <2>2 DEF Pending, SameHand
    <3>3. job[j].command = "backfill" => job'[j].day = job[j].day
      BY <2>1, <2>4
    <3> QED
      BY <2>2, <3>1, <3>2, <3>3 DEF InOrder, SameHand
  <2>6. \E p \in parts' : JustWritten(job'[j], p)
    BY <2>1
  <2>7. \E e \in Greatest(OfDay(job'[j], job'[j].day)) : job'[j].latest[job'[j].day] = Ts[e]
    BY <2>1, <2>3
  <2> QED
    BY <1>v, <2>2, <2>5, <2>6, <2>7 DEF Tidy, Active
<1>7. CASE UploadManifest(j)
  <2>1. PICK q \in JobRecord :
           /\ SameRun(q, job[j]) /\ q.cursor = job[j].cursor /\ q.buffer = job[j].buffer
           /\ q.batch = job[j].batch \ OfDay(job[j], job[j].day)
           /\ \/ q.batch # {} /\ q.step = "part" /\ job'[j] = q
              \/ q.batch = {} /\ job'[j] = Advance(j, q)
    BY <1>7, ManifestEffect
  <2>2. InOrder(q, Visible)
    BY <1>7, <2>1, ManifestEffect, RestInOrder DEF Tidy, Active
  <2>3. Tidy(job'[j], Visible, parts)
    <3>1. CASE q.batch # {} /\ q.step = "part" /\ job'[j] = q
      BY <2>2, <3>1 DEF Tidy, Active
    <3>2. CASE q.batch = {} /\ job'[j] = Advance(j, q)
      BY <2>2, <3>2, AdvanceTidy
    <3> QED
      BY <2>1, <3>1, <3>2
  <2> QED
    BY <1>7, <1>v, <2>3, ManifestEffect
<1>8. CASE Fail(j)
  BY <1>8, <1>v, FailEffect, AfterDayEffect, FreshTidy
<1>9. CASE Crash(j)
  BY <1>9, <1>v, CrashEffect, FreshTidy
<1> QED
  BY <1>1, <1>2, <1>3, <1>4, <1>5, <1>6, <1>7, <1>8, <1>9 DEF JobStep, Progress

LEMMA StepTidy == FileInv /\ AllTidy /\ [Next]_vars => AllTidy'
<1> SUFFICES ASSUME FileInv, AllTidy, [Next]_vars, NEW i \in Jobs
             PROVE  Tidy(job'[i], Visible', parts')
  BY DEF AllTidy
<1>0. TypeOK /\ Tidy(job[i], Visible, parts) /\ parts \subseteq parts'
  BY FileStep DEF FileInv, AllTidy
<1>1. CASE Index
  BY <1>0, <1>1, IndexEffect, TidyStays
<1>2. ASSUME NEW j \in Jobs, JobStep(j) PROVE Tidy(job'[i], Visible', parts')
  BY <1>0, <1>2, JobStepTidy, TidyStays DEF Elsewhere
<1>3. CASE UNCHANGED vars
  BY <1>0, <1>3 DEF vars, Visible
<1> QED
  BY <1>1, <1>2, <1>3 DEF Next

LEMMA ListedIff ==
  \A e : Listed(e) <=> \E p \in parts : e \in p.events /\ ListedPart(p)
BY DEF Listed, Copies, ListedPart

(* What a step leaves of the files and manifests when it writes neither.   *)
LEMMA AsideStays ==
  ASSUME UNCHANGED <<parts, manifests>>
  PROVE  /\ \A p : ListedPart(p)' <=> ListedPart(p)
         /\ AllListed' = AllListed
<1>1. \A p : ListedPart(p)' <=> ListedPart(p)
  BY DEF ListedPart
<1>2. \A e : Listed(e)' <=> Listed(e)
  BY DEF Listed, Copies
<1> QED
  BY <1>1, <1>2 DEF AllListed

(* A part file that is written lists nothing and hides nothing.            *)
LEMMA PartStays ==
  ASSUME FileInv, NEW j \in Jobs, UploadPart(j)
  PROVE  /\ \A p : ListedPart(p)' <=> ListedPart(p)
         /\ AllListed \subseteq AllListed'
<1>1. manifests' = manifests /\ parts \subseteq parts'
  BY PartEffect, UploadPartFiles
<1>2. \A p : ListedPart(p)' <=> ListedPart(p)
  BY <1>1 DEF ListedPart
<1> SUFFICES ASSUME NEW e \in AllListed PROVE e \in AllListed'
  BY <1>2
<1>a. Listed(e) /\ e \in Events
  BY DEF AllListed
<1>3. PICK p \in parts : e \in p.events /\ ListedPart(p)
  BY <1>a, ListedIff
<1>4. p \in parts' /\ ListedPart(p)'
  BY <1>1, <1>2, <1>3
<1>5. Listed(e)'
  BY <1>3, <1>4 DEF Listed, Copies, ListedPart
<1> QED
  BY <1>a, <1>5 DEF AllListed

(* A manifest lists what its forerunner listed, and the file just written. *)
LEMMA ManifestStays ==
  ASSUME FileInv, FeedInv, NEW j \in Jobs, UploadManifest(j)
  PROVE  /\ \A p \in parts : ListedPart(p) => ListedPart(p)'
         /\ \A p \in parts : JustWritten(job[j], p) => ListedPart(p)'
         /\ AllListed \subseteq AllListed'
<1> DEFINE r == job[j]
           m == ManifestOf(r)
<1>0. TypeOK
  BY DEF FileInv
<1>1. /\ manifests' = {n \in manifests : n.run # r.run \/ n.day # r.day} \cup {m}
      /\ parts' = parts
  BY <1>0, ManifestEffect
<1>2. m.run = r.run /\ m.day = r.day /\ m.files = 1..r.count[r.day]
  BY DEF ManifestOf, ManifestFiles
<1> HIDE DEF m
<1>3. ASSUME NEW p \in parts, ListedPart(p) PROVE ListedPart(p)'
  <2>1. PICK n \in manifests : n.run = p.run /\ n.day = p.day /\ p.part \in n.files
    BY <1>3 DEF ListedPart
  <2>2. CASE n.run = r.run /\ n.day = r.day
    <3>1. n.files \subseteq 1..r.count[r.day]
      BY <2>2 DEF FeedInv
    <3> QED
      BY <1>1, <1>2, <2>1, <2>2, <3>1 DEF ListedPart
  <2>3. CASE n.run # r.run \/ n.day # r.day
    BY <1>1, <2>1, <2>3 DEF ListedPart
  <2> QED
    BY <2>2, <2>3
<1>4. ASSUME NEW p \in parts, JustWritten(r, p) PROVE ListedPart(p)'
  <2>1. p.run = m.run /\ p.day = m.day /\ p.part = r.count[r.day]
    BY <1>2, <1>4 DEF JustWritten
  <2>2. p.part \in Nat \ {0}
    BY <1>0 DEF TypeOK, PartRecord
  <2>3. p.part \in m.files
    BY <1>2, <2>1, <2>2
  <2> QED
    BY <1>1, <2>1, <2>3 DEF ListedPart
<1>5. ASSUME NEW e \in AllListed PROVE e \in AllListed'
  <2>1. PICK p \in parts : e \in p.events /\ ListedPart(p)
    BY <1>5, ListedIff DEF AllListed
  <2>2. p \in parts' /\ ListedPart(p)'
    BY <1>1, <1>3, <2>1
  <2>3. Listed(e)'
    BY <2>1, <2>2 DEF Listed, Copies, ListedPart
  <2> QED
    BY <1>5, <2>3 DEF AllListed
<1> QED
  BY <1>3, <1>4, <1>5

(* Every step of a job but the writing of a file leaves the counts alone,  *)
(* and every step but the two of writing the store.                        *)
LEMMA JobStepQuiet ==
  ASSUME FileInv, NEW j \in Jobs, JobStep(j), ~UploadPart(j)
  PROVE  /\ \A i \in Jobs : Resumed(i)
         /\ parts' = parts /\ runs' = runs
         /\ UploadManifest(j) \/ manifests' = manifests
<1>t. TypeOK
  BY DEF FileInv
<1>1. CASE StartCatchup(j)
  BY <1>1, <1>t, StartCatchupResumes DEF StartCatchup
<1>2. ASSUME NEW from \in Days, NEW last \in Days, StartBackfill(j, from, last)
      PROVE  (\A i \in Jobs : Resumed(i)) /\ parts' = parts /\ runs' = runs
             /\ manifests' = manifests
  BY <1>2, <1>t, FreshRecords, OneResumes DEF StartBackfill
<1>3. CASE FindPartition(j)
  BY <1>3, <1>t, FindPartitionResumes DEF FindPartition
<1>4. CASE FindSource(j)
  BY <1>4, <1>t, FindSourceResumes DEF FindSource
<1>5. CASE FetchPage(j)
  BY <1>5, <1>t, FetchPageResumes DEF FetchPage
<1>6. CASE UploadManifest(j)
  BY <1>6, <1>t, UploadManifestResumes DEF UploadManifest
<1>7. CASE Fail(j)
  BY <1>7, <1>t, AfterDayFresh, OneResumes DEF Fail
<1>8. CASE Crash(j)
  BY <1>8, <1>t, FreshRecords, OneResumes DEF Crash
<1> QED
  BY <1>1, <1>2, <1>3, <1>4, <1>5, <1>6, <1>7, <1>8 DEF JobStep, Progress

(* ------------------------- the feed invariant ------------------------- *)

CountsCover(ms) ==
  \A m \in ms, i \in Jobs : m.run = job[i].run => m.files \subseteq 1..job[i].count[m.day]

LEMMA InitFeed == Init => FeedInv
BY DEF Init, FeedInv, Visible

LEMMA IndexFeed ==
  ASSUME FileInv, FeedInv, Index
  PROVE  FeedInv'
<1>t. TypeOK
  BY DEF FileInv
<1>0. /\ parts' = parts /\ manifests' = manifests /\ runs' = runs /\ job' = job
      /\ Visible \subseteq Visible'
  BY <1>t, IndexEffect DEF StoreAside
<1>1. \A p : ListedPart(p)' <=> ListedPart(p)
  BY <1>0, AsideStays
<1>2. \A e \in Visible', n \in Events \ Visible' : Ts[e] < Ts[n]
  <2>1. PICK n \in Events :
          /\ n \notin Visible
          /\ \A e \in Visible' \ Visible : e \in Events /\ Ts[e] = Ts[n]
          /\ \A e \in Events \ Visible' : Ts[n] < Ts[e]
    BY <1>t, IndexEffect
  <2> QED
    BY <1>0, <2>1 DEF FeedInv
<1>3. \A p \in parts : /\ p.events # {} /\ p.events \subseteq Visible'
                       /\ \A e \in p.events : DayOf(Ts[e]) = p.day
  BY <1>0 DEF FeedInv
<1>4. \A m \in manifests : \E p \in parts : \E e \in p.events :
        ListedPart(p)' /\ p.run = m.run /\ Ts[e] = m.latest /\ DayOf(Ts[e]) = m.day
  BY <1>1 DEF FeedInv
<1> QED
  BY <1>0, <1>2, <1>3, <1>4 DEF FeedInv

LEMMA PartFeed ==
  ASSUME FileInv, FeedInv, AllTidy, NEW j \in Jobs, UploadPart(j)
  PROVE  FeedInv'
<1> DEFINE r == job[j]
<1>t. TypeOK /\ Tidy(r, Visible, parts) /\ r \in JobRecord
  BY DEF FileInv, AllTidy, TypeOK
<1>0. /\ manifests' = manifests /\ Visible' = Visible /\ parts \subseteq parts'
      /\ runs <= runs' /\ Elsewhere(j) /\ r.step = "part" /\ runs \in Nat /\ runs' \in Nat
      /\ job'[j].run = RunOf(r)
  BY <1>t, PartEffect, UploadPartFiles DEF Visible, TypeOK, FileInv
<1>1. PICK d \in Days, x \in Least(r.batch) :
         /\ d = DayOf(Ts[x])
         /\ job'[j].count = [r.count EXCEPT ![d] = @ + 1]
         /\ parts' = parts \cup {PartOf(r, d)}
  BY PartEffect
<1> DEFINE new == PartOf(r, d)
<1>2. new.events = OfDay(r, d) /\ new.day = d
  BY DEF PartOf
<1> HIDE DEF new
<1>3. new.events # {} /\ new.events \subseteq Visible
      /\ \A e \in new.events : DayOf(Ts[e]) = new.day
  <2>1. r.batch \subseteq Visible
    BY <1>t, <1>0 DEF Tidy, Active, InOrder, Pending
  <2>2. x \in OfDay(r, d)
    BY <1>1 DEF OfDay, Least
  <2> QED
    BY <1>2, <2>1, <2>2 DEF OfDay
<1>4. \A p \in parts' : /\ p.events # {} /\ p.events \subseteq Visible
                        /\ \A e \in p.events : DayOf(Ts[e]) = p.day
  <2>1. parts' = parts \cup {new}
    BY <1>1 DEF new
  <2> QED
    BY <1>3, <2>1 DEF FeedInv
<1>5. \A p : ListedPart(p)' <=> ListedPart(p)
  BY PartStays
<1>6. \A m \in manifests : \E p \in parts' : \E e \in p.events :
        ListedPart(p)' /\ p.run = m.run /\ Ts[e] = m.latest /\ DayOf(Ts[e]) = m.day
  BY <1>0, <1>5 DEF FeedInv
<1>7. \A m \in manifests : m.run <= runs /\ m.run \in Nat \ {0} /\ m.day \in Days
  BY <1>t DEF FeedInv, TypeOK, ManifestRecord
<1>8. \A m \in manifests : m.run <= runs'
  BY <1>0, <1>7
<1>9. ASSUME NEW m \in manifests, NEW i \in Jobs, m.run = job'[i].run
      PROVE  m.files \subseteq 1..job'[i].count[m.day]
  <2>1. CASE i # j
    BY <1>9, <1>0, <2>1 DEF FeedInv, Elsewhere
  <2>2. CASE i = j
    <3>1. m.run = r.run
      BY <1>0, <1>7, <1>9, <2>2, PartEffect
    <3>2. m.files \subseteq 1..r.count[m.day]
      BY <3>1 DEF FeedInv
    <3>3. r.count \in [Days -> Nat]
      BY <1>t DEF JobRecord
    <3>4. r.count[m.day] \in Nat /\ job'[j].count[m.day] \in Nat
          /\ r.count[m.day] <= job'[j].count[m.day]
      BY <1>1, <1>7, <3>3
    <3> QED
      BY <2>2, <3>2, <3>4
  <2> QED
    BY <2>1, <2>2
<1> QED
  BY <1>0, <1>4, <1>6, <1>8, <1>9 DEF FeedInv

LEMMA ManifestFeed ==
  ASSUME FileInv, FeedInv, AllTidy, NEW j \in Jobs, UploadManifest(j)
  PROVE  FeedInv'
<1> DEFINE r == job[j]
           new == ManifestOf(r)
<1>t. TypeOK /\ Tidy(r, Visible, parts) /\ r \in JobRecord
  BY DEF FileInv, AllTidy, TypeOK
<1>0. /\ Visible' = Visible /\ parts' = parts /\ runs' = runs /\ r.step = "manifest"
      /\ manifests' = {m \in manifests : m.run # r.run \/ m.day # r.day} \cup {new}
  BY <1>t, ManifestEffect DEF Visible
<1>1. /\ new.run = r.run /\ new.day = r.day /\ new.files = 1..r.count[r.day]
      /\ new.latest = r.latest[r.day]
  BY DEF ManifestOf, ManifestFiles
<1> HIDE DEF new
<1>2. /\ \A p \in parts : ListedPart(p) => ListedPart(p)'
      /\ \A p \in parts : JustWritten(r, p) => ListedPart(p)'
  BY ManifestStays
<1>3. \E p \in parts : \E e \in p.events :
        ListedPart(p)' /\ p.run = new.run /\ Ts[e] = new.latest /\ DayOf(Ts[e]) = new.day
  <2>1. PICK p \in parts : JustWritten(r, p)
    BY <1>t, <1>0 DEF Tidy
  <2>2. PICK e \in Greatest(OfDay(r, r.day)) : r.latest[r.day] = Ts[e]
    BY <1>t, <1>0 DEF Tidy
  <2>3. e \in p.events /\ DayOf(Ts[e]) = r.day
    BY <2>1, <2>2 DEF JustWritten, Greatest, OfDay
  <2>4. ListedPart(p)' /\ p.run = r.run
    BY <1>2, <2>1 DEF JustWritten
  <2> QED
    BY <1>1, <2>2, <2>3, <2>4
<1>4. ASSUME NEW m \in manifests'
      PROVE  \E p \in parts : \E e \in p.events :
        ListedPart(p)' /\ p.run = m.run /\ Ts[e] = m.latest /\ DayOf(Ts[e]) = m.day
  <2>1. CASE m \in manifests
    BY <1>2, <2>1 DEF FeedInv
  <2>2. CASE m = new
    BY <1>3, <2>2
  <2> QED
    BY <1>0, <1>4, <2>1, <2>2
<1>5. \A m \in manifests' : m.run <= runs
  BY <1>0, <1>1 DEF FeedInv, FileInv, RunsApart
<1>6. ASSUME NEW m \in manifests', NEW i \in Jobs, m.run = job'[i].run
      PROVE  m.files \subseteq 1..job'[i].count[m.day]
  <2>1. m.run \in Nat \ {0}
    BY UploadManifestFiles DEF FileInv, TypeOK, ManifestRecord
  <2>2. Resumed(i)
    BY <1>t, UploadManifestResumes
  <2>3. job'[i].run = job[i].run /\ job'[i].count = job[i].count
    BY <1>6, <2>1, <2>2 DEF Resumed
  <2>4. CASE m \in manifests
    BY <1>6, <2>3, <2>4 DEF FeedInv
  <2>5. CASE m = new
    <3>1. job[i].run = r.run /\ r.run # 0
      BY <1>1, <1>6, <2>1, <2>3, <2>5
    <3>2. i = j
      BY <3>1 DEF FileInv, RunsApart
    <3> QED
      BY <1>1, <2>3, <2>5, <3>2
  <2> QED
    BY <1>0, <1>6, <2>4, <2>5
<1> QED
  BY <1>0, <1>4, <1>5, <1>6 DEF FeedInv

LEMMA QuietFeed ==
  ASSUME FileInv, FeedInv, \A i \in Jobs : Resumed(i),
         UNCHANGED <<parts, manifests, runs>>, Visible' = Visible
  PROVE  FeedInv'
<1>1. \A p : ListedPart(p)' <=> ListedPart(p)
  BY AsideStays
<1>2. \A m \in manifests : m.run # 0
  BY DEF FileInv, TypeOK, ManifestRecord
<1>3. \A m \in manifests, i \in Jobs :
        m.run = job'[i].run => m.files \subseteq 1..job'[i].count[m.day]
  BY <1>2 DEF FeedInv, Resumed
<1>4. \A m \in manifests : \E p \in parts : \E e \in p.events :
        ListedPart(p)' /\ p.run = m.run /\ Ts[e] = m.latest /\ DayOf(Ts[e]) = m.day
  BY <1>1 DEF FeedInv
<1> QED
  BY <1>3, <1>4 DEF FeedInv

LEMMA JobStepFeed ==
  ASSUME FileInv, FeedInv, AllTidy, NEW j \in Jobs, JobStep(j)
  PROVE  FeedInv'
<1>1. Visible' = Visible
  BY JobStepTidy
<1> QED
  BY <1>1, JobStepQuiet, QuietFeed, PartFeed, ManifestFeed

LEMMA StepFeed == FileInv /\ FeedInv /\ AllTidy /\ [Next]_vars => FeedInv'
<1> SUFFICES ASSUME FileInv, FeedInv, AllTidy, [Next]_vars PROVE FeedInv'
  OBVIOUS
<1>1. CASE UNCHANGED vars
  <2>1. Visible' = Visible /\ UNCHANGED <<parts, manifests, runs>>
    BY <1>1 DEF vars, Visible
  <2>2. \A i \in Jobs : Resumed(i)
    BY <1>1 DEF vars, Resumed
  <2> QED
    BY <2>1, <2>2, QuietFeed
<1> QED
  BY <1>1, IndexFeed, JobStepFeed DEF Next

(* What is listed stays so.                                                *)
LEMMA ListedStays ==
  ASSUME FileInv, FeedInv, AllTidy, NEW j \in Jobs, JobStep(j)
  PROVE  /\ AllListed \subseteq AllListed'
         /\ \A p \in parts : ListedPart(p) => ListedPart(p)'
BY JobStepQuiet, AsideStays, PartStays, ManifestStays

LEMMA DayOrder ==
  ASSUME NEW e \in Events, NEW f \in Events
  PROVE  /\ e \in Nat /\ f \in Nat /\ Ts[e] \in Nat /\ Ts[f] \in Nat
         /\ DayOf(Ts[e]) \in Nat /\ DayOf(Ts[f]) \in Nat
         /\ Ts[e] <= Ts[f] => DayOf(Ts[e]) <= DayOf(Ts[f])
         /\ e <= f => Ts[e] <= Ts[f] /\ DayOf(Ts[e]) <= DayOf(Ts[f])
         /\ Ts[e] < Ts[f] => e < f
<1>1. Ts[e] \in Nat /\ Ts[f] \in Nat /\ e \in Nat /\ f \in Nat
  BY FeedType, EventsFinite
<1>2. Ts[e] <= Ts[f] => DayOf(Ts[e]) <= DayOf(Ts[f])
  BY <1>1, DivMonotone, IngestAssumption DEF DayOf
<1>3. e <= f => Ts[e] <= Ts[f]
  BY IngestAssumption
<1>4. f <= e => Ts[f] <= Ts[e]
  BY IngestAssumption
<1>5. DayOf(Ts[e]) \in Nat /\ DayOf(Ts[f]) \in Nat
  BY <1>1, DayBounds
<1> QED
  BY <1>1, <1>2, <1>3, <1>4, <1>5

LEMMA BegunOn ==
  ASSUME TypeOK, NEW e \in Events, NEW f \in Events, Ts[e] <= Ts[f], Begun(Partitions, e)
  PROVE  Begun(Partitions, f)
<1>1. PICK d \in Partitions : d <= DayOf(Ts[e])
  BY DEF Begun
<1>2. d \in Nat
  BY DaysType DEF Partitions, TypeOK, PartRecord
<1>3. DayOf(Ts[e]) \in Nat /\ DayOf(Ts[f]) \in Nat /\ DayOf(Ts[e]) <= DayOf(Ts[f])
  BY DayOrder
<1>4. d <= DayOf(Ts[f])
  BY <1>1, <1>2, <1>3
<1> QED
  BY <1>1, <1>4 DEF Begun

LEMMA ReachedMore ==
  ASSUME NEW S, NEW T, NEW e, S \subseteq T, Reached(S, e)
  PROVE  Reached(T, e)
BY DEF Reached

(* What is true of a page holds for all of a job's hand.                   *)
LEMMA FetchSweeps ==
  ASSUME TypeOK, FeedInv, NEW j \in Jobs, NEW q \in JobRecord, NEW L,
         job[j].batch = {}, InOrder(job[j], Visible), Fetched(q, job[j]),
         Sweeps(job[j], Visible, L, Partitions)
  PROVE  Sweeps(q, Visible, L, Partitions)
<1> DEFINE r == job[j]
           V == Visible
           D == Partitions
<1>0. /\ r.day \in Nat /\ r.cursor \in Int /\ q.cursor \in Int /\ V \subseteq Events
      /\ q.command = r.command /\ q.day = r.day /\ q.last = r.last /\ q.to = r.to
      /\ r.cursor <= q.cursor /\ r.to \in Nat
  BY JobFields, VisibleType DEF JobRecord, Fetched
<1>1. Pending(q) = r.buffer \cup Page(r) /\ Pending(r) = r.buffer
  BY DEF Fetched, Pending
<1>2. ASSUME NEW e \in V, Charged(q, D, e), Seen(q, Ts[e])
      PROVE  Reached(L \cup Pending(q), e)
  <2>0. Charged(r, D, e) /\ Ts[e] \in Nat
    BY <1>0, <1>2, DayOrder DEF Charged
  <2>1. CASE Ts[e] <= r.cursor
    <3>1. Reached(L \cup Pending(r), e)
      BY <2>0, <2>1 DEF Sweeps, Seen
    <3> QED
      BY <1>1, <3>1, ReachedMore
  <2>2. CASE r.cursor < Ts[e]
    <3>1. Ts[e] <= q.cursor \/ (q.finished /\ Ts[e] <= r.to)
      BY <1>0, <1>2 DEF Seen, Passing
    <3>2. Reached(Page(r), e)
      BY <2>2, <3>1 DEF Fetched
    <3> QED
      BY <1>1, <3>2, ReachedMore
  <2> QED
    BY <1>0, <2>0, <2>1, <2>2
<1>3. ASSUME NEW n \in Events \ V, Ts[n] <= q.cursor
      PROVE  q.command = "backfill" /\ DayOf(Ts[n]) < q.day
  <2>1. Ts[n] \in Nat
    BY FeedType
  <2>2. ASSUME NEW x \in Page(r), q.cursor = Ts[x] PROVE FALSE
    <3>1. x \in V /\ x \in Events
      BY <1>0, <2>2 DEF Fetched
    <3>2. Ts[x] < Ts[n] /\ Ts[x] \in Nat
      BY <3>1, FeedType DEF FeedInv
    <3> QED
      BY <1>3, <2>1, <2>2, <3>2
  <2>3. q.cursor = r.cursor
    BY <2>2 DEF Fetched
  <2> QED
    BY <1>0, <1>3, <2>3 DEF Sweeps
<1>4. ASSUME D # {}
      PROVE  /\ \A x \in Pending(q) : Begun(D, x)
             /\ IF q.command = "backfill" THEN \E d \in D : d <= q.day
                ELSE \E e \in V : Begun(D, e) /\ Ts[e] <= q.cursor + 1
  <2>1. ASSUME NEW x \in Page(r) PROVE Begun(D, x)
    <3>0. x \in V /\ x \in Events /\ r.cursor < Ts[x] /\ Ts[x] <= r.to /\ Ts[x] \in Nat
      BY <1>0, <2>1, DayOrder DEF Fetched
    <3>1. CASE r.command = "backfill"
      <4>1. PICK d \in D : d <= r.day
        BY <1>4, <3>1 DEF Sweeps
      <4>2. d \in Nat
        BY DaysType DEF Partitions, TypeOK, PartRecord
      <4>3. FirstOfDay(r.day) \in Nat /\ r.cursor >= FirstOfDay(r.day) - 1
        BY <1>0, <3>1, DayBounds DEF InOrder
      <4>4. ~(Ts[x] <= FirstOfDay(r.day) - 1)
        BY <1>0, <3>0, <4>3
      <4>5. ~(DayOf(Ts[x]) < r.day) /\ DayOf(Ts[x]) \in Nat
        BY <1>0, <3>0, <4>4, DayBounds
      <4>6. d <= DayOf(Ts[x])
        BY <1>0, <4>1, <4>2, <4>5
      <4> QED
        BY <4>1, <4>6 DEF Begun
    <3>2. CASE r.command # "backfill"
      <4>1. PICK e \in V : Begun(D, e) /\ Ts[e] <= r.cursor + 1
        BY <1>4, <3>2 DEF Sweeps
      <4>2. e \in Events /\ Ts[e] \in Nat
        BY <1>0, FeedType
      <4>3. Ts[e] <= Ts[x]
        BY <1>0, <3>0, <4>1, <4>2
      <4> QED
        BY <3>0, <4>1, <4>2, <4>3, BegunOn
    <3> QED
      BY <3>1, <3>2
  <2>2. \A x \in Pending(q) : Begun(D, x)
    BY <1>1, <1>4, <2>1 DEF Sweeps
  <2>3. CASE q.command = "backfill"
    BY <1>0, <1>4, <2>2, <2>3 DEF Sweeps
  <2>4. CASE q.command # "backfill"
    <3>1. PICK e \in V : Begun(D, e) /\ Ts[e] <= r.cursor + 1
      BY <1>0, <1>4, <2>4 DEF Sweeps
    <3>2. Ts[e] \in Nat
      BY <1>0, FeedType
    <3>3. Ts[e] <= q.cursor + 1
      BY <1>0, <3>1, <3>2
    <3> QED
      BY <2>2, <2>4, <3>1, <3>3
  <2> QED
    BY <2>3, <2>4
<1> QED
  BY <1>2, <1>3, <1>4 DEF Sweeps

(* A batch cut from a hand that sweeps sweeps, and so does the next day.   *)
LEMMA AdvanceSweeps ==
  ASSUME TypeOK, NEW j \in Jobs, NEW q \in JobRecord, NEW L,
         q.command = job[j].command, q.day = job[j].day, q.last = job[j].last,
         q.batch = {}, InOrder(q, Visible), Sweeps(q, Visible, L, Partitions),
         Active(Advance(j, q))
  PROVE  Sweeps(Advance(j, q), Visible, L, Partitions)
<1> DEFINE a == Advance(j, q)
           V == Visible
           D == Partitions
<1>0. Pending(q) = q.buffer
  BY DEF Pending
<1>1. CASE SameRun(a, q) /\ a.cursor = q.cursor /\ Pending(a) = q.buffer
  <2> HIDE DEF a
  <2>1. Pending(a) = Pending(q)
    BY <1>0, <1>1
  <2>2. \A t : Seen(a, t) <=> Seen(q, t)
    BY <1>1 DEF Seen, Passing, SameRun
  <2>3. \A e : Charged(a, D, e) <=> Charged(q, D, e)
    BY <1>1 DEF Charged, SameRun
  <2>4. \A e \in V : Charged(a, D, e) /\ Seen(a, Ts[e]) => Reached(L \cup Pending(a), e)
    BY <2>1, <2>2, <2>3 DEF Sweeps
  <2>5. Sweeps(a, V, L, D)
    BY <1>1, <2>1, <2>4 DEF Sweeps, SameRun
  <2> QED
    BY <2>5 DEF a
<1>2. CASE q.finished /\ q.buffer = {} /\ a = AfterDay(j)
  <2>1. /\ q.command = "backfill" /\ q.day < q.last /\ q.day \in Nat
        /\ q.day + 1 \in Days /\ q.last \in Days
        /\ a = DayRun(q.day + 1, q.last)
    <3>1. a # IdleJob
      BY IdleJobFields DEF Active
    <3> QED
      BY <1>2, <3>1, AfterDayEffect, JobFields
  <2>2. PICK r : r = DayRun(q.day + 1, q.last)
    OBVIOUS
  <2>3. /\ r.command = "backfill" /\ r.day = q.day + 1 /\ r.finished = FALSE
        /\ r.cursor = FirstOfDay(q.day + 1) - 1
        /\ r.buffer = {} /\ r.batch = {}
    BY <2>2 DEF DayRun, IdleJob, FirstOfDay
  <2>4. Passing(q) /\ q.to = FirstOfDay(q.day + 1) - 1
    BY <1>2, <2>1 DEF Passing, InOrder
  <2>5. Pending(r) = {} /\ Pending(q) = {} /\ q.day + 1 \in Nat
    BY <1>0, <1>2, <2>1, <2>3 DEF Pending
  <2>6. \A e \in Events : Ts[e] <= r.cursor => DayOf(Ts[e]) < r.day /\ DayOf(Ts[e]) \in Nat
    BY <2>3, <2>5, DayBounds, FeedType
  <2>7. ASSUME NEW e \in V, Charged(r, D, e), Seen(r, Ts[e])
        PROVE  Reached(L \cup Pending(r), e)
    <3>1. e \in Events /\ Ts[e] <= r.cursor
      BY <2>3, <2>7, VisibleType DEF Seen, Passing
    <3>2. DayOf(Ts[e]) < r.day /\ DayOf(Ts[e]) \in Nat
      BY <2>6, <3>1
    <3>3. Begun(D, e)
      BY <2>3, <2>5, <2>7, <3>2 DEF Charged
    <3>4. Charged(q, D, e) /\ Seen(q, Ts[e])
      BY <2>3, <2>4, <3>1, <3>3 DEF Charged, Seen
    <3>5. Reached(L \cup Pending(q), e)
      BY <3>4 DEF Sweeps
    <3> QED
      BY <2>5, <3>5
  <2>8. D # {} => \E d \in D : d <= r.day
    <3> SUFFICES ASSUME D # {} PROVE \E d \in D : d <= r.day
      OBVIOUS
    <3>1. PICK d \in D : d <= q.day
      BY <2>1 DEF Sweeps
    <3>2. d \in Nat
      BY DaysType DEF Partitions, TypeOK, PartRecord
    <3>3. d <= r.day
      BY <2>1, <2>3, <3>1, <3>2
    <3> QED
      BY <3>3
  <2>9. \A n \in Events \ V : Ts[n] <= r.cursor => r.command = "backfill" /\ DayOf(Ts[n]) < r.day
    BY <2>3, <2>6
  <2>10. Sweeps(r, V, L, D)
    BY <2>3, <2>5, <2>7, <2>8, <2>9 DEF Sweeps
  <2> QED
    BY <2>1, <2>2, <2>10
<1> QED
  BY <1>1, <1>2, AdvanceEffect

LEMMA EventsStay ==
  ASSUME TypeOK, [Next]_vars
  PROVE  events \subseteq events'
BY DEF Next, JobStep, Progress, Index, StartCatchup, StartBackfill, FindPartition, FindSource,
       FetchPage, UploadPart, UploadManifest, Fail, Crash, Disturb, Calm, vars

(* What is said of a job's record stays true while more is listed.         *)
LEMMA SweepsMore ==
  ASSUME NEW r, NEW V, NEW L, NEW M, NEW D, L \subseteq M, Sweeps(r, V, L, D)
  PROVE  Sweeps(r, V, M, D)
<1>1. ASSUME NEW e \in V, Charged(r, D, e), Seen(r, Ts[e])
      PROVE  Reached(M \cup Pending(r), e)
  <2>1. Reached(L \cup Pending(r), e)
    BY <1>1 DEF Sweeps
  <2>2. L \cup Pending(r) \subseteq M \cup Pending(r)
    OBVIOUS
  <2> QED
    BY <2>1, <2>2, ReachedMore
<1> QED
  BY <1>1 DEF Sweeps

(* The feed grows under an active job.                                     *)
LEMMA IndexSweeps ==
  ASSUME TypeOK, Index, Orderly', NEW i \in Jobs, NEW L,
         InOrder(job[i], Visible), Sweeps(job[i], Visible, L, Partitions)
  PROVE  Sweeps(job[i], Visible', L, Partitions)
<1> DEFINE r == job[i]
           V == Visible
           D == Partitions
<1>0. /\ r.day \in Nat /\ V \subseteq Events /\ r.cursor \in Int /\ r.to \in Nat
      /\ r.last \in Nat
  BY JobFields, VisibleType
<1>1. PICK n \in Events :
              /\ n \notin V /\ V \subseteq Visible'
              /\ \A e \in Visible' \ V : e \in Events /\ Ts[e] = Ts[n]
              /\ LeftBehind(DayOf(Ts[n])) => "late" \in events'
  BY IndexEffect
<1>2. ~LeftBehind(DayOf(Ts[n]))
  BY <1>1 DEF Orderly, Without
<1>3. ASSUME NEW e \in Visible' \ V, Seen(r, Ts[e]) PROVE FALSE
  <2>0. e \in Events \ V /\ Ts[e] = Ts[n] /\ Ts[e] \in Nat /\ DayOf(Ts[e]) \in Nat
    BY <1>1, <1>3, DayOrder
  <2>1. CASE Ts[e] <= r.cursor
    <3>1. r.command = "backfill" /\ DayOf(Ts[n]) < r.day
      BY <2>0, <2>1 DEF Sweeps
    <3>2. r.day > DayOf(Ts[n])
      BY <1>0, <2>0, <3>1
    <3> QED
      BY <1>2, <3>1, <3>2 DEF LeftBehind
  <2>2. CASE Passing(r) /\ Ts[e] <= r.to
    <3>1. r.command = "backfill" /\ r.finished /\ r.day < r.last
      BY <2>2 DEF Passing
    <3>2. r.day + 1 \in Nat /\ Ts[e] <= FirstOfDay(r.day + 1) - 1
      BY <1>0, <2>2, <3>1 DEF InOrder
    <3>3. DayOf(Ts[e]) < r.day + 1
      BY <2>0, <3>2, DayBounds
    <3>4. r.day > DayOf(Ts[n]) \/ (r.day = DayOf(Ts[n]) /\ r.last > DayOf(Ts[n]))
      BY <1>0, <2>0, <3>1, <3>3
    <3> QED
      BY <1>2, <3>1, <3>4 DEF LeftBehind
  <2> QED
    BY <1>3, <2>1, <2>2 DEF Seen
<1>4. \A e \in Visible' : Charged(r, D, e) /\ Seen(r, Ts[e]) => Reached(L \cup Pending(r), e)
  BY <1>3 DEF Sweeps
<1>5. /\ \A n2 \in Events \ Visible' :
           Ts[n2] <= r.cursor => r.command = "backfill" /\ DayOf(Ts[n2]) < r.day
      /\ D # {} =>
           /\ \A x \in Pending(r) : Begun(D, x)
           /\ IF r.command = "backfill" THEN \E d \in D : d <= r.day
              ELSE \E e \in Visible' : Begun(D, e) /\ Ts[e] <= r.cursor + 1
  BY <1>1 DEF Sweeps
<1> QED
  BY <1>4, <1>5 DEF Sweeps

(* A backfill that begins with a day sweeps, as if it had seen all before. *)
LEMMA BackfillSweeps ==
  ASSUME TypeOK, FeedInv, NoneBelow, NEW d \in Days, NEW last \in Days,
         Partitions = {} \/ d \in Partitions
  PROVE  Sweeps(DayRun(d, last), Visible, AllListed, Partitions)
<1> DEFINE V == Visible
           D == Partitions
<1>1. PICK r : r = DayRun(d, last)
  OBVIOUS
<1>2. /\ r.command = "backfill" /\ r.day = d /\ r.finished = FALSE
      /\ r.cursor = FirstOfDay(d) - 1 /\ r.buffer = {} /\ r.batch = {}
  BY <1>1 DEF DayRun, IdleJob, FirstOfDay
<1>3. Pending(r) = {} /\ d \in Nat /\ V \subseteq Events
  BY <1>2, DaysType, VisibleType DEF Pending
<1>4. \A e \in Events : Ts[e] <= r.cursor => DayOf(Ts[e]) < d /\ DayOf(Ts[e]) \in Nat
  BY <1>2, <1>3, DayBounds, FeedType
<1>5. ASSUME NEW e \in V, Charged(r, D, e), Seen(r, Ts[e])
      PROVE  Reached(AllListed \cup Pending(r), e)
  <2>1. e \in Events /\ DayOf(Ts[e]) < d /\ DayOf(Ts[e]) \in Nat
    BY <1>2, <1>3, <1>4, <1>5 DEF Seen, Passing
  <2>2. Begun(D, e)
    BY <1>2, <1>3, <1>5, <2>1 DEF Charged
  <2>3. PICK p \in parts : p.day = d
    BY <2>2 DEF Begun, Partitions
  <2>4. p.events # {} /\ p.events \subseteq V /\ \A g \in p.events : DayOf(Ts[g]) = d
    BY <2>3 DEF FeedInv
  <2>5. PICK g \in p.events : g \in Events /\ DayOf(Ts[g]) = d
    BY <1>3, <2>4
  <2>6. e < g
    BY <1>3, <2>1, <2>5, DayOrder
  <2>7. Reached(AllListed \cup p.events, e)
    BY <2>1, <2>2, <2>5, <2>6 DEF NoneBelow
  <2>8. \A f \in p.events : f # e /\ Ts[f] # Ts[e]
    BY <1>3, <2>1, <2>4
  <2>9. Reached(AllListed, e)
    BY <2>7, <2>8 DEF Reached
  <2> QED
    BY <2>9, ReachedMore
<1>6. D # {} => \E dd \in D : dd <= r.day
  BY <1>2, <1>3
<1>7. Sweeps(r, V, AllListed, D)
  BY <1>2, <1>3, <1>4, <1>5, <1>6 DEF Sweeps
<1> QED
  BY <1>1, <1>7

(* A catch-up that goes on where a manifest ends sweeps.                   *)
LEMMA CatchupSweeps ==
  ASSUME TypeOK, FeedInv, NoneBelow, NEW m \in manifests, NEW r,
         r.command = "catchup", r.cursor = m.latest - 1, r.buffer = {}, r.batch = {}
  PROVE  Sweeps(r, Visible, AllListed, Partitions)
<1> DEFINE V == Visible
           D == Partitions
<1>1. PICK p \in parts : \E g \in p.events : ListedPart(p) /\ Ts[g] = m.latest
  BY DEF FeedInv
<1>2. PICK g \in p.events : ListedPart(p) /\ Ts[g] = m.latest
  BY <1>1
<1>3. /\ Pending(r) = {} /\ V \subseteq Events /\ g \in V /\ g \in Events
      /\ Ts[g] \in Nat /\ r.cursor + 1 = Ts[g] /\ r.cursor < Ts[g]
  <2>1. p.events \subseteq V /\ V \subseteq Events
    BY VisibleType DEF FeedInv
  <2>2. g \in V /\ g \in Events /\ Ts[g] \in Nat
    BY <2>1, FeedType
  <2> QED
    BY <1>2, <2>1, <2>2 DEF Pending
<1>4. p.events \subseteq AllListed
  <2> SUFFICES ASSUME NEW y \in p.events PROVE y \in AllListed
    OBVIOUS
  <2>1. Listed(y) /\ y \in Events
    BY <1>2, <1>3, ListedIff DEF FeedInv
  <2> QED
    BY <2>1 DEF AllListed
<1>5. ASSUME NEW e \in V, Charged(r, D, e), Seen(r, Ts[e])
      PROVE  Reached(AllListed \cup Pending(r), e)
  <2>1. e \in Events /\ Ts[e] <= r.cursor /\ Begun(D, e) /\ Ts[e] \in Nat
    BY <1>3, <1>5, FeedType DEF Charged, Seen, Passing
  <2>2. Ts[e] < Ts[g]
    BY <1>2, <1>3, <2>1
  <2>3. e < g
    BY <1>3, <2>1, <2>2, DayOrder
  <2>4. Reached(AllListed \cup p.events, e)
    BY <2>1, <2>3 DEF NoneBelow
  <2>5. AllListed \cup p.events \subseteq AllListed \cup Pending(r)
    BY <1>4
  <2> QED
    BY <2>4, <2>5, ReachedMore
<1>6. ASSUME NEW n \in Events \ V, Ts[n] <= r.cursor PROVE FALSE
  <2>1. Ts[g] < Ts[n] /\ Ts[n] \in Nat
    BY <1>3, FeedType DEF FeedInv
  <2> QED
    BY <1>2, <1>3, <1>6, <2>1
<1>7. Begun(D, g)
  <2>1. p.day \in D /\ p.day = DayOf(Ts[g]) /\ p.day \in Nat
    BY DaysType DEF Partitions, FeedInv, TypeOK, PartRecord
  <2>2. p.day <= DayOf(Ts[g])
    BY <2>1
  <2> QED
    BY <2>1, <2>2 DEF Begun
<1>8. \E e \in V : Begun(D, e) /\ Ts[e] <= r.cursor + 1
  BY <1>3, <1>7
<1> QED
  BY <1>3, <1>5, <1>6, <1>8 DEF Sweeps

(* Partitions that begin the same days.                                    *)
LEMMA SweepsOver ==
  ASSUME NEW r, NEW V, NEW L, NEW D, NEW E, V \subseteq Events, Pending(r) \subseteq V,
         Sweeps(r, V, L, D),
         D # {}, D \subseteq E, \A e \in Events : Begun(E, e) => Begun(D, e)
  PROVE  Sweeps(r, V, L, E)
<1>1. \A e \in Events : Begun(E, e) <=> Begun(D, e)
  BY DEF Begun
<1>2. \A e \in V : Charged(r, E, e) => Charged(r, D, e)
  BY DEF Charged
<1>3. \A e \in V : Charged(r, E, e) /\ Seen(r, Ts[e]) => Reached(L \cup Pending(r), e)
  BY <1>2 DEF Sweeps
<1>4. \A x \in Pending(r) : Begun(E, x)
  BY <1>1 DEF Sweeps
<1>5. IF r.command = "backfill" THEN \E d \in E : d <= r.day
      ELSE \E e \in V : Begun(E, e) /\ Ts[e] <= r.cursor + 1
  <2>1. CASE r.command = "backfill"
    BY <2>1 DEF Sweeps
  <2>2. CASE r.command # "backfill"
    BY <1>1, <2>2 DEF Sweeps
  <2> QED
    BY <2>1, <2>2
<1> QED
  BY <1>3, <1>4, <1>5 DEF Sweeps

(* A job that goes on with the same hand, and on the same day if it is a   *)
(* backfill, still sweeps.                                                 *)
LEMMA SweepsOn ==
  ASSUME NEW r, NEW a, NEW V, NEW L, NEW D, Sweeps(r, V, L, D), SameHand(a, r),
         r.command = "backfill" => a.day = r.day
  PROVE  Sweeps(a, V, L, D)
<1>1. Pending(a) = Pending(r)
  BY DEF Pending, SameHand
<1>2. \A t : Seen(a, t) <=> Seen(r, t)
  <2>1. Passing(a) <=> Passing(r)
    BY DEF Passing, SameHand
  <2> QED
    BY <2>1 DEF Seen, SameHand
<1>3. \A e : Charged(a, D, e) <=> Charged(r, D, e)
  BY DEF Charged, SameHand
<1>4. \A e \in V : Charged(a, D, e) /\ Seen(a, Ts[e]) => Reached(L \cup Pending(a), e)
  BY <1>1, <1>2, <1>3 DEF Sweeps
<1>5. \A n \in Events \ V : Ts[n] <= a.cursor => a.command = "backfill" /\ DayOf(Ts[n]) < a.day
  BY DEF Sweeps, SameHand
<1>6. D # {} =>
       /\ \A x \in Pending(a) : Begun(D, x)
       /\ IF a.command = "backfill" THEN \E d \in D : d <= a.day
          ELSE \E e \in V : Begun(D, e) /\ Ts[e] <= a.cursor + 1
  BY <1>1 DEF Sweeps, SameHand
<1> QED
  BY <1>4, <1>5, <1>6 DEF Sweeps

(* The first file of all is one of the day its backfill is at.             *)
LEMMA SweepsFirst ==
  ASSUME NEW r, NEW V, NEW L, r.command = "backfill", r.day \in Nat,
         \A x \in Pending(r) : DayOf(Ts[x]) = r.day, Sweeps(r, V, L, {})
  PROVE  Sweeps(r, V, L, {r.day})
<1>1. r.day <= r.day
  OBVIOUS
<1>2. \A e : Charged(r, {r.day}, e) <=> Charged(r, {}, e)
  BY DEF Charged, Begun
<1>3. \A e \in V : Charged(r, {r.day}, e) /\ Seen(r, Ts[e]) => Reached(L \cup Pending(r), e)
  BY <1>2 DEF Sweeps
<1>4. \A x \in Pending(r) : Begun({r.day}, x)
  BY <1>1 DEF Begun
<1> QED
  BY <1>1, <1>3, <1>4 DEF Sweeps

(* A part file begins no day before the first.                             *)
LEMMA PartBegins ==
  ASSUME FileInv, FeedInv, AllTidy, Orderly, SweepInv, NEW j \in Jobs, UploadPart(j)
  PROVE  \E d \in Days, x \in Least(job[j].batch) :
           /\ d = DayOf(Ts[x]) /\ job'[j].day = d
           /\ parts' = parts \cup {PartOf(job[j], d)}
           /\ Partitions' = Partitions \cup {d}
           /\ job[j].command = "backfill" => d = job[j].day
           /\ parts = {} => job[j].command = "backfill"
           /\ parts # {} => \A e \in Events : Begun(Partitions', e) => Begun(Partitions, e)
<1> DEFINE r == job[j]
<1>1. PICK d \in Days, x \in Least(r.batch) :
           /\ d = DayOf(Ts[x]) /\ job'[j].day = d
           /\ parts' = parts \cup {PartOf(r, d)}
  BY PartEffect
<1>2. TypeOK /\ InOrder(r, Visible) /\ r.step = "part" /\ Active(r) /\ d \in Nat
  BY PartEffect, DaysType DEF FileInv, AllTidy, Tidy, Active
<1>3. x \in Pending(r) /\ x \in Events
  BY <1>2, JobFields DEF Least, Pending
<1>4. r.command = "backfill" => d = r.day
  BY <1>1, <1>2, <1>3 DEF InOrder
<1>5. parts = {} => r.command = "backfill"
  BY <1>2 DEF SweepInv, FirstAlone
<1>6. Partitions' = Partitions \cup {d}
  <2> DEFINE new == PartOf(r, d)
  <2>1. new.day = d
    BY DEF PartOf
  <2> HIDE DEF new
  <2>2. parts' = parts \cup {new}
    BY <1>1 DEF new
  <2>3. Partitions' = {p.day : p \in parts'}
    BY DEF Partitions
  <2> QED
    BY <2>1, <2>2, <2>3 DEF Partitions
<1>7. ASSUME parts # {}, NEW e \in Events, Begun(Partitions', e)
      PROVE  Begun(Partitions, e)
  <2>1. Partitions # {}
    BY <1>7 DEF Partitions
  <2>2. Sweeps(r, Visible, AllListed, Partitions)
    BY <1>2 DEF SweepInv
  <2>3. Begun(Partitions, x)
    BY <1>3, <2>1, <2>2 DEF Sweeps
  <2>4. PICK c \in Partitions : c <= d
    BY <1>1, <2>3 DEF Begun
  <2>5. c \in Nat /\ DayOf(Ts[e]) \in Nat
    BY <1>2, DaysType, DayOrder DEF Partitions, TypeOK, PartRecord
  <2>6. PICK b \in Partitions' : b <= DayOf(Ts[e])
    BY <1>7 DEF Begun
  <2>7. CASE b \in Partitions
    BY <2>6, <2>7 DEF Begun
  <2>8. CASE b = d
    <3>1. c <= DayOf(Ts[e])
      BY <1>2, <2>4, <2>5, <2>6, <2>8
    <3> QED
      BY <2>4, <3>1 DEF Begun
  <2> QED
    BY <1>6, <2>6, <2>7, <2>8
<1> QED
  BY <1>1, <1>4, <1>5, <1>6, <1>7

LEMMA PartSweeps ==
  ASSUME FileInv, FeedInv, AllTidy, Orderly, SweepInv, NEW j \in Jobs, UploadPart(j),
         NEW i \in Jobs, Active(job[i])
  PROVE  Sweeps(job'[i], Visible, AllListed', Partitions')
<1> DEFINE r == job[i]
<1>1. PICK d \in Days :
           /\ job'[j].day = d
           /\ Partitions' = Partitions \cup {d}
           /\ job[j].command = "backfill" => d = job[j].day
           /\ parts = {} => job[j].command = "backfill"
           /\ parts # {} => \A e \in Events : Begun(Partitions', e) => Begun(Partitions, e)
  BY PartBegins
<1>2. /\ TypeOK /\ InOrder(r, Visible) /\ Sweeps(r, Visible, AllListed, Partitions)
      /\ Visible \subseteq Events
  BY VisibleType DEF FileInv, AllTidy, Tidy, SweepInv
<1>3. Sweeps(r, Visible, AllListed', Partitions)
  BY <1>2, PartStays, SweepsMore
<1>4. Sweeps(r, Visible, AllListed', Partitions')
  <2>1. CASE parts # {}
    <3>1. /\ Partitions # {} /\ Partitions \subseteq Partitions'
          /\ \A e \in Events : Begun(Partitions', e) => Begun(Partitions, e)
      BY <1>1, <2>1 DEF Partitions
    <3>2. Pending(r) \subseteq Visible
      BY <1>2 DEF InOrder
    <3> QED
      BY <1>2, <1>3, <3>1, <3>2, SweepsOver
  <2>2. CASE parts = {}
    <3>1. i = j
      BY <2>2, PartEffect DEF SweepInv, FirstAlone, Active
    <3>2. r.command = "backfill" /\ d = r.day /\ r.day \in Nat
      BY <1>1, <1>2, <2>2, <3>1, JobFields
    <3>3. Partitions = {}
      BY <2>2 DEF Partitions
    <3>4. Partitions' = {r.day}
      BY <1>1, <3>2, <3>3
    <3>5. \A x \in Pending(r) : DayOf(Ts[x]) = r.day
      BY <1>2, <3>2 DEF InOrder
    <3>6. Sweeps(r, Visible, AllListed', {})
      BY <1>3, <3>3
    <3>7. Sweeps(r, Visible, AllListed', {r.day})
      BY <3>2, <3>5, <3>6, SweepsFirst
    <3> QED
      BY <3>4, <3>7
  <2> QED
    BY <2>1, <2>2
<1>5. CASE i # j
  BY <1>4, <1>5, PartEffect DEF Elsewhere
<1>6. CASE i = j
  <2>1. SameHand(job'[j], job[j]) /\ (job[j].command = "backfill" => job'[j].day = job[j].day)
    BY <1>1, PartEffect
  <2> QED
    BY <1>4, <1>6, <2>1, SweepsOn
<1> QED
  BY <1>5, <1>6

LEMMA PartNoneBelow ==
  ASSUME FileInv, FeedInv, AllTidy, Orderly, SweepInv, NEW j \in Jobs, UploadPart(j)
  PROVE  NoneBelow'
<1> DEFINE r == job[j]
<1>1. PICK d \in Days, x \in Least(r.batch) :
           /\ d = DayOf(Ts[x])
           /\ parts' = parts \cup {PartOf(r, d)}
           /\ Partitions' = Partitions \cup {d}
           /\ r.command = "backfill" => d = r.day
           /\ parts = {} => r.command = "backfill"
           /\ parts # {} => \A e \in Events : Begun(Partitions', e) => Begun(Partitions, e)
  BY PartBegins
<1> DEFINE new == PartOf(r, d)
<1>2. new.events = OfDay(r, d)
  BY DEF PartOf
<1> HIDE DEF new
<1>3. /\ TypeOK /\ InOrder(r, Visible) /\ r.step = "part" /\ Active(r) /\ d \in Nat
      /\ Visible \subseteq Events /\ Pending(r) \subseteq Visible /\ Pending(r) \subseteq Events
      /\ r.cursor \in Int /\ Sweeps(r, Visible, AllListed, Partitions)
      /\ AllListed \subseteq AllListed'
  BY PartEffect, PartStays, DaysType, VisibleType, JobFields
  DEF FileInv, AllTidy, Tidy, Active, SweepInv, InOrder
<1>4. ASSUME NEW p \in parts, NEW g \in p.events, NEW e \in Events, e < g, Begun(Partitions', e)
      PROVE  Reached(AllListed' \cup p.events, e)
  <2>1. Begun(Partitions, e)
    BY <1>1, <1>4
  <2>2. Reached(AllListed \cup p.events, e)
    BY <1>4, <2>1 DEF SweepInv, NoneBelow
  <2>3. AllListed \cup p.events \subseteq AllListed' \cup p.events
    BY <1>3
  <2> QED
    BY <2>2, <2>3, ReachedMore
<1>5. ASSUME NEW g \in new.events, NEW e \in Events, e < g, Begun(Partitions', e)
      PROVE  Reached(AllListed' \cup new.events, e)
  <2>1. g \in r.batch /\ g \in Visible /\ g \in Events /\ DayOf(Ts[g]) = d /\ Ts[g] <= r.cursor
    BY <1>2, <1>3 DEF OfDay, Pending, InOrder
  <2>2. e \in Nat /\ g \in Nat /\ Ts[e] \in Nat /\ Ts[g] \in Nat /\ Ts[e] <= Ts[g]
    BY <1>5, <2>1, DayOrder
  <2>3. Ts[e] <= r.cursor
    BY <1>3, <2>1, <2>2
  <2>4. e \in Visible
    <3> SUFFICES ASSUME e \notin Visible PROVE FALSE
      OBVIOUS
    <3>1. Ts[g] < Ts[e]
      BY <2>1 DEF FeedInv
    <3> QED
      BY <2>2, <3>1
  <2>5. Charged(r, Partitions, e)
    <3>1. CASE parts # {}
      BY <1>1, <1>5, <3>1 DEF Charged
    <3>2. CASE parts = {}
      <4>1. Partitions' = {d} /\ r.command = "backfill" /\ d = r.day
        BY <1>1, <3>2 DEF Partitions
      <4>2. r.day <= DayOf(Ts[e])
        BY <1>5, <4>1 DEF Begun
      <4> QED
        BY <4>1, <4>2 DEF Charged
    <3> QED
      BY <3>1, <3>2
  <2>6. Reached(AllListed \cup Pending(r), e)
    BY <1>3, <2>3, <2>4, <2>5 DEF Sweeps, Seen
  <2>7. PICK y \in AllListed \cup Pending(r) : y = e \/ (y < e /\ Ts[y] = Ts[e])
    BY <2>6 DEF Reached
  <2>8. CASE y \in AllListed
    BY <1>3, <2>7, <2>8 DEF Reached
  <2>9. CASE y \in Pending(r)
    <3>0. y \in Events /\ y \in Nat
      BY <1>3, <2>9, EventsFinite
    <3>1. y \in Events /\ y \in Nat /\ y < g /\ y <= g
      BY <1>5, <2>2, <2>7, <3>0
    <3>2. y \in r.batch
      <4> SUFFICES ASSUME y \in r.buffer PROVE FALSE
        BY <2>9 DEF Pending
      <4>1. g < y
        BY <1>3, <2>1 DEF InOrder
      <4> QED
        BY <2>2, <3>1, <4>1
    <3>3. x \in Events /\ x <= y
      BY <1>3, <3>2 DEF Least, Pending
    <3>4. d <= DayOf(Ts[y]) /\ DayOf(Ts[y]) <= d /\ DayOf(Ts[y]) \in Nat
      BY <1>1, <2>1, <3>1, <3>3, DayOrder
    <3>5. DayOf(Ts[y]) = d
      BY <1>3, <3>4
    <3>6. y \in new.events
      BY <1>2, <3>2, <3>5 DEF OfDay
    <3> QED
      BY <2>7, <3>6 DEF Reached
  <2> QED
    BY <2>7, <2>8, <2>9
<1>6. parts' = parts \cup {new}
  BY <1>1 DEF new
<1>7. \A p \in parts' : \A g \in p.events : \A e \in Events :
        e < g /\ Begun(Partitions', e) => Reached(AllListed' \cup p.events, e)
  BY <1>4, <1>5, <1>6
<1> QED
  BY <1>7 DEF NoneBelow

NoHolesInv == FileInv /\ FeedInv /\ AllTidy /\ SweepInv

LEMMA ManifestSweeps ==
  ASSUME FileInv, FeedInv, AllTidy, Orderly, SweepInv, NEW j \in Jobs, UploadManifest(j),
         Active(job'[j])
  PROVE  Sweeps(job'[j], Visible, AllListed', Partitions)
<1> DEFINE r == job[j]
           V == Visible
           D == Partitions
           L == AllListed
           M == AllListed'
<1>1. PICK q \in JobRecord :
           /\ SameRun(q, r) /\ q.cursor = r.cursor /\ q.buffer = r.buffer
           /\ q.batch = r.batch \ OfDay(r, r.day)
           /\ \/ q.batch # {} /\ q.step = "part" /\ job'[j] = q
              \/ q.batch = {} /\ job'[j] = Advance(j, q)
  BY ManifestEffect DEF FileInv
<1>2. /\ TypeOK /\ InOrder(r, V) /\ r.step = "manifest" /\ Active(r)
      /\ Sweeps(r, V, L, D)
  BY ManifestEffect DEF FileInv, AllTidy, Tidy, Active, SweepInv
<1>3. PICK p \in parts : JustWritten(r, p)
  BY <1>2 DEF AllTidy, Tidy
<1>4. OfDay(r, r.day) \subseteq M
  <2> SUFFICES ASSUME NEW y \in OfDay(r, r.day) PROVE y \in M
    OBVIOUS
  <2>1. p \in parts' /\ ListedPart(p)' /\ y \in p.events
    BY <1>2, <1>3, ManifestStays, ManifestEffect DEF JustWritten
  <2>2. Listed(y)'
    BY <2>1 DEF Listed, Copies, ListedPart
  <2>3. y \in Events
    BY <1>2, JobFields DEF OfDay
  <2> QED
    BY <2>2, <2>3 DEF AllListed
<1>5. L \subseteq M
  BY ManifestStays
<1> HIDE DEF L, M
<1>6. Pending(q) \subseteq Pending(r) /\ L \cup Pending(r) \subseteq M \cup Pending(q)
  BY <1>1, <1>4, <1>5 DEF Pending
<1>7. \A e : Charged(q, D, e) <=> Charged(r, D, e)
  BY <1>1 DEF Charged, SameRun
<1>8. \A t : Seen(q, t) <=> Seen(r, t)
  BY <1>1 DEF Seen, Passing, SameRun
<1>9. ASSUME NEW e \in V, Charged(q, D, e), Seen(q, Ts[e])
      PROVE  Reached(M \cup Pending(q), e)
  <2>1. Reached(L \cup Pending(r), e)
    BY <1>2, <1>7, <1>8, <1>9 DEF Sweeps
  <2> QED
    BY <1>6, <2>1, ReachedMore
<1>10. Sweeps(q, V, M, D)
  <2>1. \A n \in Events \ V : Ts[n] <= q.cursor => q.command = "backfill" /\ DayOf(Ts[n]) < q.day
    BY <1>1, <1>2 DEF Sweeps, SameRun
  <2>2. D # {} =>
       /\ \A x \in Pending(q) : Begun(D, x)
       /\ IF q.command = "backfill" THEN \E d \in D : d <= q.day
          ELSE \E e \in V : Begun(D, e) /\ Ts[e] <= q.cursor + 1
    BY <1>1, <1>2, <1>6 DEF Sweeps, SameRun
  <2> QED
    BY <1>9, <2>1, <2>2 DEF Sweeps
<1>11. InOrder(q, V)
  BY <1>1, <1>2, RestInOrder
<1>12. CASE q.batch = {} /\ job'[j] = Advance(j, q)
  <2>1. q.command = r.command /\ q.day = r.day /\ q.last = r.last
    BY <1>1 DEF SameRun
  <2>2. Sweeps(Advance(j, q), V, M, D)
    BY <1>2, <1>10, <1>11, <1>12, <2>1, AdvanceSweeps
  <2> QED
    BY <1>12, <2>2 DEF M
<1>13. CASE job'[j] = q
  BY <1>10, <1>13 DEF M
<1> QED
  BY <1>1, <1>12, <1>13

(* The job's own claim after a step that writes nothing.                   *)
LEMMA OwnSweeps ==
  ASSUME FileInv, FeedInv, AllTidy, Orderly', SweepInv, Orderly, NEW j \in Jobs, JobStep(j),
         ~UploadPart(j), ~UploadManifest(j), Active(job'[j])
  PROVE  Sweeps(job'[j], Visible, AllListed, Partitions)
<1>t. TypeOK /\ NoneBelow /\ Tidy(job[j], Visible, parts)
  BY DEF FileInv, SweepInv, AllTidy
<1>1. ASSUME NEW from \in Days, NEW last \in Days, StartBackfill(j, from, last)
      PROVE  Sweeps(job'[j], Visible, AllListed, Partitions)
  <2>1. Partitions = {} \/ from \in Partitions
    BY <1>t, <1>1, StartBackfillEffect DEF Orderly, Without, Partitions
  <2> QED
    BY <1>t, <1>1, <2>1, StartBackfillEffect, BackfillSweeps
<1>2. CASE StartCatchup(j)
  BY <1>t, <1>2, StartCatchupEffect DEF Active
<1>3. CASE FindPartition(j)
  BY <1>t, <1>3, FindPartitionEffect DEF Active
<1>4. CASE FindSource(j)
  <2>1. job'[j] # IdleJob
    BY IdleJobFields DEF Active
  <2>2. PICK m \in manifests :
                 /\ job'[j].step = "page" /\ job'[j].command = "catchup"
                 /\ job'[j].cursor = m.latest - 1
                 /\ job'[j].buffer = {} /\ job'[j].batch = {}
    BY <1>t, <1>4, <2>1, FindSourceEffect
  <2> QED
    BY <1>t, <2>2, CatchupSweeps
<1>5. CASE FetchPage(j)
  <2>1. PICK q \in JobRecord : Fetched(q, job[j]) /\ job'[j] = Advance(j, q)
    BY <1>t, <1>5, FetchEffect
  <2>2. job[j].batch = {} /\ InOrder(job[j], Visible) /\ Active(job[j])
    BY <1>t, <1>5, FetchEffect DEF Tidy, Active
  <2>3. Sweeps(job[j], Visible, AllListed, Partitions)
    BY <2>2 DEF SweepInv
  <2>4. q.batch = {} /\ InOrder(q, Visible)
    BY <1>t, <2>1, <2>2, FetchedInOrder
  <2>5. Sweeps(q, Visible, AllListed, Partitions)
    BY <1>t, <2>1, <2>2, <2>3, FetchSweeps
  <2>6. q.command = job[j].command /\ q.day = job[j].day /\ q.last = job[j].last
    BY <2>1 DEF Fetched
  <2>7. Active(Advance(j, q))
    BY <2>1
  <2>8. Sweeps(Advance(j, q), Visible, AllListed, Partitions)
    BY <1>t, <2>4, <2>5, <2>6, <2>7, AdvanceSweeps
  <2> QED
    BY <2>1, <2>8
<1>6. CASE Fail(j)
  <2>1. AfterDay(j) # IdleJob
    BY <1>t, <1>6, FailEffect, IdleJobFields DEF Active
  <2>2. job[j].command = "backfill"
    BY <2>1 DEF AfterDay
  <2> QED
    BY <1>t, <1>6, <2>1, <2>2, FailEffect DEF Orderly, Without
<1>7. CASE Crash(j)
  BY <1>t, <1>7, CrashEffect, IdleJobFields DEF Active
<1> QED
  BY <1>1, <1>2, <1>3, <1>4, <1>5, <1>6, <1>7 DEF JobStep, Progress

(* Before there is any file only the first backfill runs.                  *)
LEMMA StaysAlone ==
  ASSUME FileInv, FeedInv, AllTidy, Orderly', SweepInv, Orderly, NEW j \in Jobs, JobStep(j)
  PROVE  FirstAlone'
<1> SUFFICES ASSUME parts' = {}
             PROVE  /\ \A i, k \in Jobs : job'[i].step # "idle" /\ job'[k].step # "idle" => i = k
                    /\ \A i \in Jobs : job'[i].step # "idle" =>
                         job'[i].command = "backfill" /\ Active(job'[i])
  BY DEF FirstAlone
<1>t. TypeOK /\ Tidy(job[j], Visible, parts) /\ Elsewhere(j)
  BY JobStepTidy DEF FileInv, AllTidy
<1>n. [Next]_vars
  BY DEF Next
<1>0. parts = {}
  BY <1>n, FileStep
<1>1. /\ \A i, k \in Jobs : job[i].step # "idle" /\ job[k].step # "idle" => i = k
      /\ \A i \in Jobs : job[i].step # "idle" => job[i].command = "backfill" /\ Active(job[i])
  BY <1>0 DEF SweepInv, FirstAlone
<1>2. SUFFICES ASSUME job'[j].step # "idle"
               PROVE  /\ job[j].step # "idle" \/ ~Busy
                      /\ job'[j].command = "backfill" /\ Active(job'[j])
  BY <1>t, <1>1, <1>2 DEF Elsewhere, Busy
<1>3. CASE StartCatchup(j)
  BY <1>t, <1>0, <1>3, StartCatchupEffect
<1>4. ASSUME NEW from \in Days, NEW last \in Days, StartBackfill(j, from, last)
      PROVE  ~Busy /\ job'[j].command = "backfill" /\ Active(job'[j])
  <2>1. ~Busy /\ job'[j] = DayRun(from, last)
    BY <1>t, <1>0, <1>4, StartBackfillEffect DEF Orderly, Without, Partitions
  <2>2. DayRun(from, last).step = "page" /\ DayRun(from, last).command = "backfill"
    BY DEF DayRun, IdleJob
  <2> QED
    BY <2>1, <2>2 DEF Active
<1>5. CASE FindPartition(j)
  BY <1>t, <1>1, <1>5, FindPartitionEffect DEF Active
<1>6. CASE FindSource(j)
  BY <1>t, <1>1, <1>6, FindSourceEffect DEF Active
<1>a. \A d, last \in Days : DayRun(d, last).step = "page" /\ DayRun(d, last).command = "backfill"
  BY DEF DayRun, IdleJob
<1>7. CASE FetchPage(j)
  <2>1. PICK q \in JobRecord : Fetched(q, job[j]) /\ job'[j] = Advance(j, q)
    BY <1>t, <1>7, FetchEffect
  <2>2. job[j].step = "page" /\ job[j].command = "backfill" /\ q.batch = {}
    BY <1>t, <1>1, <1>7, <2>1, FetchEffect DEF Fetched, Tidy
  <2>3. CASE job'[j].step \in {"page", "part"} /\ SameRun(job'[j], q)
    BY <2>1, <2>2, <2>3 DEF SameRun, Fetched, Active
  <2>4. CASE job'[j] = AfterDay(j)
    BY <1>t, <1>2, <1>a, <2>2, <2>4, AfterDayEffect, IdleJobFields DEF Active
  <2> QED
    BY <1>t, <2>1, <2>2, <2>3, <2>4, AdvanceEffect
<1>8. CASE UploadPart(j)
  BY <1>8, PartEffect
<1>9. CASE UploadManifest(j)
  BY <1>t, <1>0, <1>9, ManifestEffect DEF Tidy
<1>10. CASE Fail(j)
  BY <1>t, <1>1, <1>2, <1>a, <1>10, FailEffect, AfterDayEffect, IdleJobFields DEF Active
<1>11. CASE Crash(j)
  BY <1>t, <1>2, <1>11, CrashEffect, IdleJobFields
<1> QED
  BY <1>3, <1>4, <1>5, <1>6, <1>7, <1>8, <1>9, <1>10, <1>11 DEF JobStep, Progress

LEMMA JobStepSweeps ==
  ASSUME FileInv, FeedInv, AllTidy, Orderly', SweepInv, Orderly, NEW j \in Jobs, JobStep(j)
  PROVE  SweepInv'
<1>t. /\ TypeOK /\ Elsewhere(j) /\ Visible' = Visible
      /\ AllListed \subseteq AllListed'
  BY JobStepTidy, ListedStays DEF FileInv
<1>1. FirstAlone'
  BY StaysAlone
<1>2. CASE UploadPart(j)
  <2>1. ASSUME NEW i \in Jobs, Active(job'[i])
        PROVE  Sweeps(job'[i], Visible', AllListed', Partitions')
    <3>1. CASE Active(job[i])
      BY <1>t, <1>2, <3>1, PartSweeps
    <3>2. CASE ~Active(job[i])
      <4>1. i = j
        BY <1>t, <2>1, <3>2 DEF Elsewhere
      <4> QED
        BY <1>2, <3>2, <4>1, PartEffect DEF Active
    <3> QED
      BY <3>1, <3>2
  <2>2. NoneBelow'
    BY <1>2, PartNoneBelow
  <2> QED
    BY <1>1, <2>1, <2>2 DEF SweepInv
<1>3. CASE ~UploadPart(j)
  <2>1. parts' = parts
    BY <1>3, JobStepQuiet
  <2>2. Partitions' = Partitions
    BY <2>1 DEF Partitions
  <2>3. ASSUME NEW i \in Jobs, Active(job'[i])
        PROVE  Sweeps(job'[i], Visible', AllListed', Partitions')
    <3>1. CASE i # j
      <4>1. job'[i] = job[i]
        BY <1>t, <3>1 DEF Elsewhere
      <4>2. Sweeps(job'[i], Visible, AllListed, Partitions)
        BY <2>3, <4>1 DEF SweepInv
      <4>3. Sweeps(job'[i], Visible, AllListed', Partitions)
        BY <1>t, <4>2, SweepsMore
      <4> QED
        BY <1>t, <2>2, <4>3
    <3>2. CASE i = j /\ UploadManifest(j)
      BY <1>t, <2>2, <2>3, <3>2, ManifestSweeps
    <3>3. CASE i = j /\ ~UploadManifest(j)
      <4>1. Sweeps(job'[j], Visible, AllListed, Partitions)
        BY <1>3, <2>3, <3>3, OwnSweeps
      <4>2. Sweeps(job'[j], Visible, AllListed', Partitions)
        BY <1>t, <4>1, SweepsMore
      <4> QED
        BY <1>t, <2>2, <3>3, <4>2
    <3> QED
      BY <3>1, <3>2, <3>3
  <2>4. ASSUME NEW p \in parts, NEW g \in p.events, NEW e \in Events,
               e < g, Begun(Partitions, e)
        PROVE  Reached(AllListed' \cup p.events, e)
    <3>1. Reached(AllListed \cup p.events, e)
      BY <2>4 DEF SweepInv, NoneBelow
    <3>2. AllListed \cup p.events \subseteq AllListed' \cup p.events
      BY <1>t
    <3> QED
      BY <3>1, <3>2, ReachedMore
  <2>5. NoneBelow'
    BY <2>1, <2>2, <2>4 DEF NoneBelow
  <2> QED
    BY <1>1, <2>3, <2>5 DEF SweepInv
<1> QED
  BY <1>2, <1>3

LEMMA QuietSweeps ==
  ASSUME SweepInv, Orderly, UNCHANGED <<parts, manifests, job>>,
         \A i \in Jobs : Active(job[i]) => Sweeps(job[i], Visible', AllListed, Partitions)
  PROVE  SweepInv'
<1>1. AllListed' = AllListed /\ Partitions' = Partitions
  BY AsideStays DEF Partitions
<1>2. FirstAlone'
  BY DEF SweepInv, FirstAlone
<1>3. NoneBelow'
  BY <1>1 DEF SweepInv, NoneBelow
<1>4. \A i \in Jobs : Active(job'[i]) => Sweeps(job'[i], Visible', AllListed', Partitions')
  BY <1>1
<1> QED
  BY <1>2, <1>3, <1>4 DEF SweepInv

LEMMA StepSweeps ==
  ASSUME FileInv, FeedInv, AllTidy, SweepInv, [Next]_vars
  PROVE  SweepInv'
<1> SUFFICES ASSUME Orderly' PROVE SweepInv'
  BY DEF SweepInv
<1>1. TypeOK /\ Orderly
  BY EventsStay DEF FileInv, Orderly, Without
<1>2. CASE Index
  <2>1. \A i \in Jobs : Active(job[i]) => Sweeps(job[i], Visible', AllListed, Partitions)
    BY <1>1, <1>2, IndexSweeps DEF SweepInv, AllTidy, Tidy
  <2> QED
    BY <1>1, <1>2, <2>1, QuietSweeps DEF Index
<1>3. CASE UNCHANGED vars
  <2>1. Visible' = Visible /\ UNCHANGED <<parts, manifests, job>>
    BY <1>3 DEF vars, Visible
  <2>2. \A i \in Jobs : Active(job[i]) => Sweeps(job[i], Visible', AllListed, Partitions)
    BY <1>1, <2>1 DEF SweepInv
  <2> QED
    BY <1>1, <2>1, <2>2, QuietSweeps
<1> QED
  BY <1>1, <1>2, <1>3, JobStepSweeps DEF Next

LEMMA InitSweeps == Init => SweepInv
BY IdleJobFields DEF Init, SweepInv, FirstAlone, NoneBelow, Active

THEOREM SweepInvariant == Spec => []NoHolesInv
<1>1. Init => NoHolesInv
  BY InitFiles, InitFeed, InitTidy, InitSweeps DEF NoHolesInv
<1>2. NoHolesInv /\ [Next]_vars => NoHolesInv'
  BY FileStep, StepFeed, StepTidy, StepSweeps DEF NoHolesInv
<1> QED
  BY <1>1, <1>2, PTL DEF Spec

LEMMA SweptLeavesNoHole == NoHolesInv => NoHoles
<1> SUFFICES ASSUME NoHolesInv, Orderly,
                    NEW e \in Events, NEW f \in Events, NEW g \in Events,
                    f < e, e < g, Listed(f), Listed(g)
             PROVE  Listed(e) \/ CutOff(e)
  BY DEF NoHoles, Orderly
<1>1. /\ TypeOK /\ FeedInv /\ NoneBelow
      /\ e \in Nat /\ f \in Nat
  BY EventsFinite DEF NoHolesInv, FileInv, SweepInv
<1>2. PICK p \in parts : g \in p.events /\ ListedPart(p)
  BY ListedIff
<1>3. PICK o \in parts : f \in o.events
  BY ListedIff
<1>4. o.day = DayOf(Ts[f]) /\ o.day \in Partitions
  BY <1>1, <1>3 DEF FeedInv, Partitions
<1>5. DayOf(Ts[f]) <= DayOf(Ts[e])
  BY <1>1, DayOrder
<1>6. Begun(Partitions, e)
  BY <1>4, <1>5 DEF Begun
<1>7. Reached(AllListed \cup p.events, e)
  BY <1>1, <1>2, <1>6 DEF NoneBelow
<1>8. p.events \subseteq AllListed
  <2> SUFFICES ASSUME NEW y \in p.events PROVE y \in AllListed
    OBVIOUS
  <2>1. Listed(y) /\ y \in Events
    BY <1>1, <1>2, ListedIff, VisibleType DEF FeedInv
  <2> QED
    BY <2>1 DEF AllListed
<1>9. PICK y \in AllListed : y = e \/ (y < e /\ Ts[y] = Ts[e])
  BY <1>7, <1>8 DEF Reached
<1>10. y \in Events /\ Listed(y) /\ y \in Nat
  BY <1>9, EventsFinite DEF AllListed
<1>11. ASSUME y < e PROVE y \in 1..(e - 1)
  BY <1>1, <1>10, <1>11 DEF Events
<1> QED
  BY <1>9, <1>10, <1>11 DEF CutOff

(* Between two listed events every event is listed, or was cut off by a    *)
(* page that ended within its timestamp: crashes, overlapping runs, failed *)
(* catch-ups and repairs do not leave a hole.  A backfill may: by going on *)
(* after a failed day, by running ahead of the subgraph, or by beginning   *)
(* with a day that has no partition.                                       *)
THEOREM BronzeHasNoHoles == Spec => []NoHoles
<1> QED
  BY SweepInvariant, SweptLeavesNoHole, PTL

(* ----------------- listed twice only at a manifest's end ---------------- *)

Single == Without({"gap", "overlap", "repair"})

OneJob == \A i, j \in Jobs : job[i].step # "idle" /\ job[j].step # "idle" => i = j

ListedParts == {p \in parts : ListedPart(p)}

(* Where the manifests end that no running job writes again.               *)
EndTimes == {m.latest : m \in {n \in manifests : \A j \in Jobs : n.run # job[j].run}}

(* What a job has in hand and has not written.                             *)
Rest(r) == r.buffer \cup (IF r.step = "manifest" THEN r.batch \ OfDay(r, r.day) ELSE r.batch)

(* What a job has written, has in hand, or may still fetch.                *)
Handles(r, P, x) ==
  x \in Rest(r) \/ r.cursor < Ts[x] \/ \E p \in P : p.run = r.run /\ x \in p.events

(* What other runs have listed (W) is not after what a job handles, and at *)
(* the same time only where a manifest ends (T).                           *)
Follows(r, P, W, T) ==
  Active(r) =>
    \A p \in W : p.run # r.run =>
      \A e \in p.events, x \in Events :
        Handles(r, P, x) => Ts[e] <= Ts[x] /\ (Ts[e] = Ts[x] => Ts[e] \in T)

(* A backfill, and a catch-up that has found it, is at the last day.       *)
AtLastDay(r, P) ==
  r.step = "source" \/ (Active(r) /\ r.command = "backfill") => \A p \in P : p.day <= r.day

(* A job's own files, in ascending order.                                  *)
OwnFiles(r, P) ==
  /\ \A p \in P : p.run = r.run =>
       \A o \in p.events : Ts[o] <= r.cursor /\ \A x \in Rest(r) : o < x
  /\ \A p, q \in P : p.run = r.run /\ q.run = r.run /\ p # q => p.events \cap q.events = {}
  /\ r.step = "manifest" =>
       \A p \in P : p.run = r.run /\ p.day = r.day =>
         \A o \in p.events : Ts[o] <= r.latest[r.day]

Unused(r) == ~Active(r) => r.run = 0 /\ r.command = "catchup"

(* The manifests of a day end later and later, and not before what they    *)
(* list.                                                                   *)
ManifestsGrow(ms, P, n) ==
  /\ \A m \in ms : m.at <= n
  /\ \A m, o \in ms : m.day = o.day /\ m.at <= o.at => m.latest <= o.latest
  /\ \A m \in ms, p \in P :
       m.run = p.run /\ m.day = p.day /\ p.part \in m.files =>
         \A e \in p.events : Ts[e] <= m.latest

TwiceInv ==
  Single =>
    /\ OneJob
    /\ \A j \in Jobs : /\ Unused(job[j])
                       /\ Follows(job[j], parts, ListedParts, EndTimes)
                       /\ AtLastDay(job[j], parts)
                       /\ OwnFiles(job[j], parts)
    /\ \A p, q \in ListedParts : p # q => \A e \in p.events \cap q.events : Ts[e] \in EndTimes
    /\ ManifestsGrow(manifests, parts, uploads)

(* ---------------------- what is listed, and by whom ---------------------- *)

LEMMA ManifestRuns ==
  ASSUME FileInv, FeedInv, NEW m \in manifests
  PROVE  /\ m.run \in Nat \ {0} /\ m.run <= runs /\ m.day \in Days /\ m.day \in Nat
         /\ m.at \in Nat /\ m.latest \in Nat /\ runs \in Nat
BY DaysType DEF FeedInv, FileInv, TypeOK, ManifestRecord

LEMMA PartRuns ==
  ASSUME FileInv, NEW p \in parts
  PROVE  p.run \in Nat \ {0} /\ p.run <= runs /\ p.day \in Nat /\ runs \in Nat
BY DaysType DEF FileInv, RunsApart, TypeOK, PartRecord

LEMMA EndsStay ==
  ASSUME FileInv, FeedInv, NEW j \in Jobs, JobStep(j)
  PROVE  EndTimes \subseteq EndTimes'
<1> SUFFICES ASSUME NEW m \in manifests, \A k \in Jobs : m.run # job[k].run
             PROVE  m.latest \in EndTimes'
  BY DEF EndTimes
<1>0. TypeOK /\ m.run \in Nat \ {0} /\ m.run <= runs /\ runs \in Nat
  BY ManifestRuns DEF FileInv
<1>1. \A k \in Jobs : m.run # job'[k].run
  <2>1. CASE UploadPart(j)
    <3>1. job'[j].run = job[j].run \/ job'[j].run = runs + 1
      BY <2>1, PartEffect
    <3>2. m.run # job'[j].run
      BY <1>0, <3>1
    <3> QED
      BY <2>1, <3>2, PartEffect DEF Elsewhere
  <2>2. CASE ~UploadPart(j)
    BY <1>0, <2>2, JobStepQuiet DEF Resumed
  <2> QED
    BY <2>1, <2>2
<1>2. m \in manifests'
  <2>1. CASE UploadManifest(j)
    BY <1>0, <2>1, ManifestEffect
  <2>2. CASE ~UploadManifest(j)
    BY <2>2, JobStepQuiet, PartEffect
  <2> QED
    BY <2>1, <2>2
<1> QED
  BY <1>1, <1>2 DEF EndTimes

(* A new part file is of a run and number that no manifest lists.          *)
LEMMA NewUnlisted ==
  ASSUME FileInv, FeedInv, NEW j \in Jobs, NEW d \in Days
  PROVE  ~ListedPart(PartOf(job[j], d))
<1> DEFINE r == job[j]
           p == PartOf(r, d)
<1> SUFFICES ASSUME NEW m \in manifests, m.run = p.run, m.day = p.day, p.part \in m.files
             PROVE  FALSE
  BY DEF ListedPart
<1>1. p.run = RunOf(r) /\ p.day = d /\ p.part = r.count[d] + 1
  BY DEF PartOf, PartNumber
<1> HIDE DEF p
<1>2. /\ m.run \in Nat \ {0} /\ m.run <= runs /\ runs \in Nat
      /\ r.count[d] \in Nat
  BY ManifestRuns DEF FileInv, TypeOK, JobRecord
<1>3. m.run = r.run
  BY <1>1, <1>2 DEF RunOf
<1>4. m.files \subseteq 1..r.count[d]
  BY <1>1, <1>3 DEF FeedInv
<1>5. r.count[d] + 1 \in 1..r.count[d]
  BY <1>1, <1>4
<1> QED
  BY <1>2, <1>5

LEMMA ListedUnlessManifest ==
  ASSUME FileInv, FeedInv, NEW j \in Jobs, JobStep(j), ~UploadManifest(j)
  PROVE  ListedParts' = ListedParts /\ manifests' = manifests /\ uploads' = uploads
<1>1. CASE UploadPart(j)
  <2>1. PICK d \in Days : parts' = parts \cup {PartOf(job[j], d)}
    BY <1>1, PartEffect
  <2>2. manifests' = manifests /\ uploads' = uploads
    BY <1>1, PartEffect
  <2>3. \A p : ListedPart(p)' <=> ListedPart(p)
    BY <1>1, PartStays
  <2>4. ~ListedPart(PartOf(job[j], d))
    BY NewUnlisted
  <2>5. \A p : p \in ListedParts' <=> p \in parts' /\ ListedPart(p)
    BY <2>3 DEF ListedParts
  <2>6. \A p : p \in ListedParts' <=> p \in ListedParts
    BY <2>1, <2>4, <2>5 DEF ListedParts
  <2>7. ListedParts' = ListedParts
    <3> HIDE DEF ListedParts
    <3> QED
      BY <2>6
  <2> QED
    BY <2>2, <2>7
<1>2. CASE ~UploadPart(j)
  <2>1. parts' = parts /\ manifests' = manifests
    BY <1>2, JobStepQuiet
  <2>2. uploads' = uploads
    BY <1>2 DEF JobStep, Progress, StartCatchup, StartBackfill, FindPartition, FindSource,
                FetchPage, Fail, Crash
  <2>3. \A p : ListedPart(p)' <=> ListedPart(p)
    BY <2>1, AsideStays
  <2>4. ListedParts' = ListedParts
    BY <2>1, <2>3 DEF ListedParts
  <2> QED
    BY <2>1, <2>2, <2>4
<1> QED
  BY <1>1, <1>2

(* A manifest lists only files of its own run anew.                        *)
LEMMA ListedByManifest ==
  ASSUME FileInv, FeedInv, NEW j \in Jobs, UploadManifest(j)
  PROVE  /\ parts' = parts
         /\ \A p \in ListedParts' : p \in parts /\ (p.run # job[j].run => p \in ListedParts)
         /\ ListedParts \subseteq ListedParts'
<1>1. /\ manifests' = {m \in manifests : m.run # job[j].run \/ m.day # job[j].day}
                           \cup {ManifestOf(job[j])}
      /\ parts' = parts
  BY ManifestEffect DEF FileInv
<1> DEFINE new == ManifestOf(job[j])
<1>2. new.run = job[j].run
  BY DEF ManifestOf
<1> HIDE DEF new
<1>3. manifests' \subseteq manifests \cup {new}
  BY <1>1 DEF new
<1>4. ASSUME NEW p \in parts, ListedPart(p)', p.run # job[j].run PROVE ListedPart(p)
  <2>1. PICK m \in manifests' : m.run = p.run /\ m.day = p.day /\ p.part \in m.files
    BY <1>4 DEF ListedPart
  <2>2. m \in manifests
    BY <1>2, <1>3, <1>4, <2>1
  <2> QED
    BY <2>1, <2>2 DEF ListedPart
<1>5. \A p \in parts : ListedPart(p) => ListedPart(p)'
  BY ManifestStays
<1> QED
  BY <1>1, <1>4, <1>5 DEF ListedParts

TwiceCtx == FileInv /\ FeedInv /\ AllTidy /\ TwiceInv /\ Single

(* Nobody else is at work when a job takes a step.                         *)
LEMMA OthersIdle ==
  ASSUME TwiceCtx, Single', NEW j \in Jobs, JobStep(j), NEW i \in Jobs, i # j
  PROVE  job[i].step = "idle" /\ job'[i] = job[i]
<1>t. TypeOK /\ Elsewhere(j)
  BY JobStepTidy DEF TwiceCtx, FileInv
<1>o. \A k, l \in Jobs : job[k].step # "idle" /\ job[l].step # "idle" => k = l
  BY DEF TwiceCtx, TwiceInv, OneJob
<1> SUFFICES ASSUME job[i].step # "idle" PROVE FALSE
  BY <1>t DEF Elsewhere
<1>b. Busy
  BY DEF Busy
<1>1. job[j].step = "idle"
  BY <1>o
<1>2. CASE StartCatchup(j)
  BY <1>t, <1>b, <1>2, StartCatchupEffect DEF Single, Without
<1>3. ASSUME NEW from \in Days, NEW last \in Days, StartBackfill(j, from, last) PROVE FALSE
  BY <1>t, <1>b, <1>3, StartBackfillEffect DEF Single, Without
<1>4. job[j].step # "idle" \/ StartCatchup(j)
      \/ \E from, last \in Days : StartBackfill(j, from, last)
  BY DEF JobStep, Progress, FindPartition, FindSource, FetchPage, UploadPart, UploadManifest,
         Fail, Crash
<1> QED
  BY <1>1, <1>2, <1>3, <1>4

LEMMA StillOneJob ==
  ASSUME TwiceCtx, Single', NEW j \in Jobs, JobStep(j)
  PROVE  OneJob'
BY OthersIdle DEF OneJob

(* The other jobs' claims.                                                 *)
LEMMA IdleClaims ==
  ASSUME NEW r, NEW P, NEW W, NEW T, r.step = "idle", Unused(r), \A p \in P : p.run # 0
  PROVE  Follows(r, P, W, T) /\ AtLastDay(r, P) /\ OwnFiles(r, P)
<1>1. ~Active(r) /\ r.run = 0
  BY DEF Unused, Active
<1> QED
  BY <1>1 DEF Follows, AtLastDay, OwnFiles

(* A manifest ends where the newest of its run's files for the day ends.   *)
LEMMA StillGrow ==
  ASSUME TwiceCtx, NEW j \in Jobs, UploadManifest(j)
  PROVE  ManifestsGrow(manifests', parts', uploads')
<1> DEFINE r == job[j]
           new == ManifestOf(r)
<1>t. /\ TypeOK /\ FileInv /\ FeedInv /\ Tidy(r, Visible, parts)
      /\ Follows(r, parts, ListedParts, EndTimes) /\ OwnFiles(r, parts)
      /\ ManifestsGrow(manifests, parts, uploads)
  BY DEF TwiceCtx, TwiceInv, FileInv, AllTidy
<1>0. /\ manifests' = {m \in manifests : m.run # r.run \/ m.day # r.day} \cup {new}
      /\ parts' = parts /\ r.step = "manifest" /\ uploads' = uploads + 1 /\ uploads \in Nat
      /\ r \in JobRecord /\ r.day \in Days
  BY <1>t, ManifestEffect DEF TypeOK, JobRecord
<1>1. /\ new.run = r.run /\ new.day = r.day /\ new.latest = r.latest[r.day]
      /\ new.at = uploads + 1 /\ new.files = ManifestFiles(r)
  BY DEF ManifestOf
<1> HIDE DEF new
<1>2. PICK p \in parts : JustWritten(r, p)
  BY <1>t, <1>0 DEF Tidy
<1>3. PICK x \in OfDay(r, r.day) : r.latest[r.day] = Ts[x]
  BY <1>t, <1>0 DEF Tidy, Greatest
<1>4. x \in p.events /\ p.run = r.run /\ x \in Events /\ Ts[x] \in Nat
  BY <1>0, <1>2, <1>3, FeedType DEF JustWritten, OfDay, JobRecord
<1>5. Handles(r, parts, x)
  BY <1>4 DEF Handles
<1>6. \A m \in manifests : m.at \in Nat /\ m.at <= uploads /\ m.at <= uploads + 1
                           /\ ~(uploads + 1 <= m.at) /\ m.latest \in Nat
  BY <1>t, <1>0, ManifestRuns DEF ManifestsGrow
<1>7. ASSUME NEW m \in manifests', m # new, m.day = new.day
      PROVE  m.latest <= new.latest
  <2>1. m \in manifests /\ m.run # r.run
    BY <1>0, <1>1, <1>7
  <2>2. PICK o \in parts : \E e \in o.events : ListedPart(o) /\ o.run = m.run /\ Ts[e] = m.latest
    BY <1>t, <2>1 DEF FeedInv
  <2>3. PICK e \in o.events : ListedPart(o) /\ o.run = m.run /\ Ts[e] = m.latest
    BY <2>2
  <2>4. o \in ListedParts /\ Active(r)
    BY <1>0, <2>3 DEF ListedParts, Active
  <2>5. Ts[e] <= Ts[x]
    BY <1>t, <1>4, <1>5, <2>1, <2>3, <2>4 DEF Follows
  <2> QED
    BY <1>1, <1>3, <2>3, <2>5
<1>8. \A m \in manifests' : m.at <= uploads'
  BY <1>0, <1>1, <1>6
<1>9. ASSUME NEW m \in manifests', NEW o \in manifests', m.day = o.day, m.at <= o.at
      PROVE  m.latest <= o.latest
  <2>0. new.latest \in Nat
    BY <1>1, <1>3, <1>4
  <2>1. CASE m # new /\ o # new
    BY <1>t, <1>0, <1>9, <2>1 DEF ManifestsGrow
  <2>2. CASE o = new
    <3>1. CASE m = new
      BY <2>0, <2>2, <3>1
    <3>2. CASE m # new
      BY <1>7, <1>9, <2>2, <3>2
    <3> QED
      BY <3>1, <3>2
  <2>3. CASE m = new /\ o # new
    <3>1. o \in manifests
      BY <1>0, <2>3
    <3> QED
      BY <1>1, <1>6, <1>9, <2>3, <3>1
  <2> QED
    BY <2>1, <2>2, <2>3
<1>10. ASSUME NEW m \in manifests', NEW o \in parts,
              m.run = o.run, m.day = o.day, o.part \in m.files, NEW e \in o.events
       PROVE  Ts[e] <= m.latest
  <2>1. CASE m \in manifests
    BY <1>t, <1>10, <2>1 DEF ManifestsGrow
  <2>2. CASE m = new
    BY <1>t, <1>0, <1>1, <1>10, <2>2 DEF OwnFiles
  <2> QED
    BY <1>0, <2>1, <2>2
<1> QED
  BY <1>0, <1>8, <1>9, <1>10 DEF ManifestsGrow

LEMMA GrowUnlessManifest ==
  ASSUME TwiceCtx, NEW j \in Jobs, JobStep(j), ~UploadManifest(j)
  PROVE  ManifestsGrow(manifests', parts', uploads')
<1>t. FileInv /\ FeedInv /\ ManifestsGrow(manifests, parts, uploads)
  BY DEF TwiceCtx, TwiceInv
<1>0. manifests' = manifests /\ uploads' = uploads
  BY <1>t, ListedUnlessManifest
<1>1. ASSUME NEW m \in manifests, NEW o \in parts', m.run = o.run, m.day = o.day,
             o.part \in m.files, NEW e \in o.events
      PROVE  Ts[e] <= m.latest
  <2>1. o \in parts
    <3>1. CASE ~UploadPart(j)
      BY <1>t, <3>1, JobStepQuiet
    <3>2. CASE UploadPart(j)
      <4>1. PICK d \in Days : parts' = parts \cup {PartOf(job[j], d)}
        BY <1>t, <3>2, PartEffect
      <4>2. ListedPart(o)
        BY <1>1 DEF ListedPart
      <4>3. ~ListedPart(PartOf(job[j], d))
        BY <1>t, NewUnlisted
      <4>4. o # PartOf(job[j], d)
        BY <4>2, <4>3
      <4> QED
        BY <4>1, <4>4
    <3> QED
      BY <3>1, <3>2
  <2> QED
    BY <1>t, <1>1, <2>1 DEF ManifestsGrow
<1> QED
  BY <1>t, <1>0, <1>1 DEF ManifestsGrow

(* What is listed by two files ends a manifest.                            *)
LEMMA StillTwice ==
  ASSUME TwiceCtx, NEW j \in Jobs, JobStep(j)
  PROVE  \A p, q \in ListedParts' : p # q =>
           \A e \in p.events \cap q.events : Ts[e] \in EndTimes'
<1>t. /\ FileInv /\ FeedInv /\ EndTimes \subseteq EndTimes'
      /\ \A p, q \in ListedParts : p # q => \A e \in p.events \cap q.events : Ts[e] \in EndTimes
  BY EndsStay DEF TwiceCtx, TwiceInv
<1>1. CASE ~UploadManifest(j)
  BY <1>t, <1>1, ListedUnlessManifest
<1>2. CASE UploadManifest(j)
  <2> DEFINE r == job[j]
  <2>1. /\ Follows(r, parts, ListedParts, EndTimes) /\ OwnFiles(r, parts) /\ Active(r)
        /\ \A p \in ListedParts' : p \in parts /\ (p.run # r.run => p \in ListedParts)
    BY <1>t, <1>2, ListedByManifest, ManifestEffect
    DEF TwiceCtx, TwiceInv, FileInv, Active
  <2>2. ASSUME NEW p \in ListedParts', NEW q \in ListedParts', p # q,
               NEW e \in p.events \cap q.events, q.run = r.run
        PROVE  Ts[e] \in EndTimes
    <3>1. p.run # r.run
      BY <2>1, <2>2 DEF OwnFiles
    <3>2. p \in ListedParts /\ q \in parts /\ e \in Events
      BY <1>t, <2>1, <2>2, <3>1 DEF FileInv, TypeOK, PartRecord
    <3>3. Handles(r, parts, e)
      BY <2>2, <3>2 DEF Handles
    <3> QED
      BY <2>1, <2>2, <3>1, <3>2, <3>3 DEF Follows
  <2>3. ASSUME NEW p \in ListedParts', NEW q \in ListedParts', p # q,
               NEW e \in p.events \cap q.events
        PROVE  Ts[e] \in EndTimes
    <3>1. CASE q.run = r.run
      BY <2>2, <2>3, <3>1
    <3>2. CASE p.run = r.run
      BY <2>2, <2>3, <3>2
    <3>3. CASE p.run # r.run /\ q.run # r.run
      BY <1>t, <2>1, <2>3, <3>3
    <3> QED
      BY <3>1, <3>2, <3>3
  <2> QED
    BY <1>t, <2>3
<1> QED
  BY <1>1, <1>2

(* A job that goes on in the same run, and handles no more than before.    *)
LEMMA FollowsOn ==
  ASSUME NEW r, NEW a, NEW P, NEW Q, NEW W, NEW T, NEW X, NEW S,
         Active(r), Follows(r, P, W, T),
         \A p \in X : p.run # a.run => p \in W /\ p.run # r.run,
         \A x \in Events : Handles(a, Q, x) => Handles(r, P, x), T \subseteq S
  PROVE  Follows(a, Q, X, S)
BY DEF Follows

LEMMA FetchClaims ==
  ASSUME FileInv, AllTidy, NEW j \in Jobs, NEW q \in JobRecord, job[j].step = "page",
         Fetched(q, job[j]), NEW P, P \subseteq parts, OwnFiles(job[j], P)
  PROVE  /\ \A x \in Events :
              q.cursor < Ts[x] \/ x \in q.buffer \/ (\E p \in P : p.run = q.run /\ x \in p.events)
                => Handles(job[j], P, x)
         /\ \A p \in P : p.run = q.run =>
              \A o \in p.events : Ts[o] <= q.cursor /\ \A x \in q.buffer : o < x
         /\ q.run = job[j].run /\ q.command = job[j].command /\ q.day = job[j].day
         /\ q.last = job[j].last /\ q.batch = {}
<1> DEFINE r == job[j]
<1>1. /\ q.run = r.run /\ q.command = r.command /\ q.day = r.day /\ q.last = r.last
      /\ q.buffer = r.buffer \cup Page(r) /\ q.batch = {} /\ Rest(r) = r.buffer
      /\ r.cursor \in Int /\ q.cursor \in Int /\ r.cursor <= q.cursor
  BY JobFields DEF Fetched, AllTidy, Tidy, FileInv, Rest, JobRecord
<1>2. \A x \in Page(r) : x \in Events /\ r.cursor < Ts[x]
  BY VisibleType DEF FileInv, Fetched
<1>3. \A x \in Events : q.cursor < Ts[x] => r.cursor < Ts[x]
  BY <1>1, FeedType
<1>4. ASSUME NEW p \in P, p.run = q.run, NEW o \in p.events
      PROVE  Ts[o] <= q.cursor /\ \A x \in q.buffer : o < x
  <2>1. o \in Events /\ Ts[o] \in Nat
    BY <1>4, FeedType DEF FileInv, TypeOK, PartRecord
  <2>2. Ts[o] <= r.cursor /\ \A x \in r.buffer : o < x
    BY <1>1, <1>4 DEF OwnFiles
  <2>3. ASSUME NEW x \in Page(r) PROVE o < x
    <3>1. Ts[o] < Ts[x] /\ x \in Events
      BY <1>1, <1>2, <2>1, <2>2, <2>3, FeedType
    <3> QED
      BY <2>1, <3>1, DayOrder
  <2> QED
    BY <1>1, <2>1, <2>2, <2>3
<1>5. \A x \in Events :
        q.cursor < Ts[x] \/ x \in q.buffer \/ (\E p \in P : p.run = q.run /\ x \in p.events)
          => Handles(r, P, x)
  BY <1>1, <1>2, <1>3 DEF Handles
<1> QED
  BY <1>1, <1>4, <1>5

(* What follows a day: the files are all of that day or earlier.           *)
LEMMA AfterDayClaims ==
  ASSUME TypeOK, NEW j \in Jobs, NEW P, NEW X, NEW S,
         P \subseteq PartRecord, X \subseteq P,
         \A p \in P : \A e \in p.events : DayOf(Ts[e]) = p.day,
         job[j].command = "backfill" => \A p \in P : p.day <= job[j].day
  PROVE  LET a == AfterDay(j)
         IN  Unused(a) /\ Follows(a, P, X, S) /\ AtLastDay(a, P) /\ OwnFiles(a, P)
<1> DEFINE a == AfterDay(j)
<1>0. \A p \in P : p.run # 0
  BY DEF PartRecord
<1>1. CASE a = IdleJob
  <2>1. /\ IdleJob.step = "idle" /\ IdleJob.run = 0 /\ IdleJob.command = "catchup"
    BY IdleJobFields
  <2>2. Unused(IdleJob) /\ ~Active(IdleJob)
    BY <2>1 DEF Unused, Active
  <2>3. Follows(IdleJob, P, X, S) /\ AtLastDay(IdleJob, P) /\ OwnFiles(IdleJob, P)
    BY <1>0, <2>1, <2>2, IdleClaims
  <2> QED
    BY <1>1, <2>2, <2>3
<1>2. CASE a # IdleJob
  <2>1. /\ job[j].command = "backfill" /\ job[j].day \in Nat /\ job[j].day + 1 \in Days
        /\ job[j].last \in Days /\ a = DayRun(job[j].day + 1, job[j].last)
    BY <1>2, AfterDayEffect, JobFields
  <2>2. PICK r : r = DayRun(job[j].day + 1, job[j].last)
    OBVIOUS
  <2>3. /\ r.step = "page" /\ r.command = "backfill" /\ r.day = job[j].day + 1
        /\ r.cursor = FirstOfDay(job[j].day + 1) - 1
        /\ r.buffer = {} /\ r.batch = {} /\ r.run = 0
    BY <2>2 DEF DayRun, IdleJob, FirstOfDay
  <2>4. Rest(r) = {} /\ Active(r) /\ r.step # "manifest" /\ r.step # "source"
    BY <2>3 DEF Rest, Active
  <2>5. \A p \in P : /\ p.day \in Nat /\ p.day <= job[j].day
                     /\ p.day < job[j].day + 1 /\ p.day <= r.day
    <3>1. \A p \in P : p.day \in Nat /\ p.day <= job[j].day
      BY <2>1, DaysType DEF PartRecord
    <3> QED
      BY <2>1, <2>3, <3>1
  <2>6. ASSUME NEW p \in X, NEW e \in p.events, NEW x \in Events, Handles(r, P, x)
        PROVE  Ts[e] < Ts[x] /\ Ts[e] \in Nat /\ Ts[x] \in Nat
    <3>1. r.cursor < Ts[x] /\ Ts[x] \in Nat
      BY <1>0, <2>3, <2>4, <2>6, FeedType DEF Handles
    <3>2. e \in Events /\ DayOf(Ts[e]) = p.day /\ Ts[e] \in Nat
      BY <2>6, FeedType DEF PartRecord
    <3>3. FirstOfDay(job[j].day + 1) \in Nat /\ (Ts[e] <= FirstOfDay(job[j].day + 1) - 1)
      BY <2>1, <2>5, <3>2, DayBounds
    <3> QED
      BY <2>3, <3>1, <3>2, <3>3
  <2>7. Follows(r, P, X, S)
    BY <2>6 DEF Follows
  <2>8. AtLastDay(r, P)
    BY <2>5 DEF AtLastDay
  <2>9. OwnFiles(r, P)
    BY <1>0, <2>3, <2>4 DEF OwnFiles
  <2>10. Unused(r)
    BY <2>4 DEF Unused
  <2> QED
    BY <2>1, <2>2, <2>7, <2>8, <2>9, <2>10
<1> QED
  BY <1>1, <1>2

(* What Advance leads to, given what holds of the hand it starts from: q   *)
(* has nothing in its batch, X are the listed files and S the end times.   *)
LEMMA AdvanceClaims ==
  ASSUME TypeOK, NEW j \in Jobs, NEW q \in JobRecord, NEW P, NEW X, NEW S,
         q.command = job[j].command, q.day = job[j].day, q.last = job[j].last,
         q.batch = {}, P \subseteq PartRecord, X \subseteq P,
         \A p \in P : \A e \in p.events : DayOf(Ts[e]) = p.day,
         q.command = "backfill" => \A p \in P : p.day <= q.day,
         \A p \in X : p.run # q.run =>
           \A e \in p.events, x \in Events :
             q.cursor < Ts[x] \/ x \in q.buffer \/ (\E o \in P : o.run = q.run /\ x \in o.events)
               => Ts[e] <= Ts[x] /\ (Ts[e] = Ts[x] => Ts[e] \in S),
         \A p \in P : p.run = q.run =>
              \A o \in p.events : Ts[o] <= q.cursor /\ \A x \in q.buffer : o < x,
         \A p, o \in P : p.run = q.run /\ o.run = q.run /\ p # o => p.events \cap o.events = {}
  PROVE  LET a == Advance(j, q)
         IN  Unused(a) /\ Follows(a, P, X, S) /\ AtLastDay(a, P) /\ OwnFiles(a, P)
<1> DEFINE a == Advance(j, q)
<1>0. \A p \in P : p.run # 0
  BY DEF PartRecord
<1>1. CASE a.step \in {"page", "part"} /\ SameRun(a, q) /\ a.cursor = q.cursor
           /\ Pending(a) = q.buffer
  <2> HIDE DEF a
  <2>1. Rest(a) = q.buffer
    BY <1>1 DEF Rest, Pending
  <2>2. /\ a.run = q.run /\ a.command = q.command /\ a.day = q.day
        /\ a.step # "manifest" /\ a.step # "source" /\ Active(a)
    BY <1>1 DEF SameRun, Active
  <2>3. \A x \in Events : Handles(a, P, x) =>
          q.cursor < Ts[x] \/ x \in q.buffer \/ (\E o \in P : o.run = q.run /\ x \in o.events)
    BY <1>1, <2>1, <2>2 DEF Handles
  <2>4. Follows(a, P, X, S)
    BY <2>2, <2>3 DEF Follows
  <2>5. OwnFiles(a, P)
    BY <1>1, <2>1, <2>2 DEF OwnFiles
  <2>6. Unused(a) /\ AtLastDay(a, P)
    BY <2>2 DEF Unused, AtLastDay
  <2> QED
    BY <2>4, <2>5, <2>6 DEF a
<1>2. CASE a = AfterDay(j)
  BY <1>2, AfterDayClaims
<1> QED
  BY <1>1, <1>2, AdvanceEffect

(* A catch-up that goes on where the newest manifest of the last day ends. *)
LEMMA CatchupFollows ==
  ASSUME TwiceCtx, NEW m \in manifests, NEW r, NEW d, m.day = d,
         \A n \in manifests : n.day = d => n.at <= m.at,
         \A p \in parts : p.day <= d,
         \A k \in Jobs : job[k].run = 0,
         r.cursor = m.latest - 1, r.buffer = {}, r.batch = {}, r.run = 0
  PROVE  Follows(r, parts, ListedParts, EndTimes)
<1>1. FileInv /\ FeedInv /\ TypeOK /\ ManifestsGrow(manifests, parts, uploads)
  BY DEF TwiceCtx, TwiceInv, FileInv
<1>2. m.latest \in Nat /\ m.run # 0 /\ d \in Nat
  BY <1>1, ManifestRuns
<1>3. m.latest \in EndTimes
  BY <1>2 DEF EndTimes
<1>4. ASSUME NEW p \in ListedParts, NEW e \in p.events PROVE Ts[e] <= m.latest /\ Ts[e] \in Nat
  <2>1. /\ p \in parts /\ p.day <= d /\ p.day \in Nat /\ e \in Events /\ Ts[e] \in Nat
        /\ DayOf(Ts[e]) = p.day
    <3>1. p \in parts
      BY DEF ListedParts
    <3>2. e \in Events
      BY <1>1, <1>4, <3>1 DEF TypeOK, PartRecord
    <3> QED
      BY <1>1, <1>4, <3>1, <3>2, FeedType, PartRuns DEF FeedInv
  <2>2. PICK n \in manifests : n.run = p.run /\ n.day = p.day /\ p.part \in n.files
    BY DEF ListedParts, ListedPart
  <2>3. CASE p.day = d
    <3>1. n.at <= m.at /\ n.day = m.day
      BY <2>2, <2>3
    <3>2. n.latest <= m.latest /\ n.latest \in Nat
      BY <1>1, <3>1, ManifestRuns DEF ManifestsGrow
    <3>3. Ts[e] <= n.latest
      BY <1>1, <1>4, <2>1, <2>2 DEF ManifestsGrow
    <3> QED
      BY <1>2, <2>1, <3>2, <3>3
  <2>4. CASE p.day < d
    <3>1. PICK o \in parts : \E g \in o.events : Ts[g] = m.latest /\ DayOf(Ts[g]) = m.day
      BY <1>1 DEF FeedInv
    <3>2. PICK g \in o.events : Ts[g] = m.latest /\ DayOf(Ts[g]) = m.day
      BY <3>1
    <3>3. g \in Events
      BY <1>1 DEF TypeOK, PartRecord
    <3>4. DayOf(Ts[e]) < DayOf(Ts[g]) /\ DayOf(Ts[g]) \in Nat /\ DayOf(Ts[e]) \in Nat
      BY <1>2, <2>1, <2>4, <3>2
    <3>5. ~(Ts[g] <= Ts[e])
      BY <2>1, <3>3, <3>4, DayOrder
    <3> QED
      BY <1>2, <2>1, <3>2, <3>5
  <2> QED
    BY <1>2, <2>1, <2>3, <2>4
<1>5. ASSUME NEW p \in ListedParts, NEW e \in p.events, NEW x \in Events, Handles(r, parts, x)
      PROVE  Ts[e] <= Ts[x] /\ (Ts[e] = Ts[x] => Ts[e] \in EndTimes)
  <2>1. r.cursor < Ts[x] /\ Ts[x] \in Nat
    <3>1. Rest(r) = {}
      BY DEF Rest
    <3>2. \A o \in parts : o.run # 0
      BY <1>1, PartRuns
    <3> QED
      BY <1>5, <3>1, <3>2, FeedType DEF Handles
  <2>2. m.latest <= Ts[x]
    BY <1>2, <2>1
  <2>3. Ts[e] <= m.latest /\ Ts[e] \in Nat
    BY <1>4
  <2>4. Ts[e] <= Ts[x] /\ (Ts[e] = Ts[x] => Ts[e] = m.latest)
    BY <1>2, <2>1, <2>2, <2>3
  <2> QED
    BY <1>3, <2>4
<1> QED
  BY <1>5 DEF Follows

Claims(r, P, W, T) == Unused(r) /\ Follows(r, P, W, T) /\ AtLastDay(r, P) /\ OwnFiles(r, P)

(* A record of no run that is not ingesting claims nothing.                *)
LEMMA FreshClaims ==
  ASSUME NEW r, NEW P, NEW W, NEW T, ~Active(r), r.run = 0, r.command = "catchup",
         r.step = "source" => \A p \in P : p.day <= r.day, \A p \in P : p.run # 0
  PROVE  Claims(r, P, W, T)
BY DEF Claims, Unused, Follows, AtLastDay, OwnFiles, Active

LEMMA PartClaims ==
  ASSUME TwiceCtx, Single', NEW j \in Jobs, UploadPart(j)
  PROVE  Claims(job'[j], parts', ListedParts', EndTimes')
<1> DEFINE r == job[j]
           a == job'[j]
<1>t. /\ TypeOK /\ FileInv /\ FeedInv /\ Tidy(r, Visible, parts) /\ r \in JobRecord
      /\ Follows(r, parts, ListedParts, EndTimes) /\ OwnFiles(r, parts)
      /\ AtLastDay(r, parts)
  BY DEF TwiceCtx, TwiceInv, FileInv, AllTidy, TypeOK
<1>s. JobStep(j) /\ ~UploadManifest(j)
  BY DEF JobStep, Progress, UploadPart, UploadManifest
<1>0. /\ r.step = "part" /\ a.step = "manifest" /\ SameHand(a, r)
      /\ a.run = RunOf(r) /\ Active(r) /\ Active(a) /\ InOrder(r, Visible)
      /\ RunOf(r) = r.run \/ (r.run = 0 /\ RunOf(r) = runs + 1)
  BY <1>t, PartEffect DEF Active, Tidy
<1>1. PICK d \in Days, x \in Least(r.batch) : \E e \in Greatest(OfDay(r, d)) :
           /\ d = DayOf(Ts[x]) /\ a.day = d /\ a.latest[d] = Ts[e]
           /\ parts' = parts \cup {PartOf(r, d)}
  BY <1>t, PartEffect
<1>2. PICK e \in Greatest(OfDay(r, d)) :
           /\ d = DayOf(Ts[x]) /\ a.day = d /\ a.latest[d] = Ts[e]
           /\ parts' = parts \cup {PartOf(r, d)}
  BY <1>1
<1> DEFINE new == PartOf(r, d)
<1>3. new.events = OfDay(r, d) /\ new.day = d /\ new.run = RunOf(r)
  BY DEF PartOf
<1> HIDE DEF new
<1>n. parts' = parts \cup {new}
  BY <1>2 DEF new
<1>4. /\ r.batch \subseteq Events /\ r.buffer \subseteq Events /\ d \in Nat
      /\ Rest(r) = r.buffer \cup r.batch /\ Rest(a) = r.buffer \cup (r.batch \ OfDay(r, d))
  BY <1>t, <1>0, <1>2, DaysType DEF JobRecord, Rest, SameHand, OfDay
<1>5. \A p \in parts : p.run = a.run => p.run = r.run
  <2> SUFFICES ASSUME NEW p \in parts, p.run = a.run PROVE p.run = r.run
    OBVIOUS
  <2>1. p.run \in Nat /\ p.run <= runs /\ runs \in Nat
    BY <1>t, PartRuns
  <2> QED
    BY <1>0, <2>1
<1>6. \A y \in Events : Handles(a, parts', y) => Handles(r, parts, y)
  BY <1>0, <1>3, <1>4, <1>5, <1>n DEF Handles, SameHand, OfDay
<1>7. Follows(a, parts', ListedParts', EndTimes')
  <2>1. ListedParts' = ListedParts /\ EndTimes \subseteq EndTimes'
    BY <1>t, <1>s, ListedUnlessManifest, EndsStay
  <2>2. \A p \in ListedParts : p.run # a.run => p.run # r.run
    <3> SUFFICES ASSUME NEW p \in ListedParts, p.run # a.run PROVE p.run # r.run
      OBVIOUS
    <3>1. p.run # 0
      BY <1>t, PartRuns DEF ListedParts
    <3> QED
      BY <1>0, <3>1
  <2>3. \A p \in ListedParts' : p.run # a.run => p \in ListedParts /\ p.run # r.run
    BY <2>1, <2>2
  <2> QED
    BY <1>t, <1>0, <1>6, <2>1, <2>3, FollowsOn
<1>8. AtLastDay(a, parts')
  <2> SUFFICES ASSUME r.command = "backfill" PROVE \A p \in parts' : p.day <= a.day
    BY <1>0 DEF AtLastDay, SameHand
  <2>1. x \in Pending(r) /\ d = r.day
    BY <1>0, <1>2 DEF Least, Pending, InOrder
  <2>2. d <= d
    BY <1>4
  <2> QED
    BY <1>t, <1>0, <1>2, <1>3, <1>n, <2>1, <2>2 DEF AtLastDay
<1>9. OwnFiles(a, parts')
  <2>1. ASSUME NEW p \in parts, p.run = a.run, NEW o \in p.events
        PROVE  /\ o \in Events /\ Ts[o] <= r.cursor /\ \A y \in Rest(r) : o < y
               /\ o \notin OfDay(r, d) /\ Ts[o] <= Ts[e]
    <3>1. o \in Events /\ o \in Nat /\ Ts[o] <= r.cursor /\ \A y \in Rest(r) : o < y
      BY <1>t, <1>5, <2>1, EventsFinite DEF OwnFiles, TypeOK, PartRecord
    <3>2. o \notin OfDay(r, d)
      <4> SUFFICES ASSUME o \in OfDay(r, d) PROVE FALSE
        OBVIOUS
      <4>1. o < o
        BY <1>4, <3>1 DEF OfDay
      <4> QED
        BY <3>1, <4>1
    <3>3. e \in Events /\ o < e
      BY <1>4, <3>1 DEF Greatest, OfDay
    <3>4. Ts[o] <= Ts[e]
      BY <3>1, <3>3, DayOrder
    <3> QED
      BY <3>1, <3>2, <3>4
  <2>2. ASSUME NEW o \in OfDay(r, d)
        PROVE  /\ Ts[o] <= r.cursor /\ \A y \in Rest(a) : o < y
               /\ Ts[o] <= Ts[e]
    <3>1. o \in r.batch /\ o \in Events /\ DayOf(Ts[o]) = d /\ Ts[o] <= r.cursor
      BY <1>0, <1>4 DEF OfDay, InOrder, Pending
    <3>2. ASSUME NEW y \in r.batch, y \notin OfDay(r, d) PROVE o < y
      <4>1. y \in Events /\ x \in Events /\ x <= y /\ DayOf(Ts[y]) # d
        BY <1>4, <3>2 DEF OfDay, Least
      <4>2. d <= DayOf(Ts[y])
        BY <1>2, <4>1, DayOrder
      <4>3. DayOf(Ts[y]) \in Nat /\ y \in Nat /\ o \in Nat
        BY <3>1, <4>1, DayOrder
      <4>4. ~(DayOf(Ts[y]) <= DayOf(Ts[o]))
        BY <1>4, <3>1, <4>1, <4>2, <4>3
      <4>5. ~(y <= o)
        BY <3>1, <4>1, <4>4, DayOrder
      <4> QED
        BY <4>3, <4>5
    <3>3. \A y \in r.buffer : o < y
      BY <1>0, <3>1 DEF InOrder
    <3>4. e \in Events /\ o <= e
      BY <1>4 DEF Greatest, OfDay
    <3>5. Ts[o] <= Ts[e]
      BY <3>1, <3>4, DayOrder
    <3> QED
      BY <1>4, <3>1, <3>2, <3>3, <3>5
  <2>3. ASSUME NEW p \in parts', p.run = a.run
        PROVE  \A o \in p.events : Ts[o] <= a.cursor /\ \A y \in Rest(a) : o < y
    <3>1. Rest(a) \subseteq Rest(r) /\ a.cursor = r.cursor
      BY <1>0, <1>4 DEF SameHand
    <3>2. CASE p \in parts
      BY <2>1, <2>3, <3>1, <3>2
    <3>3. CASE p = new
      BY <1>3, <2>2, <3>1, <3>3
    <3> QED
      BY <1>n, <3>2, <3>3
  <2>4. ASSUME NEW p \in parts', NEW q \in parts', p.run = a.run, q.run = a.run, p # q
        PROVE  p.events \cap q.events = {}
    <3>1. CASE p \in parts /\ q \in parts
      BY <1>t, <1>5, <2>4, <3>1 DEF OwnFiles
    <3>2. CASE p \in parts /\ q = new
      BY <1>3, <2>1, <2>4, <3>2
    <3>3. CASE p = new /\ q \in parts
      BY <1>3, <2>1, <2>4, <3>3
    <3> QED
      BY <1>n, <2>4, <3>1, <3>2, <3>3
  <2>5. ASSUME NEW p \in parts', p.run = a.run, NEW o \in p.events
        PROVE  Ts[o] <= a.latest[a.day]
    <3>1. CASE p \in parts
      BY <1>2, <2>1, <2>5, <3>1
    <3>2. CASE p = new
      BY <1>2, <1>3, <2>2, <2>5, <3>2
    <3> QED
      BY <1>n, <3>1, <3>2
  <2> QED
    BY <2>3, <2>4, <2>5 DEF OwnFiles
<1>10. Unused(a)
  BY <1>0 DEF Unused
<1> QED
  BY <1>7, <1>8, <1>9, <1>10 DEF Claims

LEMMA ManifestClaims ==
  ASSUME TwiceCtx, Single', NEW j \in Jobs, UploadManifest(j)
  PROVE  Claims(job'[j], parts', ListedParts', EndTimes')
<1> DEFINE r == job[j]
           X == ListedParts'
           S == EndTimes'
<1>t. /\ TypeOK /\ FileInv /\ FeedInv
      /\ Follows(r, parts, ListedParts, EndTimes) /\ OwnFiles(r, parts)
      /\ AtLastDay(r, parts)
  BY DEF TwiceCtx, TwiceInv, FileInv
<1>s. JobStep(j)
  BY DEF JobStep, Progress
<1>1. PICK q \in JobRecord :
           /\ SameRun(q, r) /\ q.cursor = r.cursor /\ q.buffer = r.buffer
           /\ q.batch = r.batch \ OfDay(r, r.day)
           /\ \/ q.batch # {} /\ q.step = "part" /\ job'[j] = q
              \/ q.batch = {} /\ job'[j] = Advance(j, q)
  BY <1>t, ManifestEffect
<1>2. r.step = "manifest" /\ Active(r) /\ parts' = parts /\ EndTimes \subseteq S
  BY <1>t, <1>s, ManifestEffect, EndsStay DEF Active
<1>3. X \subseteq parts /\ \A p \in X : p.run # r.run => p \in ListedParts
  BY <1>t, ListedByManifest
<1> HIDE DEF X, S
<1>4. Rest(r) = q.buffer \cup q.batch
  BY <1>1, <1>2 DEF Rest
<1>5. CASE q.batch # {} /\ q.step = "part" /\ job'[j] = q
  <2>1. Rest(q) = Rest(r) /\ Active(q) /\ q.step # "manifest" /\ q.step # "source"
    BY <1>4, <1>5 DEF Rest, Active
  <2>2. \A x \in Events : Handles(q, parts, x) => Handles(r, parts, x)
    BY <1>1, <2>1 DEF Handles, SameRun
  <2>3. \A p \in X : p.run # q.run => p \in ListedParts /\ p.run # r.run
    BY <1>1, <1>3 DEF SameRun
  <2>4. Follows(q, parts, X, S)
    BY <1>t, <1>2, <2>2, <2>3, FollowsOn
  <2>5. OwnFiles(q, parts)
    BY <1>t, <1>1, <2>1 DEF OwnFiles, SameRun
  <2>6. Unused(q) /\ AtLastDay(q, parts)
    BY <1>t, <1>1, <1>2, <2>1 DEF Unused, AtLastDay, SameRun
  <2> QED
    BY <1>2, <1>5, <2>4, <2>5, <2>6 DEF Claims, X, S
<1>6. CASE q.batch = {} /\ job'[j] = Advance(j, q)
  <2>1. q.command = r.command /\ q.day = r.day /\ q.last = r.last /\ q.run = r.run
    BY <1>1 DEF SameRun
  <2>2. parts \subseteq PartRecord /\ \A p \in parts : \A e \in p.events : DayOf(Ts[e]) = p.day
    BY <1>t DEF TypeOK, FeedInv
  <2>3. q.command = "backfill" => \A p \in parts : p.day <= q.day
    BY <1>t, <1>2, <2>1 DEF AtLastDay
  <2>4. ASSUME NEW p \in X, p.run # q.run, NEW e \in p.events, NEW x \in Events,
               q.cursor < Ts[x] \/ x \in q.buffer
                 \/ (\E o \in parts : o.run = q.run /\ x \in o.events)
        PROVE  Ts[e] <= Ts[x] /\ (Ts[e] = Ts[x] => Ts[e] \in S)
    <3>1. Handles(r, parts, x)
      BY <1>1, <1>4, <2>1, <2>4 DEF Handles
    <3>2. p \in ListedParts /\ p.run # r.run
      BY <1>3, <2>1, <2>4
    <3> QED
      BY <1>t, <1>2, <2>4, <3>1, <3>2 DEF Follows
  <2>5. /\ \A p \in parts : p.run = q.run =>
              \A o \in p.events : Ts[o] <= q.cursor /\ \A x \in q.buffer : o < x
        /\ \A p, o \in parts : p.run = q.run /\ o.run = q.run /\ p # o =>
              p.events \cap o.events = {}
    BY <1>t, <1>1, <1>4, <2>1 DEF OwnFiles
  <2>6. LET a == Advance(j, q)
        IN  Unused(a) /\ Follows(a, parts, X, S) /\ AtLastDay(a, parts) /\ OwnFiles(a, parts)
    BY <1>t, <1>3, <1>6, <2>1, <2>2, <2>3, <2>4, <2>5, AdvanceClaims
  <2> QED
    BY <1>2, <1>6, <2>6 DEF Claims, X, S
<1> QED
  BY <1>1, <1>5, <1>6

(* A job's claims after a step that writes nothing.                        *)
LEMMA QuietClaims ==
  ASSUME TwiceCtx, Single', NEW j \in Jobs, JobStep(j), ~UploadPart(j), ~UploadManifest(j)
  PROVE  Claims(job'[j], parts', ListedParts', EndTimes')
<1> DEFINE r == job[j]
           S == EndTimes'
<1>t. /\ TypeOK /\ FileInv /\ FeedInv /\ AllTidy /\ Unused(r)
      /\ Follows(r, parts, ListedParts, EndTimes) /\ OwnFiles(r, parts)
      /\ AtLastDay(r, parts)
  BY DEF TwiceCtx, TwiceInv, FileInv
<1>0. /\ parts' = parts /\ ListedParts' = ListedParts /\ EndTimes \subseteq S
  BY <1>t, ListedUnlessManifest, JobStepQuiet, EndsStay
<1>1. \A p \in parts : p.run # 0
  BY <1>t, PartRuns
<1>2. /\ parts \subseteq PartRecord /\ ListedParts \subseteq parts
      /\ \A p \in parts : \A e \in p.events : DayOf(Ts[e]) = p.day
  BY <1>t DEF TypeOK, FeedInv, ListedParts
<1> HIDE DEF S
<1>a. SUFFICES Claims(job'[j], parts, ListedParts, S)
  BY <1>0 DEF S
<1>3. Claims(IdleJob, parts, ListedParts, S)
  BY <1>1, IdleJobFields, FreshClaims DEF Active
<1>4. CASE StartCatchup(j)
  <2>1. /\ job'[j].step = "resume" /\ job'[j].run = r.run /\ r.step = "idle"
        /\ job'[j].command = r.command
    BY <1>t, <1>4, StartCatchupEffect DEF StartCatchup, TypeOK, JobRecord
  <2> QED
    BY <1>t, <1>1, <2>1, FreshClaims DEF Unused, Active
<1>5. ASSUME NEW from \in Days, NEW last \in Days, StartBackfill(j, from, last)
      PROVE  Claims(job'[j], parts, ListedParts, S)
  <2>1. parts = {} /\ job'[j] = DayRun(from, last)
    BY <1>t, <1>5, StartBackfillEffect DEF Single, Without
  <2>2. ListedParts = {}
    BY <1>2, <2>1
  <2>3. DayRun(from, last).step = "page"
    BY DEF DayRun, IdleJob
  <2>4. Unused(job'[j])
    BY <2>1, <2>3 DEF Unused, Active
  <2>5. Follows(job'[j], parts, ListedParts, S)
    BY <2>2 DEF Follows
  <2>6. AtLastDay(job'[j], parts) /\ OwnFiles(job'[j], parts)
    BY <2>1 DEF AtLastDay, OwnFiles
  <2> QED
    BY <2>4, <2>5, <2>6 DEF Claims
<1>6. CASE FindPartition(j)
  <2>1. /\ job'[j].step = "source" /\ job'[j].run = r.run /\ r.step = "resume"
        /\ job'[j].day \in LatestPartition
    BY <1>t, <1>6, FindPartitionEffect
  <2>2. job'[j].command = r.command
    <3>1. PICK d \in LatestPartition :
            job' = [job EXCEPT ![j].step = "source", ![j].day = d]
      BY <1>6 DEF FindPartition
    <3> QED
      BY <1>t, <3>1 DEF TypeOK, JobRecord
  <2>3. \A p \in parts : p.day <= job'[j].day
    BY <2>1 DEF LatestPartition, Greatest, Partitions
  <2> QED
    BY <1>t, <1>1, <2>1, <2>2, <2>3, FreshClaims DEF Unused, Active
<1>7. CASE FindSource(j)
  <2>1. CASE job'[j] = IdleJob
    BY <1>3, <2>1
  <2>2. CASE job'[j] # IdleJob
    <3>1. PICK m \in Newest({n \in manifests : n.day = r.day}) :
                 /\ m \in manifests /\ m.day = r.day
                 /\ job'[j].step = "page" /\ job'[j].command = "catchup"
                 /\ job'[j].cursor = m.latest - 1 /\ job'[j].finished = FALSE
                 /\ job'[j].buffer = {} /\ job'[j].batch = {} /\ job'[j].run = 0
      BY <1>t, <1>7, <2>2, FindSourceEffect
    <3>2. \A n \in manifests : n.day = r.day => n.at <= m.at
      BY DEF Newest
    <3>3. r.step = "source"
      BY <1>t, <1>7, FindSourceEffect
    <3>4. \A p \in parts : p.day <= r.day
      BY <1>t, <3>3 DEF AtLastDay
    <3>5. ASSUME NEW k \in Jobs PROVE job[k].run = 0
      <4>1. ~Active(job[k])
        <5>1. CASE k = j
          BY <3>3, <5>1 DEF Active
        <5>2. CASE k # j
          BY <5>2, OthersIdle DEF Active
        <5> QED
          BY <5>1, <5>2
      <4> QED
        BY <4>1 DEF TwiceCtx, TwiceInv, Unused
    <3>6. Follows(job'[j], parts, ListedParts, EndTimes)
      BY <3>1, <3>2, <3>4, <3>5, CatchupFollows
    <3>7. Follows(job'[j], parts, ListedParts, S)
      BY <1>0, <3>6 DEF Follows
    <3>8. AtLastDay(job'[j], parts) /\ Unused(job'[j])
      BY <3>1 DEF AtLastDay, Unused, Active
    <3>9. OwnFiles(job'[j], parts)
      BY <1>1, <3>1 DEF OwnFiles
    <3> QED
      BY <3>7, <3>8, <3>9 DEF Claims
  <2> QED
    BY <2>1, <2>2
<1>8. CASE FetchPage(j)
  <2>1. PICK q \in JobRecord : Fetched(q, r) /\ job'[j] = Advance(j, q)
    BY <1>t, <1>8, FetchEffect
  <2>2. r.step = "page" /\ Active(r)
    BY <1>t, <1>8, FetchEffect DEF Active
  <2>3. /\ \A x \in Events : q.cursor < Ts[x] \/ x \in q.buffer
                \/ (\E p \in parts : p.run = q.run /\ x \in p.events) => Handles(r, parts, x)
        /\ \A p \in parts : p.run = q.run =>
              \A o \in p.events : Ts[o] <= q.cursor /\ \A x \in q.buffer : o < x
        /\ q.run = r.run /\ q.command = r.command /\ q.day = r.day
        /\ q.last = r.last /\ q.batch = {}
    BY <1>t, <2>1, <2>2, FetchClaims
  <2>4. q.command = "backfill" => \A p \in parts : p.day <= q.day
    BY <1>t, <2>2, <2>3 DEF AtLastDay
  <2>5. ASSUME NEW p \in ListedParts, p.run # q.run, NEW e \in p.events, NEW x \in Events,
               q.cursor < Ts[x] \/ x \in q.buffer
                 \/ (\E o \in parts : o.run = q.run /\ x \in o.events)
        PROVE  Ts[e] <= Ts[x] /\ (Ts[e] = Ts[x] => Ts[e] \in S)
    <3>1. Handles(r, parts, x)
      BY <2>3, <2>5
    <3>2. p.run # r.run
      BY <2>3, <2>5
    <3> QED
      BY <1>t, <1>0, <2>2, <2>5, <3>1, <3>2 DEF Follows
  <2>6. \A p, o \in parts : p.run = q.run /\ o.run = q.run /\ p # o =>
              p.events \cap o.events = {}
    BY <1>t, <2>3 DEF OwnFiles
  <2>7. LET a == Advance(j, q)
        IN  Unused(a) /\ Follows(a, parts, ListedParts, S) /\ AtLastDay(a, parts)
            /\ OwnFiles(a, parts)
    BY <1>t, <1>2, <2>3, <2>4, <2>5, <2>6, AdvanceClaims
  <2> QED
    BY <2>1, <2>7 DEF Claims
<1>9. CASE Fail(j)
  <2>1. job'[j] = AfterDay(j) /\ r.step # "idle"
    BY <1>t, <1>9, FailEffect
  <2>2. r.command = "backfill" => \A p \in parts : p.day <= r.day
    BY <1>t DEF AtLastDay, Unused
  <2>3. LET a == AfterDay(j)
        IN  Unused(a) /\ Follows(a, parts, ListedParts, S) /\ AtLastDay(a, parts)
            /\ OwnFiles(a, parts)
    BY <1>t, <1>2, <2>2, AfterDayClaims
  <2> QED
    BY <2>1, <2>3 DEF Claims
<1>10. CASE Crash(j)
  BY <1>t, <1>3, <1>10, CrashEffect
<1> QED
  BY <1>4, <1>5, <1>6, <1>7, <1>8, <1>9, <1>10 DEF JobStep, Progress

LEMMA JobStepTwice ==
  ASSUME TwiceCtx, Single', NEW j \in Jobs, JobStep(j)
  PROVE  TwiceInv'
<1>1. OneJob'
  BY StillOneJob
<1>2. Claims(job'[j], parts', ListedParts', EndTimes')
  BY PartClaims, ManifestClaims, QuietClaims
<1>3. ASSUME NEW i \in Jobs PROVE Claims(job'[i], parts', ListedParts', EndTimes')
  <2>1. CASE i = j
    BY <1>2, <2>1
  <2>2. CASE i # j
    <3>1. job[i].step = "idle" /\ job'[i] = job[i] /\ Unused(job[i])
      BY <2>2, OthersIdle DEF TwiceCtx, TwiceInv
    <3>2. \A p \in parts' : p.run # 0
      <4>1. FileInv'
        BY FileStep DEF TwiceCtx, Next
      <4> QED
        BY <4>1 DEF FileInv, TypeOK, PartRecord
    <3>3. Unused(job'[i]) /\ job'[i].step = "idle"
      BY <3>1
    <3> QED
      BY <3>2, <3>3, IdleClaims DEF Claims
  <2> QED
    BY <2>1, <2>2
<1>4. ManifestsGrow(manifests', parts', uploads')
  BY StillGrow, GrowUnlessManifest
<1>5. \A p, q \in ListedParts' : p # q => \A e \in p.events \cap q.events : Ts[e] \in EndTimes'
  BY StillTwice
<1> QED
  BY <1>1, <1>3, <1>4, <1>5 DEF TwiceInv, Claims

LEMMA QuietTwice ==
  ASSUME TwiceInv, Single, UNCHANGED <<parts, manifests, job, uploads>>
  PROVE  TwiceInv'
<1>1. ListedParts' = ListedParts
  BY AsideStays DEF ListedParts
<1>2. EndTimes' = EndTimes
  BY DEF EndTimes
<1>3. OneJob'
  BY DEF TwiceInv, OneJob
<1> QED
  BY <1>1, <1>2, <1>3 DEF TwiceInv

LEMMA StepTwice ==
  ASSUME FileInv, FeedInv, AllTidy, TwiceInv, [Next]_vars
  PROVE  TwiceInv'
<1> SUFFICES ASSUME Single' PROVE TwiceInv'
  BY DEF TwiceInv
<1>1. Single
  BY EventsStay DEF FileInv, Single, Without
<1>2. CASE Index
  <2>1. UNCHANGED <<parts, manifests, job, uploads>>
    BY <1>2 DEF Index
  <2> QED
    BY <1>1, <2>1, QuietTwice
<1>3. CASE UNCHANGED vars
  BY <1>1, <1>3, QuietTwice DEF vars
<1> QED
  BY <1>1, <1>2, <1>3, JobStepTwice DEF Next, TwiceCtx

LEMMA InitTwice == Init => TwiceInv
<1> SUFFICES ASSUME Init PROVE TwiceInv
  OBVIOUS
<1>1. /\ \A j \in Jobs : job[j] = IdleJob
      /\ parts = {} /\ manifests = {}
  BY DEF Init
<1>2. ListedParts = {}
  BY <1>1 DEF ListedParts
<1>3. ASSUME NEW j \in Jobs
      PROVE  Claims(job[j], parts, ListedParts, EndTimes) /\ job[j].step = "idle"
  BY <1>1, IdleJobFields, FreshClaims DEF Active
<1>4. OneJob
  BY <1>3 DEF OneJob
<1>5. ManifestsGrow(manifests, parts, uploads)
  BY <1>1 DEF ManifestsGrow
<1> QED
  BY <1>2, <1>3, <1>4, <1>5 DEF TwiceInv, Claims

THEOREM TwiceInvariant == Spec => []TwiceInv
<1>1. Init => TwiceInv
  BY InitTwice
<1>2. NoHolesInv /\ TwiceInv /\ [Next]_vars => TwiceInv'
  BY StepTwice DEF NoHolesInv
<1> QED
  BY <1>1, <1>2, SweepInvariant, PTL DEF Spec

LEMMA TwiceListed == TypeOK /\ TwiceInv => TwiceOnlyAtCursor
<1> SUFFICES ASSUME TypeOK, TwiceInv, Single, NEW e \in Events, Cardinality(Copies(e)) > 1
             PROVE  \E m \in manifests : m.latest = Ts[e]
  BY DEF TwiceOnlyAtCursor, Single
<1>1. Copies(e) # {}
  BY FS_EmptySet
<1>2. PICK p : p \in Copies(e)
  BY <1>1
<1>3. Copies(e) # {p}
  <2>1. Cardinality({p}) = 1
    BY FS_Singleton
  <2> SUFFICES ASSUME Copies(e) = {p} PROVE FALSE
    OBVIOUS
  <2>2. Cardinality(Copies(e)) = 1
    BY ONLY <2>1, Copies(e) = {p}
  <2> QED
    BY <2>2
<1>4. PICK q : q \in Copies(e) /\ q # p
  BY <1>2, <1>3
<1>5. p \in ListedParts /\ q \in ListedParts /\ e \in p.events \cap q.events
  BY <1>2, <1>4 DEF Copies, ListedParts, ListedPart
<1>6. Ts[e] \in EndTimes
  BY <1>4, <1>5 DEF TwiceInv
<1> QED
  BY <1>6 DEF EndTimes

(* An event listed by two files bears the timestamp at which some manifest *)
(* ends, which is where a catch-up asks again: crashes, failed queries and *)
(* late events alone never store anything else twice.                      *)
THEOREM TwiceOnlyWhereCatchupResumes == Spec => []TwiceOnlyAtCursor
<1> QED
  BY TypeCorrect, TwiceInvariant, TwiceListed, PTL
=============================================================================
