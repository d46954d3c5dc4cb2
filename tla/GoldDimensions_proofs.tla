------------------------ MODULE GoldDimensions_proofs ------------------------
(***************************************************************************)
(* Theorems about a Silver table and the dimensions made from it, for      *)
(* every set of jobs, every part file and every record: no row is in two   *)
(* files, the current snapshot stays readable, no version is lost, and a   *)
(* dimension shows and counts what the last load has read.                 *)
(*                                                                         *)
(* The steps of SilverTables are few kinds of moves: the upload of a       *)
(* snapshot's files, its commit, the deletion of an orphan, the clock, and *)
(* steps that change nothing but a job without files to commit.            *)
(***************************************************************************)
EXTENDS GoldDimensions, TLAPS, FiniteSetTheorems, WellFoundedInduction

(* ------------------------------- records ------------------------------- *)

(* What the proofs need to know of a record.                               *)
LEMMA RecordFacts ==
  ASSUME NEW r \in Numbers
  PROVE  Bronze[r].id \in Nat /\ Bronze[r].time \in Nat
<1>1. Bronze \in [DOMAIN Bronze -> Record]
  BY SilverTablesAssumption
<1>2. Bronze[r] \in Record
  BY <1>1 DEF Numbers
<1> QED
  BY <1>2 DEF Record

(* Rows written so far, or by the next w-th write.                         *)
RowsUpTo(w) == Numbers \X (0..w)

LEMMA RowFacts ==
  ASSUME NEW w \in Nat, NEW row \in RowsUpTo(w)
  PROVE  Time(row) \in Nat /\ row[2] \in Nat /\ row[2] <= w /\ row[1] \in Numbers
<1>1. row[1] \in Numbers /\ row[2] \in 0..w
  BY DEF RowsUpTo
<1> QED
  BY <1>1, RecordFacts DEF Time

LEMMA RowsAreFinite ==
  ASSUME NEW w \in Nat, NEW rows \in SUBSET RowsUpTo(w)
  PROVE  IsFiniteSet(rows)
<1>1. IsFiniteSet(Numbers)
  BY SilverTablesAssumption DEF Numbers
<1>2. IsFiniteSet(0..w)
  BY FS_Interval
<1>3. IsFiniteSet(Numbers \X (0..w))
  BY <1>1, <1>2, FS_Product
<1> QED
  BY <1>3, FS_Subset DEF RowsUpTo

(* A row of the same id that is as late.                                   *)
AsLate(new, row) == SameId(new, row) /\ Time(new) >= Time(row)

LEMMA AsLateTransitive ==
  ASSUME NEW w \in Nat, NEW p \in RowsUpTo(w), NEW q \in RowsUpTo(w), NEW r \in RowsUpTo(w),
         AsLate(p, q), AsLate(q, r)
  PROVE  AsLate(p, r)
<1>1. Time(p) \in Nat /\ Time(q) \in Nat /\ Time(r) \in Nat
  BY RowFacts
<1> QED
  BY <1>1 DEF AsLate, SameId

(* Of two rows of an id the one that Latest prefers.                       *)
Better(new, row) ==
  SameId(new, row) /\ (Time(new) > Time(row) \/ (Time(new) = Time(row) /\ new[2] < row[2]))

(* Every row has one that is as late among the latest ones: there are      *)
(* finitely many rows, so that better ones come to an end.                 *)
LEMMA LatestCovers ==
  ASSUME NEW w \in Nat, NEW rows \in SUBSET RowsUpTo(w), NEW row \in rows
  PROVE  \E last \in Latest(rows) : AsLate(last, row)
<1> DEFINE Above(r) == {o \in rows : Better(o, r)}
           T == {Above(r) : r \in {o \in rows : AsLate(o, row)}}
<1>1. \A r \in rows : Time(r) \in Nat /\ r[2] \in Nat
  BY RowFacts
<1>2. row \in {o \in rows : AsLate(o, row)}
  BY <1>1 DEF AsLate, SameId
<1>3. T \subseteq FiniteSubsetsOf(rows) /\ T # {}
  <2>1. \A r \in rows : Above(r) \in SUBSET rows /\ IsFiniteSet(Above(r))
    BY RowsAreFinite, FS_Subset
  <2> QED
    BY <1>2, <2>1 DEF FiniteSubsetsOf
<1>4. PICK x \in T : \A y \in T : ~ (<<y, x>> \in StrictSubsetOrdering(rows))
  <2> HIDE DEF T
  <2> QED
    BY <1>3, FS_StrictSubsetOrderingWellFounded, WFMin
<1>5. PICK last \in rows : x = Above(last) /\ AsLate(last, row)
  BY <1>4
<1>6. ASSUME NEW o \in rows, Better(o, last) PROVE FALSE
  <2>1. Time(o) \in Nat /\ Time(last) \in Nat /\ Time(row) \in Nat /\ o[2] \in Nat /\ last[2] \in Nat
    BY <1>1
  <2>2. AsLate(o, row)
    BY <1>5, <1>6, <2>1 DEF AsLate, Better, SameId
  <2>3. Above(o) \subseteq Above(last)
    <3> SUFFICES ASSUME NEW k \in rows, Better(k, o) PROVE Better(k, last)
      OBVIOUS
    <3>1. Time(k) \in Nat /\ k[2] \in Nat
      BY <1>1
    <3> QED
      BY <1>6, <2>1, <3>1 DEF Better, SameId
  <2>4. ~Better(o, o)
    BY <2>1 DEF Better
  <2>5. o \in Above(last) /\ o \notin Above(o)
    BY <1>6, <2>4
  <2>6. <<Above(o), Above(last)>> \in StrictSubsetOrdering(rows)
    BY <2>3, <2>5 DEF StrictSubsetOrdering
  <2>7. Above(o) \in T
    BY <2>2
  <2> QED
    BY <1>4, <1>5, <2>6, <2>7
<1>7. last \in Latest(rows)
  <2> SUFFICES ASSUME NEW o \in rows, SameId(last, o)
               PROVE  Time(last) > Time(o) \/ (Time(last) = Time(o) /\ last[2] <= o[2])
    BY DEF Latest
  <2>1. Time(o) \in Nat /\ Time(last) \in Nat /\ o[2] \in Nat /\ last[2] \in Nat
    BY <1>1
  <2>2. SameId(o, last)
    BY DEF SameId
  <2> QED
    BY <1>6, <2>1, <2>2 DEF Better
<1> QED
  BY <1>5, <1>7

(* The index of the first element of a sequence that has a property.       *)
LEMMA LeastExists ==
  ASSUME NEW S \in SUBSET Nat, S # {}
  PROVE  \E x \in S : \A y \in S : x <= y
<1>1. PICK x \in S : \A y \in S : <<y, x>> \notin OpToRel(<, Nat)
  BY NatLessThanWellFounded, WFMin
<1>2. ASSUME NEW y \in S, y < x PROVE FALSE
  BY <1>1, <1>2 DEF OpToRel
<1> QED
  BY <1>2

(* ------------------------------ part files ----------------------------- *)

LEMMA PartFileFacts ==
  ASSUME table \in Tables, NEW i \in DOMAIN PartFiles[table]
  PROVE  /\ i \in Nat \ {0}
         /\ \E len \in Nat : DOMAIN PartFiles[table][i].records = 1..len
         /\ \A n \in DOMAIN PartFiles[table][i].records :
               PartFiles[table][i].records[n] \in Numbers
<1>1. PICK S : S = [dt : Nat, records : Seq(DOMAIN Bronze)]
  OBVIOUS
<1>2. PartFiles[table] \in Seq(S)
  BY <1>1, SilverTablesAssumption
<1>3. PartFiles[table][i] \in S /\ i \in Nat \ {0}
  BY <1>2
<1>4. PICK R : R = PartFiles[table][i].records
  OBVIOUS
<1>5. R \in Seq(Numbers)
  BY <1>1, <1>3, <1>4 DEF Numbers
<1>6. DOMAIN R = 1..Len(R) /\ Len(R) \in Nat /\ \A n \in DOMAIN R : R[n] \in Numbers
  BY <1>5
<1> QED
  BY <1>3, <1>4, <1>6

LEMMA NormalizedFacts ==
  ASSUME table \in Tables, NEW i \in DOMAIN PartFiles[table]
  PROVE  Normalized(i) \subseteq Numbers
BY PartFileFacts DEF Normalized, NormalizeBatch, DedupBatch

(* Of every record of a part file that normalizes a copy that is as late   *)
(* survives dedup_batch, but for those that Shadowed names.                *)
LEMMA BatchCovers ==
  ASSUME table \in Tables, NEW i \in DOMAIN PartFiles[table],
         NEW n \in DOMAIN PartFiles[table][i].records,
         Normalizes(PartFiles[table][i].records[n]), ~Shadowed(i, n)
  PROVE  \E r \in Normalized(i) :
           /\ Bronze[r].id = Bronze[PartFiles[table][i].records[n]].id
           /\ Bronze[r].time >= Bronze[PartFiles[table][i].records[n]].time
<1>1. PICK records : records = PartFiles[table][i].records
  OBVIOUS
<1>2. PICK len \in Nat : DOMAIN records = 1..len
  BY <1>1, PartFileFacts
<1>3. n \in 1..len /\ \A k \in 1..len : records[k] \in Numbers
  BY <1>1, <1>2, PartFileFacts
<1> DEFINE same == {k \in 1..len : DedupKey(records[k]) = DedupKey(records[n])}
<1>4. PICK m \in same : \A k \in same : m <= k
  <2>1. same \in SUBSET Nat /\ same # {}
    BY <1>3
  <2> HIDE DEF same
  <2> QED
    BY <2>1, LeastExists
<1>5. m \in 1..len /\ m \in Nat /\ n \in Nat /\ m <= n
  BY <1>3, <1>4
<1>6. records[m] \in DedupBatch(records)
  <2>1. \A k \in 1..(m - 1) : DedupKey(records[k]) # DedupKey(records[m])
    <3> SUFFICES ASSUME NEW k \in 1..(m - 1), DedupKey(records[k]) = DedupKey(records[m])
                 PROVE  FALSE
      OBVIOUS
    <3>1. k \in 1..len /\ k < m
      BY <1>5
    <3>2. k \in same
      BY <1>4, <3>1
    <3> QED
      BY <1>4, <1>5, <3>1, <3>2
  <2> QED
    BY <1>2, <1>5, <2>1 DEF DedupBatch
<1>7. CASE m = n
  <2>1. records[n] \in Normalized(i)
    BY <1>1, <1>6, <1>7 DEF Normalized, NormalizeBatch
  <2>2. Bronze[records[n]].time \in Nat
    BY <1>3, RecordFacts
  <2> QED
    BY <1>1, <2>1, <2>2
<1>8. CASE m # n
  <2>1. m \in 1..(n - 1)
    BY <1>5, <1>8
  <2>2. PICK q, r : q = records[m] /\ r = records[n]
    OBVIOUS
  <2>3. DedupKey(q) = DedupKey(r)
    BY <1>4, <2>2
  <2>4. Bronze[q].time \in Nat /\ Bronze[r].time \in Nat
    BY <1>3, <1>5, <2>2, RecordFacts
  <2>5. ~(table = "polymarket_trades" /\ Bronze[q].fill = Bronze[r].fill)
    BY <1>1, <2>1, <2>2 DEF Shadowed
  <2>6. ~(/\ table # "polymarket_trades"
          /\ Bronze[q].id = Bronze[r].id
          /\ (Catalog => Bronze[q].time = Bronze[r].time)
          /\ (~Normalizes(q) \/ Bronze[q].time < Bronze[r].time))
    BY <1>1, <2>1, <2>2 DEF Shadowed
  <2>7. table # "polymarket_trades"
    BY <2>3, <2>5 DEF DedupKey, Catalog, Catalogs
  <2>8. Bronze[q].id = Bronze[r].id /\ (Catalog => Bronze[q].time = Bronze[r].time)
    <3>1. CASE Catalog
      <4>1. <<Bronze[q].id, Bronze[q].time>> = <<Bronze[r].id, Bronze[r].time>>
        BY <2>3, <3>1 DEF DedupKey, Catalog, Catalogs
      <4> QED
        BY <4>1
    <3>2. CASE ~Catalog
      <4>1. table = "kalshi_trades"
        BY <2>7, <3>2, SilverTablesAssumption DEF Catalog, SilverTableNames
      <4>2. <<Bronze[q].id>> = <<Bronze[r].id>>
        BY <2>3, <4>1 DEF DedupKey, Catalog, Catalogs
      <4> QED
        BY <3>2, <4>2
    <3> QED
      BY <3>1, <3>2
  <2>9. Normalizes(q) /\ Bronze[q].time >= Bronze[r].time
    BY <2>4, <2>6, <2>7, <2>8
  <2>10. q \in Normalized(i)
    BY <1>1, <1>6, <2>2, <2>9 DEF Normalized, NormalizeBatch
  <2> QED
    BY <1>1, <2>2, <2>8, <2>9, <2>10
<1> QED
  BY <1>7, <1>8

(* ------------------------------ data files ----------------------------- *)

OneDay(rows) == \A p, q \in rows : DayOf(p[1]) = DayOf(q[1])

(* Data files of writes up to the w-th: each of one day partition.         *)
AreFiles(files, w) ==
  \A f \in files : f.born \in Nat /\ f.rows \subseteq RowsUpTo(w) /\ OneDay(f.rows)

(* No two files share a row.                                               *)
Separate(files) == \A f, g \in files : f = g \/ f.rows \cap g.rows = {}

(* None of the files has one of the rows.                                  *)
Apart(rows, files) == \A g \in files : g.rows \cap rows = {}

LEMMA MoreRows ==
  ASSUME NEW w \in Nat
  PROVE  RowsUpTo(w) \subseteq RowsUpTo(w + 1)
<1>1. 0..w \subseteq 0..(w + 1)
  OBVIOUS
<1> QED
  BY <1>1 DEF RowsUpTo

LEMMA FilesStayFiles ==
  ASSUME NEW w \in Nat, NEW files, AreFiles(files, w)
  PROVE  AreFiles(files, w + 1)
BY MoreRows DEF AreFiles

LEMMA DayOfFileIs ==
  ASSUME NEW f, OneDay(f.rows), NEW row \in f.rows
  PROVE  DayOfFile(f) = DayOf(row[1])
<1>1. \E d \in {DayOf(p[1]) : p \in f.rows} : TRUE
  OBVIOUS
<1>2. DayOfFile(f) \in {DayOf(p[1]) : p \in f.rows}
  BY <1>1 DEF DayOfFile
<1> QED
  BY <1>2 DEF OneDay

(* The new files hold the rows, each file those of one day.                *)
LEMMA FilesForRows ==
  ASSUME NEW rows
  PROVE  /\ RowsIn(FilesFor(rows)) = rows
         /\ Separate(FilesFor(rows))
         /\ \A f \in FilesFor(rows) : f.born = now /\ f.rows \subseteq rows /\ OneDay(f.rows)
<1> DEFINE Of(d) == {row \in rows : DayOf(row[1]) = d}
           days == {DayOf(row[1]) : row \in rows}
<1>1. FilesFor(rows) = {[n |-> writes + 1, born |-> now, rows |-> Of(d)] : d \in days}
  BY DEF FilesFor
<1>2. \A f \in FilesFor(rows) : \E d \in days : f = [n |-> writes + 1, born |-> now, rows |-> Of(d)]
  BY <1>1
<1>3. \A f \in FilesFor(rows) : f.born = now /\ f.rows \subseteq rows /\ OneDay(f.rows)
  BY <1>2 DEF OneDay
<1>4. Separate(FilesFor(rows))
  <2> SUFFICES ASSUME NEW f \in FilesFor(rows), NEW g \in FilesFor(rows),
                      NEW row \in f.rows, row \in g.rows
               PROVE  f = g
    BY DEF Separate
  <2>1. PICK d \in days : f = [n |-> writes + 1, born |-> now, rows |-> Of(d)]
    BY <1>2
  <2>2. PICK e \in days : g = [n |-> writes + 1, born |-> now, rows |-> Of(e)]
    BY <1>2
  <2>3. row \in Of(d) /\ row \in Of(e)
    BY <2>1, <2>2
  <2>4. d = e
    BY <2>3
  <2> QED
    BY <2>1, <2>2, <2>4
<1>5. RowsIn(FilesFor(rows)) = rows
  <2>1. ASSUME NEW row \in rows PROVE row \in RowsIn(FilesFor(rows))
    <3>1. PICK d \in days : d = DayOf(row[1])
      OBVIOUS
    <3>2. PICK f : f = [n |-> writes + 1, born |-> now, rows |-> Of(d)]
      OBVIOUS
    <3>3. f \in FilesFor(rows) /\ row \in f.rows
      BY <1>1, <3>1, <3>2
    <3> QED
      BY <3>3 DEF RowsIn
  <2>2. ASSUME NEW row \in RowsIn(FilesFor(rows)) PROVE row \in rows
    BY <1>3, <2>2 DEF RowsIn
  <2> QED
    BY <2>1, <2>2
<1> QED
  BY <1>3, <1>4, <1>5

LEMMA RowsOfFiles ==
  ASSUME NEW w, NEW files, AreFiles(files, w)
  PROVE  RowsIn(files) \subseteq RowsUpTo(w)
BY DEF RowsIn, AreFiles

(* --------------------------- what a step does -------------------------- *)

Quiet(kinds) == "overwrite" \notin kinds /\ "older" \notin kinds

(* The records of a part file that a write of it must bring.               *)
Owed(i) ==
  LET records == PartFiles[table][i].records
  IN  {records[n] : n \in {m \in DOMAIN records : Normalizes(records[m]) /\ ~Shadowed(i, m)}}

(* The rows hold what these records say, or a later version.               *)
Covers(rows, records) ==
  \A r \in records : \E row \in rows : Id(row) = Bronze[r].id /\ Time(row) >= Bronze[r].time

(* Every row has one in `after` that is as late.                           *)
Kept(before, after) == \A row \in before : \E new \in after : AsLate(new, row)

AsJob(s) ==
  s = [step |-> s.step, ops |-> s.ops, groups |-> s.groups, base |-> s.base,
       add |-> s.add, drop |-> s.drop, file |-> s.file, orphans |-> s.orphans]

(* A job whose files have not been committed: what it has read and will    *)
(* replace is the current snapshot, unless that has changed.               *)
JobInv(s, w, cur) ==
  /\ AsJob(s)
  /\ s.base.n \in Nat /\ s.base.n <= cur.n
  /\ s.base.n = cur.n => s.base.files = cur.files
  /\ AreFiles(s.base.files, w)
  /\ AreFiles(s.add, w)
  /\ Separate(s.add)
  /\ \A f \in s.add : Apart(f.rows, s.base.files \ s.drop)
  /\ s.step # "commit" => s.add = {} /\ s.drop = {} /\ s.file = 0
  /\ s.drop \subseteq s.base.files
  /\ \A f \in s.orphans : f.born \in Nat

TableInv ==
  /\ table \in Tables /\ now \in Nat /\ writes \in Nat
  /\ current.n \in Nat
  /\ current.n = 0 => current.files = {}
  /\ AreFiles(current.files, writes)
  /\ Separate(current.files)
  /\ AreFiles(stored, writes)
  /\ job = [j \in Jobs |-> job[j]]
  /\ \A j \in Jobs : JobInv(job[j], writes, current)

(* The job becomes one without files to commit.                            *)
Rests(j) ==
  /\ job' = [job EXCEPT ![j] = job'[j]]
  /\ AsJob(job'[j])
  /\ job'[j].step # "commit"
  /\ job'[j].add = {} /\ job'[j].drop = {} /\ job'[j].file = 0

PlainMove(j) ==
  /\ Rests(j)
  /\ job'[j].base \in {NoSnapshot, current, job[j].base}
  /\ job'[j].orphans \subseteq job[j].orphans \cup Orphans
  /\ UNCHANGED <<table, now, stored, current, writes, written>>
  /\ events \subseteq events'

UploadMove(j, rows) ==
  /\ job' = [job EXCEPT ![j] = job'[j]]
  /\ AsJob(job'[j])
  /\ job'[j].step = "commit"
  /\ job'[j].add = FilesFor(rows)
  /\ job'[j].base \in {current, job[j].base}
  /\ job'[j].drop \subseteq job'[j].base.files
  /\ job'[j].orphans \subseteq job[j].orphans
  /\ rows \subseteq RowsUpTo(writes + 1)
  /\ Apart(rows, job'[j].base.files \ job'[j].drop)
  /\ Quiet(events') => Kept(RowsIn(job'[j].drop), rows)
  /\ job'[j].file # 0 => job'[j].file \in DOMAIN PartFiles[table] /\ Covers(rows, Owed(job'[j].file))
  /\ writes' = writes + 1
  /\ stored' = stored \cup FilesFor(rows)
  /\ UNCHANGED <<table, now, current, written>>
  /\ events \subseteq events'

CommitMove(j) ==
  /\ job[j].step = "commit"
  /\ job[j].base.n = current.n
  /\ current'.n = current.n + 1
  /\ current'.files = (current.files \ job[j].drop) \cup job[j].add
  /\ written' = IF job[j].file # 0 THEN written \cup {job[j].file} ELSE written
  /\ Rests(j)
  /\ job'[j].base \in {NoSnapshot, job[j].base}
  /\ job'[j].orphans \subseteq job[j].orphans
  /\ UNCHANGED <<table, now, stored, writes, events>>

DeleteMove(j) ==
  /\ \E f \in job[j].orphans : stored' = stored \ {f}
  /\ Rests(j)
  /\ job'[j].base = job[j].base
  /\ job'[j].orphans \subseteq job[j].orphans
  /\ UNCHANGED <<table, now, current, writes, written, events>>

(* The clock: without a slow job no file waits too long for its commit.    *)
TimeMove ==
  /\ now' = now + 1
  /\ \/ "slow" \in events'
     \/ \A j \in Jobs : \A f \in job[j].add : ~(f.born < now + 1 - OrphanAge)
  /\ UNCHANGED <<table, stored, current, writes, job, written>>
  /\ events \subseteq events'

NoMove ==
  /\ UNCHANGED <<table, now, stored, current, writes, job, written>>
  /\ events \subseteq events'

JobMove(j) ==
  PlainMove(j) \/ CommitMove(j) \/ DeleteMove(j) \/ (\E rows : UploadMove(j, rows))

Move == NoMove \/ TimeMove \/ (\E j \in Jobs : JobMove(j))

(* ------------------------- what the steps preserve --------------------- *)

(* Without a slow job what is to be committed is too young to be an        *)
(* orphan, and what is to be deleted is too old to be committed.           *)
ReadInv ==
  \/ "slow" \in events
  \/ /\ current.files \subseteq stored
     /\ \A j \in Jobs : \A f \in job[j].add : f \in stored /\ ~(f.born < now - OrphanAge)
     /\ \A j \in Jobs : \A f \in job[j].orphans :
          f \notin current.files /\ f.born < now - OrphanAge

(* What a commit will drop it brings again, or a later version of it.      *)
KeepInv ==
  Quiet(events) =>
    /\ \A i \in written : i \in DOMAIN PartFiles[table] /\ Covers(RowsIn(current.files), Owed(i))
    /\ \A j \in Jobs :
         /\ Kept(RowsIn(job[j].drop), RowsIn(job[j].add))
         /\ job[j].file # 0 => job[j].file \in DOMAIN PartFiles[table]
         /\ \A i \in DOMAIN PartFiles[table] :
              job[j].file = i => Covers(RowsIn(job[j].add), Owed(i))

AsLoad(s) ==
  s = [step |-> s.step, streaming |-> s.streaming, scan |-> s.scan, files |-> s.files,
       rows |-> s.rows]

Reading(j) == load[j].step = "scan"

LoadInv ==
  /\ load = [j \in Jobs |-> load[j]]
  /\ loaded \subseteq RowsUpTo(writes)
  /\ \A j \in Jobs : AsLoad(load[j]) /\ load[j].streaming \in BOOLEAN
  /\ \A j \in Jobs : load[j].step \in {"idle", "scan"}
  /\ \A j \in Jobs : load[j].scan \subseteq load[j].files /\ AreFiles(load[j].files, writes)
  /\ \A i, j \in Jobs : Reading(i) /\ Reading(j) => i = j
  /\ \A j \in Jobs : Reading(j) /\ ~load[j].streaming => load[j].scan = load[j].files
  /\ \A j \in Jobs :
       Reading(j) /\ Doubtful(load[j].streaming, load[j].files) => loaded = {}

Shown(row) == \A k \in KeysOf(row) : k \in DOMAIN dim /\ Bronze[dim[k]].time >= Time(row)

(* The files of a load in which no id has two versions.                    *)
Clear(j) == Reading(j) /\ load[j].streaming /\ ~Duplicates(RowsIn(load[j].files))

(* A load reads rows as late as those read before, and a streaming one     *)
(* shows those it has come to.                                             *)
DimensionInv ==
  dimension \in {"market", "event", "outcome"} /\ Quiet(events) =>
    /\ DimensionLatest
    /\ Kept(loaded, RowsIn(current.files))
    /\ \A j \in Jobs : Reading(j) =>
         /\ Kept(loaded, RowsIn(load[j].files))
         /\ Kept(RowsIn(load[j].files), RowsIn(current.files))
    /\ \A j \in Jobs : Clear(j) =>
         \A row \in RowsIn(load[j].files \ load[j].scan) : Shown(row)

(* What a counting load has collected is what it has come to.              *)
CountInv ==
  /\ CountsRight
  /\ \A j \in Jobs :
       /\ Reading(j) /\ load[j].streaming
       /\ dimension = "wallet" \/ (dimension = "category" /\ Clear(j))
       => load[j].rows = RowsIn(load[j].files \ load[j].scan)

(* --------------------------- the moves of a job ------------------------ *)

LEMMA Becomes ==
  ASSUME TableInv, NEW j \in Jobs, NEW s, Become(j, s)
  PROVE  job' = [job EXCEPT ![j] = job'[j]] /\ job'[j] = s
<1>1. job' = [job EXCEPT ![j] = s] /\ j \in DOMAIN job
  BY DEF Become, TableInv
<1>2. job'[j] = s
  BY <1>1
<1> QED
  BY <1>1, <1>2

LEMMA IdleJobIs ==
  /\ AsJob(IdleJob)
  /\ IdleJob.step = "idle" /\ IdleJob.base = NoSnapshot /\ IdleJob.add = {} /\ IdleJob.drop = {}
  /\ IdleJob.file = 0 /\ IdleJob.orphans = {}
BY DEF IdleJob, AsJob

LEMMA BetweenOperations ==
  ASSUME NEW ops
  PROVE  LET s == WithoutOperation(ops)
         IN  /\ AsJob(s) /\ s.step \in {"idle", "operation"} /\ s.base = NoSnapshot
             /\ s.add = {} /\ s.drop = {} /\ s.file = 0 /\ s.orphans = {}
<1> DEFINE done == CASE "compact" \in ops -> "compact"
                     [] "dedup" \in ops -> "dedup"
                     [] "expire" \in ops -> "expire"
                     [] OTHER -> "orphans"
<1>1. PICK a \in {"idle", "operation"} : a = IF ops = {done} THEN "idle" ELSE "operation"
  OBVIOUS
<1>2. PICK b : b = ops \ {done}
  OBVIOUS
<1>3. WithoutOperation(ops) = [IdleJob EXCEPT !.step = a, !.ops = b]
  BY <1>1, <1>2 DEF WithoutOperation
<1>4. PICK s : s = [IdleJob EXCEPT !.step = a, !.ops = b]
  OBVIOUS
<1>5. /\ AsJob(s) /\ s.step \in {"idle", "operation"} /\ s.base = NoSnapshot
      /\ s.add = {} /\ s.drop = {} /\ s.file = 0 /\ s.orphans = {}
  BY <1>1, <1>4 DEF IdleJob, AsJob
<1> QED
  BY <1>3, <1>4, <1>5

(* A step after which the job is between two operations, and nothing else  *)
(* has changed but the orphans that may be deleted.                        *)
LEMMA RestIsPlain ==
  ASSUME TableInv, NEW j \in Jobs, NEW s, Become(j, s), AsJob(s), s.step # "commit",
         s.add = {}, s.drop = {}, s.file = 0,
         s.base = NoSnapshot \/ s.base = current \/ s.base = job[j].base,
         s.orphans \subseteq job[j].orphans \cup Orphans,
         UNCHANGED <<table, now, stored, current, writes, written>>,
         events \subseteq events'
  PROVE  PlainMove(j)
<1>1. job' = [job EXCEPT ![j] = job'[j]] /\ job'[j] = s
  BY Becomes
<1>2. Rests(j)
  BY <1>1 DEF Rests
<1> QED
  BY <1>1, <1>2 DEF PlainMove

LEMMA EndIsPlain ==
  ASSUME TableInv, NEW j \in Jobs, NEW ops, Become(j, WithoutOperation(ops)),
         UNCHANGED <<table, now, stored, current, writes, written>>,
         events \subseteq events'
  PROVE  PlainMove(j)
<1>1. PICK s : s = WithoutOperation(ops)
  OBVIOUS
<1>2. /\ AsJob(s) /\ s.step \in {"idle", "operation"} /\ s.base = NoSnapshot
      /\ s.add = {} /\ s.drop = {} /\ s.file = 0 /\ s.orphans = {}
  BY <1>1, BetweenOperations
<1>3. Become(j, s)
  BY <1>1
<1> QED
  BY <1>2, <1>3, RestIsPlain

LEMMA JobFacts ==
  ASSUME TableInv, NEW j \in Jobs
  PROVE  JobInv(job[j], writes, current)
BY DEF TableInv

LEMMA LoseCommitMoves ==
  ASSUME TableInv, NEW j \in Jobs, LoseCommit(j)
  PROVE  PlainMove(j)
<1>1. UNCHANGED <<table, now, stored, current, writes, written>> /\ events \subseteq events'
  BY DEF LoseCommit, metadata, history
<1>2. CASE job[j].file # 0
  <2>1. Become(j, IdleJob)
    BY <1>2 DEF LoseCommit, AfterFailure
  <2> QED
    BY <1>1, <2>1, IdleJobIs, RestIsPlain
<1>3. CASE job[j].file = 0
  <2>1. Become(j, WithoutOperation(job[j].ops))
    BY <1>3 DEF LoseCommit, AfterFailure
  <2> QED
    BY <1>1, <2>1, EndIsPlain
<1> QED
  BY <1>2, <1>3

LEMMA StartMoves ==
  ASSUME TableInv, NEW j \in Jobs, NEW ops, StartCompact(j, ops) \/ StartDedup(j, ops)
  PROVE  PlainMove(j)
<1>1. UNCHANGED <<table, now, stored, current, writes, written>> /\ events \subseteq events'
  BY DEF StartCompact, StartDedup, metadata, history
<1>2. \E g : Become(j, [IdleJob EXCEPT !.step = "rewrite", !.ops = ops, !.base = current,
                                       !.groups = g])
  BY DEF StartCompact, StartDedup
<1>3. PICK g, s : /\ Become(j, s)
                  /\ s = [IdleJob EXCEPT !.step = "rewrite", !.ops = ops, !.base = current,
                                         !.groups = g]
  BY <1>2
<1>4. /\ AsJob(s) /\ s.step = "rewrite" /\ s.base = current
      /\ s.add = {} /\ s.drop = {} /\ s.file = 0 /\ s.orphans = {}
  BY <1>3 DEF IdleJob, AsJob
<1> QED
  BY <1>1, <1>3, <1>4, RestIsPlain

LEMMA SkipMoves ==
  ASSUME TableInv, NEW j \in Jobs, NEW g, SkipPartition(j, g)
  PROVE  PlainMove(j)
<1>1. UNCHANGED <<table, now, stored, current, writes, written>> /\ events \subseteq events'
  BY DEF SkipPartition, metadata, history
<1>2. PICK s : s = [job[j] EXCEPT !.groups = @ \ {g}]
  OBVIOUS
<1>3. Become(j, s) /\ job[j].step = "rewrite"
  BY <1>2 DEF SkipPartition, AtGroup
<1>4. AsJob(job[j]) /\ job[j].add = {} /\ job[j].drop = {} /\ job[j].file = 0
  BY <1>3, JobFacts DEF JobInv
<1>5. /\ AsJob(s) /\ s.step = "rewrite" /\ s.base = job[j].base
      /\ s.add = {} /\ s.drop = {} /\ s.file = 0 /\ s.orphans = job[j].orphans
  BY <1>2, <1>3, <1>4 DEF AsJob
<1> QED
  BY <1>1, <1>3, <1>5, RestIsPlain

LEMMA RefreshMoves ==
  ASSUME TableInv, NEW j \in Jobs, Refresh(j)
  PROVE  PlainMove(j)
<1>1. UNCHANGED <<table, now, stored, current, writes, written>> /\ events \subseteq events'
  BY DEF Refresh, metadata, history
<1>2. PICK s : s = [job[j] EXCEPT !.step = "rewrite", !.base = current]
  OBVIOUS
<1>3. Become(j, s) /\ job[j].step = "refresh"
  BY <1>2 DEF Refresh
<1>4. AsJob(job[j]) /\ job[j].add = {} /\ job[j].drop = {} /\ job[j].file = 0
  BY <1>3, JobFacts DEF JobInv
<1>5. /\ AsJob(s) /\ s.step = "rewrite" /\ s.base = current
      /\ s.add = {} /\ s.drop = {} /\ s.file = 0 /\ s.orphans = job[j].orphans
  BY <1>2, <1>3, <1>4 DEF AsJob
<1> QED
  BY <1>1, <1>3, <1>5, RestIsPlain

LEMMA ListMoves ==
  ASSUME TableInv, NEW j \in Jobs, NEW ops, ListOrphans(j, ops)
  PROVE  PlainMove(j)
<1>1. UNCHANGED <<table, now, stored, current, writes, written>> /\ events \subseteq events'
  BY DEF ListOrphans, metadata, history
<1>2. PICK s : s = [IdleJob EXCEPT !.step = "delete", !.ops = ops, !.orphans = Orphans]
  OBVIOUS
<1>3. Become(j, s)
  BY <1>2 DEF ListOrphans
<1>4. /\ AsJob(s) /\ s.step = "delete" /\ s.base = NoSnapshot
      /\ s.add = {} /\ s.drop = {} /\ s.file = 0 /\ s.orphans = Orphans
  BY <1>2 DEF IdleJob, AsJob
<1> QED
  BY <1>1, <1>3, <1>4, RestIsPlain

LEMMA DeleteMoves ==
  ASSUME TableInv, NEW j \in Jobs, NEW f, DeleteOrphan(j, f)
  PROVE  DeleteMove(j)
<1>1. UNCHANGED <<table, now, current, writes, written, events>>
  BY DEF DeleteOrphan, metadata, history
<1>2. PICK s : s = [job[j] EXCEPT !.orphans = @ \ {f}]
  OBVIOUS
<1>3. Become(j, s) /\ job[j].step = "delete" /\ f \in job[j].orphans /\ stored' = stored \ {f}
  BY <1>2 DEF DeleteOrphan
<1>4. AsJob(job[j]) /\ job[j].add = {} /\ job[j].drop = {} /\ job[j].file = 0
  BY <1>3, JobFacts DEF JobInv
<1>5. /\ AsJob(s) /\ s.step = "delete" /\ s.base = job[j].base
      /\ s.add = {} /\ s.drop = {} /\ s.file = 0 /\ s.orphans = job[j].orphans \ {f}
  BY <1>2, <1>3, <1>4 DEF AsJob
<1>6. job' = [job EXCEPT ![j] = job'[j]] /\ job'[j] = s
  BY <1>3, Becomes
<1> QED
  BY <1>1, <1>3, <1>5, <1>6 DEF DeleteMove, Rests

LEMMA SkipOrphanMoves ==
  ASSUME TableInv, NEW j \in Jobs, NEW f, SkipOrphan(j, f)
  PROVE  PlainMove(j)
<1>1. UNCHANGED <<table, now, stored, current, writes, written>> /\ events \subseteq events'
  BY DEF SkipOrphan, metadata, Disturb
<1>2. PICK s : s = [job[j] EXCEPT !.orphans = @ \ {f}]
  OBVIOUS
<1>3. Become(j, s) /\ job[j].step = "delete"
  BY <1>2 DEF SkipOrphan
<1>4. AsJob(job[j]) /\ job[j].add = {} /\ job[j].drop = {} /\ job[j].file = 0
  BY <1>3, JobFacts DEF JobInv
<1>5. /\ AsJob(s) /\ s.step = "delete" /\ s.base = job[j].base
      /\ s.add = {} /\ s.drop = {} /\ s.file = 0 /\ s.orphans = job[j].orphans \ {f}
  BY <1>2, <1>3, <1>4 DEF AsJob
<1> QED
  BY <1>1, <1>3, <1>5, RestIsPlain

LEMMA CommitMoves ==
  ASSUME TableInv, NEW j \in Jobs, Commit(j)
  PROVE  CommitMove(j)
<1>1. UNCHANGED <<table, now, stored, writes, events>>
  BY DEF Commit
<1>2. current'.n = current.n + 1 /\ current'.files = (current.files \ job[j].drop) \cup job[j].add
  BY DEF Commit
<1>3. PICK s : s = AfterCommit(j)
  OBVIOUS
<1>4. /\ AsJob(s) /\ s.step # "commit" /\ s.base \in {NoSnapshot, job[j].base}
      /\ s.add = {} /\ s.drop = {} /\ s.file = 0 /\ s.orphans \subseteq job[j].orphans
  <2>1. CASE job[j].file # 0
    BY <1>3, <2>1, IdleJobIs DEF AfterCommit
  <2>2. CASE job[j].file = 0
    <3>1. s = [job[j] EXCEPT !.step = "refresh", !.add = {}, !.drop = {}]
      BY <1>3, <2>2 DEF AfterCommit
    <3>2. AsJob(job[j])
      BY JobFacts DEF JobInv
    <3> QED
      BY <2>2, <3>1, <3>2 DEF AsJob
  <2> QED
    BY <2>1, <2>2
<1>5. job' = [job EXCEPT ![j] = job'[j]] /\ job'[j] = s
  <2>1. Become(j, s)
    BY <1>3 DEF Commit
  <2> QED
    BY <2>1, Becomes
<1> QED
  BY <1>1, <1>2, <1>4, <1>5 DEF CommitMove, Rests, Commit

LEMMA UploadMoves ==
  ASSUME TableInv, NEW j \in Jobs, NEW state, NEW base, NEW rows, NEW drop,
         Upload(j, state, base, rows, drop), AsJob(state),
         state.orphans \subseteq job[j].orphans,
         base = current \/ base = job[j].base,
         drop \subseteq base.files,
         rows \subseteq RowsUpTo(writes + 1),
         Apart(rows, base.files \ drop),
         Quiet(events') => Kept(RowsIn(drop), rows),
         state.file # 0 => state.file \in DOMAIN PartFiles[table] /\ Covers(rows, Owed(state.file)),
         UNCHANGED <<table, now, current, written>>,
         events \subseteq events'
  PROVE  UploadMove(j, rows)
<1>1. PICK s : s = [state EXCEPT !.step = "commit", !.base = base, !.drop = drop,
                                 !.add = FilesFor(rows)]
  OBVIOUS
<1>2. /\ AsJob(s) /\ s.step = "commit" /\ s.base = base /\ s.drop = drop
      /\ s.add = FilesFor(rows) /\ s.file = state.file /\ s.orphans = state.orphans
  BY <1>1 DEF AsJob
<1>3. Become(j, s)
  BY <1>1 DEF Upload
<1>4. job' = [job EXCEPT ![j] = job'[j]] /\ job'[j] = s
  BY <1>3, Becomes
<1>5. writes' = writes + 1 /\ stored' = stored \cup FilesFor(rows)
  BY DEF Upload
<1> QED
  BY <1>2, <1>4, <1>5 DEF UploadMove

LEMMA NewRowsFacts ==
  ASSUME TableInv, NEW i \in DOMAIN PartFiles[table]
  PROVE  /\ NewRows(i) \subseteq RowsUpTo(writes + 1)
         /\ \A files : AreFiles(files, writes) => Apart(NewRows(i), files)
         /\ Covers(NewRows(i), Owed(i))
<1>1. table \in Tables /\ writes \in Nat
  BY DEF TableInv
<1>2. Normalized(i) \subseteq Numbers
  BY <1>1, NormalizedFacts
<1>3. \A row \in NewRows(i) : row[1] \in Numbers /\ row[2] = writes + 1 /\ row = <<row[1], row[2]>>
  BY <1>2 DEF NewRows
<1>4. NewRows(i) \subseteq RowsUpTo(writes + 1)
  <2>1. writes + 1 \in 0..(writes + 1)
    BY <1>1
  <2> QED
    BY <1>3, <2>1 DEF RowsUpTo
<1>5. ASSUME NEW files, AreFiles(files, writes), NEW g \in files, NEW row \in NewRows(i), row \in g.rows
      PROVE  FALSE
  <2>1. row \in RowsUpTo(writes)
    BY <1>5 DEF AreFiles
  <2>2. row[2] <= writes
    BY <1>1, <2>1, RowFacts
  <2> QED
    BY <1>1, <1>3, <1>5, <2>2
<1>6. Covers(NewRows(i), Owed(i))
  <2> SUFFICES ASSUME NEW n \in DOMAIN PartFiles[table][i].records,
                      Normalizes(PartFiles[table][i].records[n]), ~Shadowed(i, n)
               PROVE  \E row \in NewRows(i) :
                        /\ Id(row) = Bronze[PartFiles[table][i].records[n]].id
                        /\ Time(row) >= Bronze[PartFiles[table][i].records[n]].time
    BY DEF Covers, Owed
  <2>1. PICK r \in Normalized(i) :
           /\ Bronze[r].id = Bronze[PartFiles[table][i].records[n]].id
           /\ Bronze[r].time >= Bronze[PartFiles[table][i].records[n]].time
    BY <1>1, BatchCovers
  <2>2. PICK row : row = <<r, writes + 1>>
    OBVIOUS
  <2>3. row \in NewRows(i) /\ row[1] = r
    BY <2>2 DEF NewRows
  <2> QED
    BY <2>1, <2>3 DEF Id, Time
<1> QED
  BY <1>4, <1>5, <1>6 DEF Apart

LEMMA CoversMore ==
  ASSUME NEW rows, NEW more, rows \subseteq more, NEW records, Covers(rows, records)
  PROVE  Covers(more, records)
BY DEF Covers

(* The upload of a writer that has just loaded the table.                  *)
LEMMA WriteMoves ==
  ASSUME TableInv, NEW j \in Jobs, NEW i \in DOMAIN PartFiles[table], NEW rows, NEW drop,
         Write(j, i, rows, drop),
         drop \subseteq current.files,
         rows \subseteq RowsUpTo(writes + 1),
         Apart(rows, current.files \ drop),
         Quiet(events') => Kept(RowsIn(drop), rows),
         NewRows(i) \subseteq rows,
         events \subseteq events'
  PROVE  UploadMove(j, rows)
<1>1. PICK s : s = [IdleJob EXCEPT !.file = i]
  OBVIOUS
<1>2. AsJob(s) /\ s.orphans = {} /\ s.file = i
  BY <1>1 DEF IdleJob, AsJob
<1>3. Upload(j, s, current, rows, drop) /\ UNCHANGED <<table, now, current, written>>
  BY <1>1 DEF Write, metadata
<1>4. Covers(rows, Owed(i))
  BY NewRowsFacts, CoversMore
<1> QED
  BY <1>2, <1>3, <1>4, UploadMoves

LEMMA AppendMoves ==
  ASSUME TableInv, NEW j \in Jobs, NEW i \in DOMAIN PartFiles[table], WriteToIceberg(j, i)
  PROVE  UploadMove(j, NewRows(i))
<1>1. Write(j, i, NewRows(i), {}) /\ events \subseteq events'
  BY DEF WriteToIceberg, Calm, Disturb
<1>2. AreFiles(current.files, writes)
  BY DEF TableInv
<1>3. Apart(NewRows(i), current.files \ {}) /\ NewRows(i) \subseteq RowsUpTo(writes + 1)
  BY <1>2, NewRowsFacts
<1>4. Kept(RowsIn({}), NewRows(i))
  BY DEF Kept, RowsIn
<1> QED
  BY <1>1, <1>3, <1>4, WriteMoves

LEMMA OverwriteMoves ==
  ASSUME TableInv, NEW j \in Jobs, NEW i \in DOMAIN PartFiles[table], OverwriteToIceberg(j, i)
  PROVE  UploadMove(j, NewRows(i))
<1>1. Write(j, i, NewRows(i), current.files) /\ events \subseteq events' /\ "overwrite" \in events'
  BY DEF OverwriteToIceberg, Disturb
<1>2. Apart(NewRows(i), current.files \ current.files) /\ NewRows(i) \subseteq RowsUpTo(writes + 1)
  BY NewRowsFacts DEF Apart
<1>3. ~Quiet(events')
  BY <1>1 DEF Quiet
<1> QED
  BY <1>1, <1>2, <1>3, WriteMoves

(* What a merge leaves out of the files it replaces has a later version    *)
(* among the new rows.                                                     *)
LEMMA MergeMoves ==
  ASSUME TableInv, NEW j \in Jobs, NEW i \in DOMAIN PartFiles[table], MergeToIceberg(j, i)
  PROVE  \E rows : UploadMove(j, rows)
<1>1. PICK touched : touched = Touched(NewRows(i))
  OBVIOUS
<1>2. PICK others : others = {row \in RowsIn(touched) : \A new \in NewRows(i) : Id(row) # Id(new)}
  OBVIOUS
<1>3. PICK newer \in BOOLEAN : newer = \E row \in RowsIn(touched), new \in NewRows(i) :
                               Id(row) = Id(new) /\ Time(row) > Time(new)
  OBVIOUS
<1>4. /\ Write(j, i, NewRows(i) \cup others, touched)
      /\ (newer /\ Disturb("older")) \/ (~newer /\ InOrder(i) /\ Calm)
           \/ (~newer /\ ~InOrder(i) /\ Disturb("again"))
  BY <1>1, <1>2, <1>3 DEF MergeToIceberg
<1>5. events \subseteq events' /\ (newer => "older" \in events')
  BY <1>4 DEF Calm, Disturb
<1>6. AreFiles(current.files, writes) /\ Separate(current.files) /\ writes \in Nat
  BY DEF TableInv
<1>7. touched \subseteq current.files
  BY <1>1 DEF Touched
<1>8. RowsIn(touched) \subseteq RowsUpTo(writes)
  BY <1>6, <1>7 DEF RowsIn, AreFiles
<1>9. RowsIn(touched) \subseteq RowsUpTo(writes + 1)
  BY <1>6, <1>8, MoreRows
<1>10. NewRows(i) \cup others \subseteq RowsUpTo(writes + 1)
  BY <1>2, <1>9, NewRowsFacts
<1>11. Apart(NewRows(i) \cup others, current.files \ touched)
  <2> SUFFICES ASSUME NEW g \in current.files, g \notin touched,
                      NEW row \in g.rows, row \in NewRows(i) \cup others
               PROVE  FALSE
    BY DEF Apart
  <2>1. CASE row \in NewRows(i)
    BY <1>6, <2>1, NewRowsFacts DEF Apart
  <2>2. CASE row \in others
    <3>1. PICK f \in touched : row \in f.rows
      BY <1>2, <2>2 DEF RowsIn
    <3> QED
      BY <1>6, <1>7, <3>1 DEF Separate
  <2> QED
    BY <2>1, <2>2
<1>12. Quiet(events') => Kept(RowsIn(touched), NewRows(i) \cup others)
  <2> SUFFICES ASSUME Quiet(events'), NEW row \in RowsIn(touched)
               PROVE  \E new \in NewRows(i) \cup others : AsLate(new, row)
    BY DEF Kept
  <2>1. ~newer
    BY <1>5 DEF Quiet
  <2>2. Time(row) \in Nat
    BY <1>6, <1>8, RowFacts
  <2>3. CASE row \in others
    BY <2>2, <2>3 DEF AsLate, SameId
  <2>4. CASE row \notin others
    <3>1. PICK new \in NewRows(i) : Id(row) = Id(new)
      BY <1>2, <2>4
    <3>2. ~(Time(row) > Time(new))
      BY <1>3, <2>1, <3>1
    <3>3. Time(new) \in Nat
      BY <1>6, NewRowsFacts, RowFacts
    <3>4. AsLate(new, row)
      BY <2>2, <3>1, <3>2, <3>3 DEF AsLate, SameId
    <3> QED
      BY <3>4
  <2> QED
    BY <2>3, <2>4
<1>13. UploadMove(j, NewRows(i) \cup others)
  BY <1>4, <1>5, <1>7, <1>10, <1>11, <1>12, WriteMoves
<1> QED
  BY <1>13

(* The files of a partition that a rewrite replaces are all that hold rows *)
(* of the days it writes.                                                  *)
LEMMA RewriteIsApart ==
  ASSUME TableInv, NEW j \in Jobs, NEW g, NEW rows,
         rows \subseteq RowsIn(GroupFiles(j, g))
  PROVE  /\ Overwritten(GroupFiles(j, g), rows) \subseteq job[j].base.files
         /\ Apart(rows, job[j].base.files \ Overwritten(GroupFiles(j, g), rows))
<1>1. AreFiles(job[j].base.files, writes)
  BY JobFacts DEF JobInv
<1>2. PICK files : files = GroupFiles(j, g)
  OBVIOUS
<1>3. files \subseteq job[j].base.files /\ \A f \in job[j].base.files : f \in files <=> Group(f) = g
  BY <1>2 DEF GroupFiles, FilesOf
<1>4. \A f \in Overwritten(files, rows) : f \in files
  BY DEF Overwritten
<1>5. ASSUME NEW f \in job[j].base.files, f \notin Overwritten(files, rows),
             NEW row \in f.rows, row \in rows
      PROVE  FALSE
  <2>1. PICK h \in files : row \in h.rows
    BY <1>2, <1>5 DEF RowsIn
  <2>2. DayOfFile(f) = DayOf(row[1]) /\ DayOfFile(h) = DayOf(row[1])
    <3>1. OneDay(f.rows) /\ OneDay(h.rows)
      BY <1>1, <1>3, <2>1 DEF AreFiles
    <3> QED
      BY <1>5, <2>1, <3>1, DayOfFileIs
  <2>3. Group(f) = Group(h)
    BY <2>2 DEF Group
  <2>4. f \in files
    BY <1>3, <2>1, <2>3
  <2>5. DayOfFile(f) \in {DayOf(r[1]) : r \in rows}
    BY <1>5, <2>2
  <2>6. f \in Overwritten(files, rows)
    BY <2>4, <2>5 DEF Overwritten
  <2> QED
    BY <1>5, <2>6
<1> QED
  BY <1>2, <1>3, <1>4, <1>5 DEF Apart

LEMMA RewriteMoves ==
  ASSUME TableInv, NEW j \in Jobs, NEW g, NEW rows,
         job[j].step = "rewrite",
         rows \subseteq RowsIn(GroupFiles(j, g)),
         Kept(RowsIn(GroupFiles(j, g)), rows),
         Upload(j, [job[j] EXCEPT !.groups = @ \ {g}], job[j].base, rows,
                Overwritten(GroupFiles(j, g), rows)),
         UNCHANGED <<table, now, metadata, shocks, history>>
  PROVE  UploadMove(j, rows)
<1>1. /\ AsJob(job[j]) /\ job[j].file = 0
      /\ AreFiles(job[j].base.files, writes) /\ writes \in Nat
  BY JobFacts DEF JobInv, TableInv
<1>2. PICK s : s = [job[j] EXCEPT !.groups = @ \ {g}]
  OBVIOUS
<1>3. AsJob(s) /\ s.file = 0 /\ s.orphans = job[j].orphans
  BY <1>1, <1>2 DEF AsJob
<1>4. PICK drop : drop = Overwritten(GroupFiles(j, g), rows)
  OBVIOUS
<1>5. drop \subseteq job[j].base.files /\ Apart(rows, job[j].base.files \ drop)
  BY <1>4, RewriteIsApart
<1>6. RowsIn(GroupFiles(j, g)) \subseteq RowsUpTo(writes)
  BY <1>1 DEF GroupFiles, FilesOf, RowsIn, AreFiles
<1>7. rows \subseteq RowsUpTo(writes + 1)
  BY <1>1, <1>6, MoreRows
<1>8. Kept(RowsIn(drop), rows)
  BY <1>4 DEF Kept, RowsIn, Overwritten
<1>9. UNCHANGED <<table, now, current, written>> /\ events \subseteq events'
  BY DEF metadata, history
<1>10. Upload(j, s, job[j].base, rows, drop)
  BY <1>2, <1>4
<1> QED
  BY <1>3, <1>5, <1>7, <1>8, <1>9, <1>10, UploadMoves

LEMMA CompactMoves ==
  ASSUME TableInv, NEW j \in Jobs, NEW g, CompactPartition(j, g)
  PROVE  \E rows : UploadMove(j, rows)
<1>1. PICK rows : rows = RowsIn(GroupFiles(j, g))
  OBVIOUS
<1>2. Upload(j, [job[j] EXCEPT !.groups = @ \ {g}], job[j].base, rows,
             Overwritten(GroupFiles(j, g), rows))
  BY <1>1 DEF CompactPartition
<1>3. job[j].step = "rewrite" /\ UNCHANGED <<table, now, metadata, shocks, history>>
  BY DEF CompactPartition, AtGroup
<1>4. writes \in Nat /\ AreFiles(job[j].base.files, writes)
  BY JobFacts DEF JobInv, TableInv
<1>5. rows \subseteq RowsUpTo(writes)
  BY <1>1, <1>4 DEF GroupFiles, FilesOf, RowsIn, AreFiles
<1>6. Kept(rows, rows)
  <2>1. \A row \in rows : Time(row) \in Nat
    BY <1>4, <1>5, RowFacts
  <2> QED
    BY <2>1 DEF Kept, AsLate, SameId
<1> QED
  BY <1>1, <1>2, <1>3, <1>6, RewriteMoves

LEMMA DedupMoves ==
  ASSUME TableInv, NEW j \in Jobs, NEW g, DedupPartition(j, g)
  PROVE  \E rows : UploadMove(j, rows)
<1>1. PICK old, rows : old = RowsIn(GroupFiles(j, g)) /\ rows = Latest(old)
  OBVIOUS
<1>2. Upload(j, [job[j] EXCEPT !.groups = @ \ {g}], job[j].base, rows,
             Overwritten(GroupFiles(j, g), rows))
  BY <1>1 DEF DedupPartition
<1>3. job[j].step = "rewrite" /\ UNCHANGED <<table, now, metadata, shocks, history>>
  BY DEF DedupPartition, AtGroup
<1>4. writes \in Nat /\ AreFiles(job[j].base.files, writes)
  BY JobFacts DEF JobInv, TableInv
<1>5. old \subseteq RowsUpTo(writes)
  BY <1>1, <1>4 DEF GroupFiles, FilesOf, RowsIn, AreFiles
<1>6. Kept(old, rows)
  <2>1. \A row \in old : \E last \in Latest(old) : AsLate(last, row)
    BY <1>4, <1>5, LatestCovers
  <2> QED
    BY <1>1, <2>1 DEF Kept
<1>7. rows \subseteq old
  BY <1>1 DEF Latest
<1> QED
  BY <1>1, <1>2, <1>3, <1>6, <1>7, RewriteMoves

LEMMA JobStepMoves ==
  ASSUME TableInv, NEW j \in Jobs, JobStep(j)
  PROVE  JobMove(j)
<1>1. CASE \E i \in DOMAIN PartFiles[table] :
             WriteToIceberg(j, i) \/ OverwriteToIceberg(j, i) \/ MergeToIceberg(j, i)
  BY <1>1, AppendMoves, OverwriteMoves, MergeMoves DEF JobMove
<1>2. CASE Commit(j)
  BY <1>2, CommitMoves DEF JobMove
<1>3. CASE LoseCommit(j)
  BY <1>3, LoseCommitMoves DEF JobMove
<1>4. CASE \E ops \in Operations \cup {job[j].ops} : StartCompact(j, ops) \/ StartDedup(j, ops)
  BY <1>4, StartMoves DEF JobMove
<1>5. ASSUME NEW ops, ExpireSnapshots(j, ops) PROVE PlainMove(j)
  <2>1. Become(j, WithoutOperation(ops))
    BY <1>5 DEF ExpireSnapshots
  <2>2. UNCHANGED <<table, now, stored, current, writes, written>> /\ events \subseteq events'
    BY <1>5 DEF ExpireSnapshots, history
  <2> QED
    BY <2>1, <2>2, EndIsPlain
<1>6. CASE \E ops \in Operations \cup {job[j].ops} : ExpireSnapshots(j, ops) \/ ListOrphans(j, ops)
  BY <1>5, <1>6, ListMoves DEF JobMove
<1>7. CASE \E g \in job[j].groups :
             CompactPartition(j, g) \/ DedupPartition(j, g) \/ SkipPartition(j, g)
  BY <1>7, CompactMoves, DedupMoves, SkipMoves DEF JobMove
<1>8. CASE Refresh(j)
  BY <1>8, RefreshMoves DEF JobMove
<1>9. CASE EndRewrites(j) \/ EndOrphans(j)
  <2>1. Become(j, WithoutOperation(job[j].ops))
    BY <1>9 DEF EndRewrites, EndOrphans, EndOperation
  <2>2. UNCHANGED <<table, now, stored, current, writes, written>> /\ events \subseteq events'
    BY <1>9 DEF EndRewrites, EndOrphans, metadata, history
  <2> QED
    BY <2>1, <2>2, EndIsPlain DEF JobMove
<1>10. CASE \E f \in job[j].orphans : DeleteOrphan(j, f) \/ SkipOrphan(j, f)
  BY <1>10, DeleteMoves, SkipOrphanMoves DEF JobMove
<1>11. CASE Crash(j)
  <2>1. Become(j, IdleJob)
    BY <1>11 DEF Crash
  <2>2. UNCHANGED <<table, now, stored, current, writes, written>> /\ events \subseteq events'
    BY <1>11 DEF Crash, metadata, Disturb
  <2> QED
    BY <2>1, <2>2, IdleJobIs, RestIsPlain DEF JobMove
<1> QED
  BY <1>1, <1>2, <1>3, <1>4, <1>6, <1>7, <1>8, <1>9, <1>10, <1>11 DEF JobStep, Rewriting

LEMMA ClockMoves ==
  ASSUME NextDay
  PROVE  TimeMove
BY DEF NextDay, TimeMove, Disturb, Calm, metadata

(* What a step does to the table.                                          *)
LEMMA StepMoves ==
  ASSUME TableInv, [Next]_vars
  PROVE  Move
<1>1. CASE InitTable
  BY <1>1 DEF InitTable, history, Move, NoMove
<1>2. CASE NextDay
  BY <1>2, ClockMoves DEF Move
<1>3. ASSUME NEW j \in Jobs, JobStep(j) PROVE Move
  BY <1>3, JobStepMoves DEF Move
<1>4. ASSUME NEW j \in Jobs, LoadStep(j) PROVE NoMove
  <2>1. CASE UNCHANGED silverVars
    BY <2>1 DEF silverVars, metadata, history, NoMove
  <2>2. CASE FailLoad(j)
    BY <2>2 DEF FailLoad, metadata, NoMove, Calm, Disturb
  <2>3. CASE ~FailLoad(j)
    <3>1. UNCHANGED silverVars
      BY <1>4, <2>3 DEF LoadStep, StartLoad, LoadMarketStreaming, LoadOutcomeStreaming,
        LoadEventStreaming, LoadWalletStreaming, LoadCategoryStreaming, Batch, EndStreaming,
        LoadMarket, LoadOutcome, LoadEvent, LoadWallet, LoadCategory, Whole
    <3> QED
      BY <2>1, <3>1
  <2> QED
    BY <2>2, <2>3
<1>5. CASE UNCHANGED vars
  BY <1>5 DEF vars, silverVars, metadata, history, Move, NoMove
<1> QED
  BY <1>1, <1>2, <1>3, <1>4, <1>5 DEF Next, Move

(* ----------------------- types, and rows in one file ------------------- *)

LEMMA TableInit ==
  ASSUME Init
  PROVE  TableInv
<1>1. /\ table \in Tables /\ now = FirstDay /\ stored = {} /\ current = NoSnapshot /\ writes = 0
      /\ job = [j \in Jobs |-> IdleJob]
  BY DEF Init, SilverInit
<1>2. now \in Nat
  BY <1>1, SilverTablesAssumption
<1>3. current.n = 0 /\ current.files = {}
  BY <1>1 DEF NoSnapshot
<1>4. AreFiles({}, writes) /\ Separate({})
  BY DEF AreFiles, Separate
<1>5. ASSUME NEW j \in Jobs PROVE JobInv(job[j], writes, current)
  <2>1. job[j] = IdleJob
    BY <1>1
  <2>2. NoSnapshot.n = 0 /\ NoSnapshot.files = {}
    BY DEF NoSnapshot
  <2> QED
    BY <1>3, <1>4, <2>1, <2>2, IdleJobIs DEF JobInv
<1> QED
  BY <1>1, <1>2, <1>3, <1>4, <1>5 DEF TableInv

LEMMA JobInvAfterUpload ==
  ASSUME NEW w \in Nat, NEW s, NEW cur, JobInv(s, w, cur)
  PROVE  JobInv(s, w + 1, cur)
BY FilesStayFiles DEF JobInv

LEMMA JobInvAfterCommit ==
  ASSUME NEW w \in Nat, NEW s, NEW cur, NEW next, cur.n \in Nat, next.n = cur.n + 1,
         JobInv(s, w, cur)
  PROVE  JobInv(s, w, next)
<1>1. s.base.n \in Nat /\ s.base.n <= cur.n
  BY DEF JobInv
<1>2. s.base.n <= next.n /\ s.base.n # next.n
  BY <1>1
<1> QED
  BY <1>1, <1>2 DEF JobInv

(* A job at rest.                                                          *)
LEMMA RestInv ==
  ASSUME NEW w \in Nat, NEW s, NEW old, NEW cur, cur.n \in Nat,
         cur.n = 0 => cur.files = {},
         AreFiles(cur.files, w), JobInv(old, w, cur),
         AsJob(s), s.step # "commit", s.add = {}, s.drop = {}, s.file = 0,
         s.base \in {NoSnapshot, cur, old.base},
         \A f \in s.orphans : f.born \in Nat
  PROVE  JobInv(s, w, cur)
<1>1. AreFiles({}, w) /\ Separate({})
  BY DEF AreFiles, Separate
<1>2. NoSnapshot.n = 0 /\ NoSnapshot.files = {}
  BY DEF NoSnapshot
<1>3. /\ s.base.n \in Nat /\ s.base.n <= cur.n
      /\ s.base.n = cur.n => s.base.files = cur.files
      /\ AreFiles(s.base.files, w)
  <2>1. CASE s.base = NoSnapshot
    <3>1. s.base.n = 0 /\ s.base.files = {}
      BY <1>2, <2>1
    <3>2. s.base.n = cur.n => cur.files = s.base.files
      BY <3>1
    <3>3. AreFiles(s.base.files, w)
      BY <1>1, <3>1
    <3> QED
      BY <3>1, <3>2, <3>3
  <2>2. CASE s.base = cur
    BY <2>2
  <2>3. CASE s.base = old.base
    BY <2>3 DEF JobInv
  <2> QED
    BY <2>1, <2>2, <2>3
<1> QED
  BY <1>1, <1>3 DEF JobInv

LEMMA OrphansAreBorn ==
  ASSUME TableInv
  PROVE  \A f \in Orphans : f.born \in Nat
BY DEF TableInv, Orphans, AreFiles

LEMMA TablePlain ==
  ASSUME TableInv, NEW j \in Jobs, PlainMove(j)
  PROVE  TableInv'
<1>1. UNCHANGED <<table, now, stored, current, writes>>
  BY DEF PlainMove
<1>2. JobInv(job'[j], writes, current)
  <2>1. \A f \in job'[j].orphans : f.born \in Nat
    BY JobFacts, OrphansAreBorn DEF PlainMove, JobInv
  <2> QED
    BY <2>1, JobFacts, RestInv DEF PlainMove, Rests, TableInv
<1>3. \A k \in Jobs : JobInv(job'[k], writes, current)
  BY <1>2 DEF PlainMove, Rests, TableInv
<1>4. job' = [k \in Jobs |-> job'[k]]
  BY DEF PlainMove, Rests, TableInv
<1> QED
  BY <1>1, <1>3, <1>4 DEF TableInv

LEMMA TableDelete ==
  ASSUME TableInv, NEW j \in Jobs, DeleteMove(j)
  PROVE  TableInv'
<1>1. UNCHANGED <<table, now, current, writes>> /\ AreFiles(stored', writes)
  BY DEF DeleteMove, TableInv, AreFiles
<1>2. JobInv(job'[j], writes, current)
  <2>1. \A f \in job'[j].orphans : f.born \in Nat
    BY JobFacts DEF DeleteMove, JobInv
  <2> QED
    BY <2>1, JobFacts, RestInv DEF DeleteMove, Rests, TableInv
<1>3. \A k \in Jobs : JobInv(job'[k], writes, current)
  BY <1>2 DEF DeleteMove, Rests, TableInv
<1>4. job' = [k \in Jobs |-> job'[k]]
  BY DEF DeleteMove, Rests, TableInv
<1> QED
  BY <1>1, <1>3, <1>4 DEF TableInv

LEMMA TableUpload ==
  ASSUME TableInv, NEW j \in Jobs, NEW rows, UploadMove(j, rows)
  PROVE  TableInv'
<1>1. UNCHANGED <<table, now, current>> /\ writes' = writes + 1 /\ writes \in Nat /\ now \in Nat
  BY DEF UploadMove, TableInv
<1>2. AreFiles(current.files, writes + 1) /\ AreFiles(stored, writes + 1)
  BY <1>1, FilesStayFiles DEF TableInv
<1>3. AreFiles(FilesFor(rows), writes + 1)
  BY <1>1, FilesForRows DEF AreFiles, UploadMove
<1>4. AreFiles(stored', writes + 1)
  BY <1>2, <1>3 DEF AreFiles, UploadMove
<1>5. JobInv(job'[j], writes + 1, current)
  <2>1. JobInv(job[j], writes + 1, current)
    BY <1>1, JobFacts, JobInvAfterUpload
  <2>2. PICK s : s = job'[j]
    OBVIOUS
  <2>3. /\ AsJob(s) /\ s.step = "commit" /\ s.add = FilesFor(rows)
        /\ s.base = current \/ s.base = job[j].base
        /\ s.drop \subseteq s.base.files /\ s.orphans \subseteq job[j].orphans
        /\ Apart(rows, s.base.files \ s.drop)
    BY <2>2 DEF UploadMove
  <2>4. /\ s.base.n \in Nat /\ s.base.n <= current.n
        /\ s.base.n = current.n => s.base.files = current.files
        /\ AreFiles(s.base.files, writes + 1)
    <3>1. current.n \in Nat
      BY DEF TableInv
    <3> QED
      BY <1>2, <2>1, <2>3, <3>1 DEF JobInv
  <2>5. Separate(s.add) /\ AreFiles(s.add, writes + 1)
    BY <1>3, <2>3, FilesForRows
  <2>6. \A f \in s.add : Apart(f.rows, s.base.files \ s.drop)
    BY <2>3, FilesForRows DEF Apart
  <2>7. \A f \in s.orphans : f.born \in Nat
    BY <2>1, <2>3 DEF JobInv
  <2> QED
    BY <2>2, <2>3, <2>4, <2>5, <2>6, <2>7 DEF JobInv
<1>6. \A k \in Jobs : JobInv(job'[k], writes + 1, current)
  <2> SUFFICES ASSUME NEW k \in Jobs, k # j PROVE JobInv(job'[k], writes + 1, current)
    BY <1>5
  <2>1. job'[k] = job[k]
    BY DEF UploadMove, TableInv
  <2>2. JobInv(job[k], writes + 1, current)
    BY <1>1, JobFacts, JobInvAfterUpload
  <2> QED
    BY <2>1, <2>2
<1>7. job' = [k \in Jobs |-> job'[k]]
  BY DEF UploadMove, TableInv
<1> QED
  BY <1>1, <1>2, <1>4, <1>6, <1>7 DEF TableInv

(* The files of a commit are those it has not dropped, and its own: if the *)
(* table is what the job has read, they share no rows.                     *)
LEMMA CommittedFiles ==
  ASSUME TableInv, NEW j \in Jobs, CommitMove(j)
  PROVE  /\ AreFiles(current'.files, writes)
         /\ Separate(current'.files)
<1>1. JobInv(job[j], writes, current)
  BY JobFacts
<1>2. job[j].base.files = current.files
  BY <1>1 DEF JobInv, CommitMove
<1>3. current'.files = (current.files \ job[j].drop) \cup job[j].add
  BY DEF CommitMove
<1>4. AreFiles(current.files, writes) /\ Separate(current.files)
  BY DEF TableInv
<1>5. AreFiles(current'.files, writes)
  BY <1>1, <1>3, <1>4 DEF JobInv, AreFiles
<1>6. Separate(current'.files)
  <2> SUFFICES ASSUME NEW f \in current'.files, NEW g \in current'.files
               PROVE  f = g \/ f.rows \cap g.rows = {}
    BY DEF Separate
  <2>1. CASE f \in job[j].add /\ g \in job[j].add
    BY <1>1, <2>1 DEF JobInv, Separate
  <2>2. CASE f \notin job[j].add /\ g \notin job[j].add
    BY <1>3, <1>4, <2>2 DEF Separate
  <2>3. CASE f \in job[j].add /\ g \notin job[j].add
    BY <1>1, <1>2, <1>3, <2>3 DEF JobInv, Apart
  <2>4. CASE f \notin job[j].add /\ g \in job[j].add
    BY <1>1, <1>2, <1>3, <2>4 DEF JobInv, Apart
  <2> QED
    BY <2>1, <2>2, <2>3, <2>4
<1> QED
  BY <1>5, <1>6

LEMMA TableCommit ==
  ASSUME TableInv, NEW j \in Jobs, CommitMove(j)
  PROVE  TableInv'
<1>1. UNCHANGED <<table, now, stored, writes>> /\ writes \in Nat /\ current.n \in Nat
  BY DEF CommitMove, TableInv
<1>2. AreFiles(current'.files, writes) /\ Separate(current'.files) /\ current'.n = current.n + 1
  BY CommittedFiles DEF CommitMove
<1>3. ASSUME NEW k \in Jobs PROVE JobInv(job[k], writes, current')
  BY <1>1, <1>2, JobFacts, JobInvAfterCommit
<1>4. JobInv(job'[j], writes, current')
  <2>1. JobInv(job[j], writes, current')
    BY <1>3
  <2>2. \A f \in job'[j].orphans : f.born \in Nat
    BY <2>1 DEF CommitMove, JobInv
  <2>3. PICK cur : cur = current'
    OBVIOUS
  <2>4. cur.n \in Nat /\ cur.n # 0 /\ AreFiles(cur.files, writes) /\ JobInv(job[j], writes, cur)
    BY <1>1, <1>2, <2>1, <2>3
  <2>5. JobInv(job'[j], writes, cur)
    BY <1>1, <2>2, <2>4, RestInv DEF CommitMove, Rests
  <2> QED
    BY <2>3, <2>5
<1>5. \A k \in Jobs : JobInv(job'[k], writes, current')
  BY <1>3, <1>4 DEF CommitMove, Rests, TableInv
<1>6. job' = [k \in Jobs |-> job'[k]]
  BY DEF CommitMove, Rests, TableInv
<1>7. table \in Tables /\ now \in Nat /\ AreFiles(stored, writes)
  BY DEF TableInv
<1> QED
  BY <1>1, <1>2, <1>5, <1>6, <1>7 DEF TableInv

LEMMA TableStep ==
  ASSUME TableInv, [Next]_vars
  PROVE  TableInv'
<1>1. CASE NoMove
  BY <1>1 DEF NoMove, TableInv
<1>2. CASE TimeMove
  BY <1>2 DEF TimeMove, TableInv
<1>3. ASSUME NEW j \in Jobs, JobMove(j) PROVE TableInv'
  BY <1>3, TablePlain, TableDelete, TableUpload, TableCommit DEF JobMove
<1> QED
  BY <1>1, <1>2, <1>3, StepMoves DEF Move

(* In every reachable state the data files hold rows of one day, a job     *)
(* that can still commit has read the current snapshot, and no files of    *)
(* it, or of what it will commit, share a row.                             *)
THEOREM TableIsSound == Spec => []TableInv
<1>1. TableInv /\ [Next]_vars => TableInv'
  BY TableStep
<1> QED
  BY <1>1, TableInit, PTL DEF Spec

(* No row is in two files of the table, whatever writers, compactions and  *)
(* deduplications overlap, lose their commits or die: RowsOnce.            *)
THEOREM NoRowTwice == Spec => []RowsOnce
<1>1. TableInv => RowsOnce
  BY DEF TableInv, Separate, RowsOnce
<1> QED
  BY <1>1, TableIsSound, PTL

(* --------------------- the snapshot stays readable --------------------- *)

LEMMA ReadStep ==
  ASSUME TableInv, ReadInv, [Next]_vars
  PROVE  ReadInv'
<1>1. events \subseteq events'
  BY StepMoves DEF Move, NoMove, TimeMove, JobMove, PlainMove, CommitMove, DeleteMove, UploadMove
<1> SUFFICES ASSUME "slow" \notin events' PROVE ReadInv'
  BY DEF ReadInv
<1>2. /\ current.files \subseteq stored
      /\ \A k \in Jobs : \A f \in job[k].add : f \in stored /\ ~(f.born < now - OrphanAge)
      /\ \A k \in Jobs : \A f \in job[k].orphans :
           f \notin current.files /\ f.born < now - OrphanAge /\ f.born \in Nat
  <2>1. "slow" \notin events
    BY <1>1
  <2> QED
    BY <2>1, JobFacts DEF ReadInv, JobInv
<1>3. now \in Nat /\ OrphanAge \in Nat
  BY SilverTablesAssumption DEF TableInv
<1>4. CASE NoMove
  BY <1>2, <1>4 DEF NoMove, ReadInv
<1>5. CASE TimeMove
  <2>1. \A k \in Jobs : \A f \in job[k].orphans : f.born < now + 1 - OrphanAge
    BY <1>2, <1>3
  <2>2. \A k \in Jobs : \A f \in job[k].add : ~(f.born < now + 1 - OrphanAge)
    BY <1>5 DEF TimeMove
  <2>3. now' = now + 1 /\ stored' = stored /\ current' = current /\ job' = job
    BY <1>5 DEF TimeMove
  <2>4. \A k \in Jobs : \A f \in job'[k].add : f \in stored' /\ ~(f.born < now' - OrphanAge)
    BY <1>2, <1>3, <2>2, <2>3
  <2>5. \A k \in Jobs : \A f \in job'[k].orphans :
          f \notin current'.files /\ f.born < now' - OrphanAge
    BY <1>2, <1>3, <2>1, <2>3
  <2> QED
    BY <1>2, <2>3, <2>4, <2>5 DEF ReadInv
<1>6. ASSUME NEW j \in Jobs, PlainMove(j) PROVE ReadInv'
  <2>1. \A k \in Jobs : job'[k].add \subseteq job[k].add
    BY <1>6 DEF PlainMove, Rests, TableInv
  <2>2. \A k \in Jobs : job'[k].orphans \subseteq job[k].orphans \cup Orphans
    BY <1>6 DEF PlainMove, Rests, TableInv
  <2>3. \A f \in Orphans : f \notin current.files /\ f.born < now - OrphanAge
    BY DEF Orphans
  <2>4. UNCHANGED <<now, stored, current>>
    BY <1>6 DEF PlainMove
  <2> QED
    BY <1>2, <2>1, <2>2, <2>3, <2>4 DEF ReadInv
<1>7. ASSUME NEW j \in Jobs, DeleteMove(j) PROVE ReadInv'
  <2>1. \A k \in Jobs : job'[k].add \subseteq job[k].add /\ job'[k].orphans \subseteq job[k].orphans
    BY <1>7 DEF DeleteMove, Rests, TableInv
  <2>2. PICK d \in job[j].orphans : stored' = stored \ {d}
    BY <1>7 DEF DeleteMove
  <2>3. d \notin current.files /\ \A k \in Jobs : d \notin job[k].add
    BY <1>2
  <2>4. UNCHANGED <<now, current>>
    BY <1>7 DEF DeleteMove
  <2> QED
    BY <1>2, <2>1, <2>2, <2>3, <2>4 DEF ReadInv
<1>8. ASSUME NEW j \in Jobs, CommitMove(j) PROVE ReadInv'
  <2>1. \A k \in Jobs : job'[k].add \subseteq job[k].add /\ job'[k].orphans \subseteq job[k].orphans
    BY <1>8 DEF CommitMove, Rests, TableInv
  <2>2. current'.files \subseteq current.files \cup job[j].add
    BY <1>8 DEF CommitMove
  <2>3. \A k \in Jobs : \A f \in job[k].orphans : f \notin current'.files
    BY <1>2, <2>2
  <2>4. UNCHANGED <<now, stored>>
    BY <1>8 DEF CommitMove
  <2> QED
    BY <1>2, <2>1, <2>2, <2>3, <2>4 DEF ReadInv
<1>9. ASSUME NEW j \in Jobs, NEW rows, UploadMove(j, rows) PROVE ReadInv'
  <2>1. \A k \in Jobs : /\ job'[k].add \subseteq job[k].add \cup FilesFor(rows)
                        /\ job'[k].orphans \subseteq job[k].orphans
    BY <1>9 DEF UploadMove, TableInv
  <2>2. \A f \in FilesFor(rows) : ~(f.born < now - OrphanAge)
    BY <1>3, FilesForRows
  <2>3. UNCHANGED <<now, current>> /\ stored' = stored \cup FilesFor(rows)
    BY <1>9 DEF UploadMove
  <2> QED
    BY <1>2, <2>1, <2>2, <2>3 DEF ReadInv
<1> QED
  BY <1>4, <1>5, <1>6, <1>7, <1>8, <1>9, StepMoves DEF Move, JobMove

LEMMA ReadInit ==
  ASSUME Init
  PROVE  ReadInv
<1>1. current.files = {} /\ \A j \in Jobs : job[j] = IdleJob
  BY DEF Init, SilverInit, NoSnapshot
<1> QED
  BY <1>1, IdleJobIs DEF ReadInv

(* The removal of orphans never takes a file of the current snapshot, nor  *)
(* one that is about to be committed, unless a job is slow.                *)
THEOREM SnapshotStaysReadable == Spec => []CurrentReadable
<1>1. ReadInv => CurrentReadable
  BY DEF ReadInv, CurrentReadable
<1>2. TableInv /\ ReadInv /\ [Next]_vars => ReadInv'
  BY ReadStep
<1> QED
  BY <1>1, <1>2, ReadInit, TableIsSound, PTL DEF Spec

(* --------------------------- nothing is lost --------------------------- *)

LEMMA OwedFacts ==
  ASSUME table \in Tables, NEW i \in DOMAIN PartFiles[table]
  PROVE  Owed(i) \subseteq Numbers
BY PartFileFacts DEF Owed

LEMMA OwedStays ==
  ASSUME table' = table
  PROVE  \A i : Owed(i)' = Owed(i)
BY DEF Owed, Shadowed, Normalizes, Catalog, PolymarketMarket, PolymarketEvent,
  PolymarketTrade, KalshiMarket, KalshiEvent, KalshiTrade

LEMMA KeptCovers ==
  ASSUME NEW w \in Nat, NEW before \in SUBSET RowsUpTo(w), NEW after \in SUBSET RowsUpTo(w),
         NEW records \in SUBSET Numbers,
         Kept(before, after), Covers(before, records)
  PROVE  Covers(after, records)
<1> SUFFICES ASSUME NEW r \in records
             PROVE  \E row \in after : Id(row) = Bronze[r].id /\ Time(row) >= Bronze[r].time
  BY DEF Covers
<1>1. Bronze[r].time \in Nat
  BY RecordFacts
<1>2. PICK old \in before : Id(old) = Bronze[r].id /\ Time(old) >= Bronze[r].time
  BY DEF Covers
<1>3. PICK new \in after : AsLate(new, old)
  BY DEF Kept
<1>4. Time(old) \in Nat /\ Time(new) \in Nat
  BY RowFacts
<1>5. Id(new) = Bronze[r].id /\ Time(new) >= Bronze[r].time
  BY <1>1, <1>2, <1>3, <1>4 DEF AsLate, SameId
<1> QED
  BY <1>5

LEMMA RowsAreKept ==
  ASSUME TableInv, NEW j \in Jobs, Kept(RowsIn(job[j].drop), RowsIn(job[j].add)), CommitMove(j)
  PROVE  Kept(RowsIn(current.files), RowsIn(current'.files))
<1>1. current'.files = (current.files \ job[j].drop) \cup job[j].add
  BY DEF CommitMove
<1> SUFFICES ASSUME NEW f \in current.files, NEW row \in f.rows
             PROVE  \E new \in RowsIn(current'.files) : AsLate(new, row)
  BY DEF Kept, RowsIn
<1>2. CASE f \in job[j].drop
  <2>1. PICK new \in RowsIn(job[j].add) : AsLate(new, row)
    BY <1>2 DEF Kept, RowsIn
  <2>2. new \in RowsIn(current'.files)
    BY <1>1, <2>1 DEF RowsIn
  <2> QED
    BY <2>1, <2>2
<1>3. CASE f \notin job[j].drop
  <2>1. row \in RowsIn(current'.files)
    BY <1>1, <1>3 DEF RowsIn
  <2>2. Time(row) \in Nat
    BY RowFacts DEF TableInv, AreFiles
  <2> QED
    BY <2>1, <2>2 DEF AsLate, SameId
<1> QED
  BY <1>2, <1>3

LEMMA RowsStay ==
  ASSUME TableInv
  PROVE  Kept(RowsIn(current.files), RowsIn(current.files))
<1>1. \A row \in RowsIn(current.files) : Time(row) \in Nat
  BY RowFacts DEF TableInv, AreFiles, RowsIn
<1> QED
  BY <1>1 DEF Kept, AsLate, SameId

(* Without --overwrite or a merge of an older version, a step keeps every  *)
(* row of the table or replaces it by one as late.                         *)
LEMMA StepKeepsRows ==
  ASSUME TableInv, KeepInv, [Next]_vars, Quiet(events')
  PROVE  Quiet(events) /\ Kept(RowsIn(current.files), RowsIn(current'.files))
<1>1. Quiet(events)
  <2>1. events \subseteq events'
    BY StepMoves DEF Move, NoMove, TimeMove, JobMove, PlainMove, CommitMove, DeleteMove, UploadMove
  <2> QED
    BY <2>1 DEF Quiet
<1> SUFFICES Kept(RowsIn(current.files), RowsIn(current'.files))
  BY <1>1
<1>2. CASE UNCHANGED current
  BY <1>2, RowsStay
<1>3. ASSUME NEW j \in Jobs, CommitMove(j)
      PROVE  Kept(RowsIn(current.files), RowsIn(current'.files))
  BY <1>1, <1>3, RowsAreKept DEF KeepInv
<1> QED
  BY <1>1, <1>2, <1>3, StepMoves
  DEF Move, NoMove, TimeMove, JobMove, PlainMove, DeleteMove, UploadMove

LEMMA KeepStep ==
  ASSUME TableInv, KeepInv, [Next]_vars
  PROVE  KeepInv'
<1> SUFFICES ASSUME Quiet(events') PROVE KeepInv'
  BY DEF KeepInv
<1>1. /\ \A i \in written : i \in DOMAIN PartFiles[table] /\ Covers(RowsIn(current.files), Owed(i))
      /\ \A k \in Jobs :
           /\ Kept(RowsIn(job[k].drop), RowsIn(job[k].add))
           /\ job[k].file # 0 => job[k].file \in DOMAIN PartFiles[table]
           /\ \A i \in DOMAIN PartFiles[table] :
                job[k].file = i => Covers(RowsIn(job[k].add), Owed(i))
      /\ Kept(RowsIn(current.files), RowsIn(current'.files))
  BY StepKeepsRows DEF KeepInv
<1>2. table' = table /\ table \in Tables
  BY StepMoves DEF Move, NoMove, TimeMove, JobMove, PlainMove, CommitMove, DeleteMove, UploadMove,
    TableInv
<1>3. \A i : Owed(i)' = Owed(i)
  BY <1>2, OwedStays
<1>4. Kept(RowsIn({}), RowsIn({}))
  BY DEF Kept, RowsIn
(* The jobs at rest have nothing to commit.                                *)
<1>5. ASSUME NEW j \in Jobs, Rests(j), NEW k \in Jobs
      PROVE  /\ Kept(RowsIn(job'[k].drop), RowsIn(job'[k].add))
             /\ job'[k].file # 0 => job'[k].file \in DOMAIN PartFiles[table]
             /\ \A i \in DOMAIN PartFiles[table] :
                  job'[k].file = i => Covers(RowsIn(job'[k].add), Owed(i))
  <2>1. CASE k = j
    <3>1. job'[k].drop = {} /\ job'[k].add = {} /\ job'[k].file = 0
      BY <1>5, <2>1 DEF Rests
    <3>2. 0 \notin DOMAIN PartFiles[table]
      BY <1>2, PartFileFacts
    <3> QED
      BY <1>4, <3>1, <3>2
  <2>2. CASE k # j
    <3>1. job'[k] = job[k]
      BY <1>5, <2>2 DEF Rests, TableInv
    <3> QED
      BY <1>1, <3>1
  <2> QED
    BY <2>1, <2>2
<1>6. CASE NoMove \/ TimeMove
  <2>1. UNCHANGED <<table, current, job, written>>
    BY <1>6 DEF NoMove, TimeMove
  <2> QED
    BY <1>1, <1>3, <2>1 DEF KeepInv
<1>7. ASSUME NEW j \in Jobs, PlainMove(j) \/ DeleteMove(j) PROVE KeepInv'
  <2>1. UNCHANGED <<table, current, written>> /\ Rests(j)
    BY <1>7 DEF PlainMove, DeleteMove
  <2> QED
    BY <1>1, <1>3, <1>5, <2>1 DEF KeepInv
<1>8. ASSUME NEW j \in Jobs, CommitMove(j) PROVE KeepInv'
  <2>1. /\ Rests(j) /\ writes \in Nat
        /\ written' = IF job[j].file # 0 THEN written \cup {job[j].file} ELSE written
    BY <1>8 DEF CommitMove, TableInv
  <2>2. RowsIn(current.files) \subseteq RowsUpTo(writes) /\ RowsIn(current'.files) \subseteq RowsUpTo(writes)
    BY <1>8, CommittedFiles, RowsOfFiles DEF TableInv
  <2>3. ASSUME NEW i \in written
        PROVE  i \in DOMAIN PartFiles[table] /\ Covers(RowsIn(current'.files), Owed(i))
    <3>1. i \in DOMAIN PartFiles[table] /\ Covers(RowsIn(current.files), Owed(i))
      BY <1>1, <2>3
    <3>2. Owed(i) \subseteq Numbers
      BY <1>2, <3>1, OwedFacts
    <3> QED
      BY <1>1, <2>1, <2>2, <3>1, <3>2, KeptCovers
  <2>4. ASSUME job[j].file # 0
        PROVE  /\ job[j].file \in DOMAIN PartFiles[table]
               /\ Covers(RowsIn(current'.files), Owed(job[j].file))
    <3>1. PICK i \in DOMAIN PartFiles[table] : i = job[j].file
      BY <1>1, <2>4
    <3>2. Covers(RowsIn(job[j].add), Owed(i))
      BY <1>1, <3>1
    <3>3. RowsIn(job[j].add) \subseteq RowsIn(current'.files)
      BY <1>8 DEF CommitMove, RowsIn
    <3> QED
      BY <3>1, <3>2, <3>3, CoversMore
  <2>5. \A i \in written' : i \in DOMAIN PartFiles[table] /\ Covers(RowsIn(current'.files), Owed(i))
    BY <2>1, <2>3, <2>4
  <2> QED
    BY <1>2, <1>3, <1>5, <2>1, <2>5 DEF KeepInv
<1>9. ASSUME NEW j \in Jobs, NEW rows, UploadMove(j, rows) PROVE KeepInv'
  <2>1. UNCHANGED <<table, current, written>>
    BY <1>9 DEF UploadMove
  <2>2. ASSUME NEW k \in Jobs
        PROVE  /\ Kept(RowsIn(job'[k].drop), RowsIn(job'[k].add))
               /\ job'[k].file # 0 => job'[k].file \in DOMAIN PartFiles[table]
               /\ \A i \in DOMAIN PartFiles[table] :
                    job'[k].file = i => Covers(RowsIn(job'[k].add), Owed(i))
    <3>1. CASE k = j
      <4>1. RowsIn(job'[k].add) = rows
        <5>1. job'[k].add = FilesFor(rows)
          BY <1>9, <3>1 DEF UploadMove
        <5>2. RowsIn(FilesFor(rows)) = rows
          BY FilesForRows
        <5> QED
          BY <5>1, <5>2
      <4>2. Kept(RowsIn(job'[k].drop), rows)
        BY <1>9, <3>1 DEF UploadMove
      <4>3. job'[k].file # 0 => /\ job'[k].file \in DOMAIN PartFiles[table]
                                /\ Covers(rows, Owed(job'[k].file))
        BY <1>9, <3>1 DEF UploadMove
      <4>4. 0 \notin DOMAIN PartFiles[table]
        BY <1>2, PartFileFacts
      <4> QED
        BY <4>1, <4>2, <4>3, <4>4
    <3>2. CASE k # j
      <4>1. job'[k] = job[k]
        BY <1>9, <3>2 DEF UploadMove, TableInv
      <4> QED
        BY <1>1, <4>1
    <3> QED
      BY <3>1, <3>2
  <2> QED
    BY <1>1, <1>3, <2>1, <2>2 DEF KeepInv
<1> QED
  BY <1>6, <1>7, <1>8, <1>9, StepMoves DEF Move, JobMove

LEMMA KeepInit ==
  ASSUME Init
  PROVE  KeepInv
<1>1. written = {} /\ \A j \in Jobs : job[j] = IdleJob
  BY DEF Init, SilverInit
<1>2. table \in Tables
  BY DEF Init, SilverInit
<1>3. 0 \notin DOMAIN PartFiles[table]
  BY <1>2, PartFileFacts
<1>4. Kept(RowsIn({}), RowsIn({}))
  BY DEF Kept, RowsIn
<1> QED
  BY <1>1, <1>3, <1>4, IdleJobIs DEF KeepInv

LEMMA KeptAlways == Spec => []KeepInv
<1>1. TableInv /\ KeepInv /\ [Next]_vars => KeepInv'
  BY KeepStep
<1> QED
  BY <1>1, KeepInit, TableIsSound, PTL DEF Spec

(* Whatever a committed part file says of an id the table holds, or a      *)
(* later version: no race, lost commit, crash or repetition loses one.     *)
THEOREM NewestIsStored == Spec => []NewestStored
<1>1. KeepInv => NewestStored
  <2> SUFFICES ASSUME KeepInv, events \cap {"overwrite", "older"} = {}, NEW i \in written,
                      NEW n \in DOMAIN PartFiles[table][i].records,
                      Normalizes(PartFiles[table][i].records[n]), ~Shadowed(i, n)
               PROVE  \E row \in RowsIn(current.files) :
                        /\ Id(row) = Bronze[PartFiles[table][i].records[n]].id
                        /\ Time(row) >= Bronze[PartFiles[table][i].records[n]].time
    BY DEF NewestStored
  <2>1. Quiet(events)
    BY DEF Quiet
  <2>2. Covers(RowsIn(current.files), Owed(i))
    BY <2>1 DEF KeepInv
  <2>3. PartFiles[table][i].records[n] \in Owed(i)
    BY DEF Owed
  <2> QED
    BY <2>2, <2>3 DEF Covers
<1> QED
  BY <1>1, KeptAlways, PTL

(* ------------------------------ the loads ------------------------------ *)

LEMMA StepWrites ==
  ASSUME TableInv, [Next]_vars
  PROVE  writes' = writes \/ writes' = writes + 1
BY StepMoves DEF Move, NoMove, TimeMove, JobMove, PlainMove, CommitMove, DeleteMove, UploadMove

LEMMA LoadGoes ==
  ASSUME LoadInv, NEW j \in Jobs, NEW s, Goto(j, s)
  PROVE  load' = [load EXCEPT ![j] = load'[j]] /\ load'[j] = s
<1>1. load' = [load EXCEPT ![j] = s] /\ j \in DOMAIN load
  BY DEF Goto, LoadInv
<1>2. load'[j] = s
  BY <1>1
<1> QED
  BY <1>1, <1>2

LEMMA NoLoadIs ==
  /\ AsLoad(NoLoad) /\ NoLoad.step = "idle" /\ NoLoad.streaming = FALSE /\ NoLoad.scan = {}
  /\ NoLoad.files = {}
BY DEF NoLoad, AsLoad

(* What the steps of a load do, but for what they insert.                  *)
StartMove(j) ==
  /\ load' = [load EXCEPT ![j] = load'[j]]
  /\ AsLoad(load'[j])
  /\ \A i \in Jobs : ~Reading(i)
  /\ load'[j].step = "scan" /\ load'[j].streaming \in BOOLEAN
  /\ load'[j].scan = current.files /\ load'[j].files = current.files /\ load'[j].rows = {}
  /\ loaded' = IF Doubtful(load'[j].streaming, current.files) THEN {} ELSE loaded
  /\ UNCHANGED <<silverVars, dimension, dim>>

ScanMove(j, f) ==
  /\ load' = [load EXCEPT ![j] = load'[j]]
  /\ AsLoad(load'[j])
  /\ Reading(j) /\ load[j].streaming
  /\ f \in load[j].scan
  /\ load'[j].step = "scan" /\ load'[j].streaming = load[j].streaming
  /\ load'[j].files = load[j].files /\ load'[j].scan = load[j].scan \ {f}
  /\ UNCHANGED <<silverVars, dimension, loaded>>

EndMove(j) ==
  /\ load' = [load EXCEPT ![j] = load'[j]]
  /\ Reading(j)
  /\ load'[j] = NoLoad
  /\ loaded' = IF Doubtful(load[j].streaming, load[j].files) THEN {} ELSE RowsIn(load[j].files)
  /\ UNCHANGED <<silverVars, dimension>>

FailMove(j) ==
  /\ load' = [load EXCEPT ![j] = load'[j]]
  /\ load'[j] = NoLoad
  /\ UNCHANGED <<table, current, writes, dimension, dim, loaded>>
  /\ events \subseteq events'

LEMMA StartLoadMoves ==
  ASSUME LoadInv, NEW j \in Jobs, NEW streaming \in BOOLEAN, StartLoad(j, streaming)
  PROVE  StartMove(j)
<1>1. PICK s : s = [NoLoad EXCEPT !.step = "scan", !.streaming = streaming,
                                  !.scan = current.files, !.files = current.files]
  OBVIOUS
<1>2. /\ AsLoad(s) /\ s.step = "scan" /\ s.streaming = streaming
      /\ s.scan = current.files /\ s.files = current.files /\ s.rows = {}
  BY <1>1 DEF NoLoad, AsLoad
<1>3. Goto(j, s)
  BY <1>1 DEF StartLoad
<1>4. load' = [load EXCEPT ![j] = load'[j]] /\ load'[j] = s
  BY <1>3, LoadGoes
<1>5. /\ \A i \in Jobs : ~Reading(i)
      /\ loaded' = IF Doubtful(streaming, current.files) THEN {} ELSE loaded
      /\ UNCHANGED <<silverVars, dimension, dim>>
  BY DEF StartLoad, Reading
<1> QED
  BY <1>2, <1>4, <1>5 DEF StartMove

LEMMA BatchMoves ==
  ASSUME LoadInv, NEW j \in Jobs, NEW f, NEW rows, Batch(j, f),
         \/ Goto(j, [load[j] EXCEPT !.scan = @ \ {f}])
         \/ Goto(j, [load[j] EXCEPT !.scan = @ \ {f}, !.rows = rows])
  PROVE  /\ ScanMove(j, f)
         /\ load'[j].rows = load[j].rows \/ load'[j].rows = rows
<1>1. PICK s : /\ Goto(j, s)
               /\ \/ s = [load[j] EXCEPT !.scan = @ \ {f}]
                  \/ s = [load[j] EXCEPT !.scan = @ \ {f}, !.rows = rows]
  OBVIOUS
<1>2. AsLoad(load[j]) /\ load[j].step = "scan"
  BY DEF LoadInv, Batch
<1>3. /\ AsLoad(s) /\ s.step = "scan" /\ s.streaming = load[j].streaming
      /\ s.files = load[j].files /\ s.scan = load[j].scan \ {f}
      /\ s.rows = load[j].rows \/ s.rows = rows
  BY <1>1, <1>2 DEF AsLoad
<1>4. load' = [load EXCEPT ![j] = load'[j]] /\ load'[j] = s
  BY <1>1, LoadGoes
<1> QED
  BY <1>3, <1>4 DEF ScanMove, Batch, Reading

(* The step that counts collects what it says.                             *)
LEMMA CountingMoves ==
  ASSUME LoadInv, NEW j \in Jobs, NEW f, NEW rows, Batch(j, f),
         Goto(j, [load[j] EXCEPT !.scan = @ \ {f}, !.rows = rows])
  PROVE  ScanMove(j, f) /\ load'[j].rows = rows
<1>1. PICK s : Goto(j, s) /\ s = [load[j] EXCEPT !.scan = @ \ {f}, !.rows = rows]
  OBVIOUS
<1>2. AsLoad(load[j])
  BY DEF LoadInv
<1>3. s.rows = rows
  BY <1>1, <1>2 DEF AsLoad
<1>4. load'[j] = s
  BY <1>1, LoadGoes
<1> QED
  BY <1>3, <1>4, BatchMoves

LEMMA EndLoadMoves ==
  ASSUME LoadInv, NEW j \in Jobs, Reading(j), EndLoad(j), UNCHANGED <<silverVars, dimension, loads>>
  PROVE  EndMove(j)
<1>1. load' = [load EXCEPT ![j] = load'[j]] /\ load'[j] = NoLoad
  BY LoadGoes DEF EndLoad
<1> QED
  BY <1>1 DEF EndMove, EndLoad

LEMMA FailLoadMoves ==
  ASSUME LoadInv, NEW j \in Jobs, FailLoad(j)
  PROVE  FailMove(j)
<1>1. load' = [load EXCEPT ![j] = load'[j]] /\ load'[j] = NoLoad
  BY LoadGoes DEF FailLoad
<1>2. UNCHANGED <<table, current, writes, dimension, dim, loaded>> /\ events \subseteq events'
  BY DEF FailLoad, metadata, Calm, Disturb
<1> QED
  BY <1>1, <1>2 DEF FailMove

(* A batch of one of the three dimensions that are inserted as they come.  *)
StreamBatch(j, f) ==
  LoadMarketStreaming(j, f) \/ LoadOutcomeStreaming(j, f) \/ LoadEventStreaming(j, f)

CountBatch(j, f) == LoadWalletStreaming(j, f) \/ LoadCategoryStreaming(j, f)

WholeLoad(j) ==
  LoadMarket(j) \/ LoadOutcome(j) \/ LoadEvent(j) \/ LoadWallet(j) \/ LoadCategory(j)

LEMMA StreamBatchMoves ==
  ASSUME LoadInv, NEW j \in Jobs, NEW f, StreamBatch(j, f)
  PROVE  ScanMove(j, f)
<1>1. Batch(j, f) /\ Goto(j, [load[j] EXCEPT !.scan = @ \ {f}])
  BY DEF StreamBatch, LoadMarketStreaming, LoadOutcomeStreaming, LoadEventStreaming
<1> QED
  BY <1>1, BatchMoves

LEMMA CountBatchMoves ==
  ASSUME LoadInv, NEW j \in Jobs, NEW f, CountBatch(j, f)
  PROVE  ScanMove(j, f)
<1>1. Batch(j, f) /\ \E rows : Goto(j, [load[j] EXCEPT !.scan = @ \ {f}, !.rows = rows])
  BY DEF CountBatch, LoadWalletStreaming, LoadCategoryStreaming
<1> QED
  BY <1>1, BatchMoves

LEMMA EndStreamingMoves ==
  ASSUME LoadInv, NEW j \in Jobs, EndStreaming(j)
  PROVE  EndMove(j)
BY EndLoadMoves DEF EndStreaming, Reading

LEMMA WholeMoves ==
  ASSUME LoadInv, NEW j \in Jobs, WholeLoad(j)
  PROVE  Whole(j) /\ EndMove(j)
<1>1. Whole(j)
  BY DEF WholeLoad, LoadMarket, LoadOutcome, LoadEvent, LoadWallet, LoadCategory
<1> QED
  BY <1>1, EndLoadMoves DEF Whole, Reading

LEMMA LoadSteps ==
  ASSUME [Next]_vars
  PROVE  \/ UNCHANGED dimVars
         \/ \E j \in Jobs :
              \/ \E streaming \in BOOLEAN : StartLoad(j, streaming)
              \/ \E f \in load[j].scan : StreamBatch(j, f) \/ CountBatch(j, f)
              \/ EndStreaming(j)
              \/ WholeLoad(j)
              \/ FailLoad(j)
<1>1. CASE UNCHANGED vars
  BY <1>1 DEF vars
<1>2. CASE Next
  BY <1>2 DEF Next, LoadStep, StreamBatch, CountBatch, WholeLoad
<1> QED
  BY <1>1, <1>2

LEMMA LoadInvStill ==
  ASSUME TableInv, LoadInv, UNCHANGED dimVars, writes' = writes \/ writes' = writes + 1
  PROVE  LoadInv'
<1>1. writes \in Nat /\ UNCHANGED <<load, loaded>>
  BY DEF TableInv, dimVars
<1>2. loaded \subseteq RowsUpTo(writes') /\ \A j \in Jobs : AreFiles(load[j].files, writes')
  <2>1. CASE writes' = writes
    BY <2>1 DEF LoadInv
  <2>2. CASE writes' = writes + 1
    BY <1>1, <2>2, MoreRows, FilesStayFiles DEF LoadInv
  <2> QED
    BY <2>1, <2>2
<1> QED
  BY <1>1, <1>2 DEF LoadInv, Reading, Doubtful

LEMMA LoadInvStart ==
  ASSUME TableInv, LoadInv, NEW j \in Jobs, StartMove(j)
  PROVE  LoadInv'
<1>1. UNCHANGED <<writes, current>> /\ AreFiles(current.files, writes)
  BY DEF StartMove, silverVars, metadata, TableInv
<1>2. load' = [k \in Jobs |-> load'[k]] /\ \A k \in Jobs : k # j => load'[k] = load[k]
  BY DEF StartMove, LoadInv
<1>3. \A k \in Jobs : k # j => load'[k].step # "scan"
  BY <1>2 DEF StartMove, Reading
<1>4. loaded' \subseteq loaded
  BY DEF StartMove
<1>5. Doubtful(load'[j].streaming, load'[j].files) => loaded' = {}
  BY DEF StartMove
<1>6. \A k \in Jobs : /\ AsLoad(load'[k]) /\ load'[k].streaming \in BOOLEAN
                      /\ load'[k].step \in {"idle", "scan"}
                      /\ load'[k].scan \subseteq load'[k].files /\ AreFiles(load'[k].files, writes)
  BY <1>1, <1>2 DEF StartMove, LoadInv
<1>7. load'[j].scan = load'[j].files
  BY DEF StartMove
<1>8. loaded \subseteq RowsUpTo(writes)
  BY DEF LoadInv
<1> QED
  BY <1>1, <1>2, <1>3, <1>4, <1>5, <1>6, <1>7, <1>8 DEF LoadInv, Reading

LEMMA LoadInvScan ==
  ASSUME LoadInv, NEW j \in Jobs, NEW f, ScanMove(j, f)
  PROVE  LoadInv'
<1>1. UNCHANGED <<writes, loaded>>
  BY DEF ScanMove, silverVars
<1>2. load' = [k \in Jobs |-> load'[k]] /\ \A k \in Jobs : k # j => load'[k] = load[k]
  BY DEF ScanMove, LoadInv
<1>3. \A k \in Jobs : /\ load'[k].step = load[k].step /\ load'[k].streaming = load[k].streaming
                      /\ load'[k].files = load[k].files /\ load'[k].scan \subseteq load[k].scan
                      /\ (~load[k].streaming => load'[k].scan = load[k].scan)
                      /\ AsLoad(load'[k])
  BY <1>2 DEF ScanMove, Reading, LoadInv
<1> QED
  BY <1>1, <1>2, <1>3 DEF LoadInv, Reading

LEMMA LoadInvEnd ==
  ASSUME TableInv, LoadInv, NEW j \in Jobs, EndMove(j) \/ FailMove(j)
  PROVE  LoadInv'
<1>1. UNCHANGED writes
  BY DEF EndMove, FailMove, silverVars
<1>2. load' = [k \in Jobs |-> load'[k]] /\ \A k \in Jobs : k # j => load'[k] = load[k]
  BY DEF EndMove, FailMove, LoadInv
<1>3. load'[j] = NoLoad
  BY DEF EndMove, FailMove
<1>4. AreFiles({}, writes)
  BY DEF AreFiles
<1>5. loaded' \subseteq RowsUpTo(writes)
  <2>1. RowsIn(load[j].files) \subseteq RowsUpTo(writes)
    BY RowsOfFiles DEF LoadInv
  <2> QED
    BY <2>1 DEF EndMove, FailMove, LoadInv
<1>6. \A k \in Jobs : load'[k].step = "scan" /\ EndMove(j) => FALSE
  BY <1>2, <1>3, NoLoadIs DEF EndMove, LoadInv, Reading
<1>7. FailMove(j) => loaded' = loaded
  BY DEF FailMove
<1>8. \A k \in Jobs : load'[k] = load[k] \/ load'[k] = NoLoad
  BY <1>2, <1>3
<1>9. \A k \in Jobs : /\ AsLoad(load'[k]) /\ load'[k].streaming \in BOOLEAN
                      /\ load'[k].step \in {"idle", "scan"}
                      /\ load'[k].scan \subseteq load'[k].files /\ AreFiles(load'[k].files, writes)
  BY <1>4, <1>8, NoLoadIs DEF LoadInv
<1>10. \A k \in Jobs : load'[k].step = "scan" => load'[k] = load[k] /\ loaded' = loaded
  BY <1>6, <1>7, <1>8, NoLoadIs
<1> QED
  BY <1>1, <1>2, <1>5, <1>9, <1>10 DEF LoadInv, Reading

LEMMA LoadInvStep ==
  ASSUME TableInv, LoadInv, [Next]_vars
  PROVE  LoadInv'
<1>1. CASE UNCHANGED dimVars
  BY <1>1, StepWrites, LoadInvStill
<1>2. ASSUME NEW j \in Jobs, NEW streaming \in BOOLEAN, StartLoad(j, streaming) PROVE LoadInv'
  BY <1>2, StartLoadMoves, LoadInvStart
<1>3. ASSUME NEW j \in Jobs, NEW f \in load[j].scan, StreamBatch(j, f) \/ CountBatch(j, f)
      PROVE  LoadInv'
  BY <1>3, StreamBatchMoves, CountBatchMoves, LoadInvScan
<1>4. ASSUME NEW j \in Jobs, EndStreaming(j) \/ WholeLoad(j) \/ FailLoad(j) PROVE LoadInv'
  BY <1>4, EndStreamingMoves, WholeMoves, FailLoadMoves, LoadInvEnd
<1> QED
  BY <1>1, <1>2, <1>3, <1>4, LoadSteps

LEMMA LoadInit ==
  ASSUME Init
  PROVE  LoadInv
<1>1. load = [j \in Jobs |-> NoLoad] /\ loaded = {} /\ writes = 0
  BY DEF Init, SilverInit
<1>2. AreFiles({}, writes)
  BY DEF AreFiles
<1> QED
  BY <1>1, <1>2, NoLoadIs DEF LoadInv, Reading

(* One load at a time, of the files of one snapshot.                       *)
LEMMA LoadAlways == Spec => []LoadInv
<1>1. TableInv /\ LoadInv /\ [Next]_vars => LoadInv'
  BY LoadInvStep
<1> QED
  BY <1>1, LoadInit, TableIsSound, PTL DEF Spec

(* ---------------------- what a dimension shows ------------------------- *)

LEMMA KeysShareId ==
  ASSUME NEW p, NEW q, NEW k, k \in KeysOf(p), k \in KeysOf(q)
  PROVE  SameId(p, q)
BY DEF KeysOf, SameId

(* The rows of `shown` are inserted under their keys.                      *)
Inserts(rows, shown) ==
  /\ \A row \in rows : KeysOf(row) \subseteq DOMAIN shown
  /\ \A k \in DOMAIN shown : \E row \in rows : k \in KeysOf(row) /\ shown[k] = row[1]

OneRowOfEach(last, rows) ==
  last \subseteq rows /\ \A row \in rows : \E one \in last : SameId(one, row)

LEMMA RowOfIs ==
  ASSUME NEW last, NEW one \in last
  PROVE  RowOf(Id(one), last) \in last /\ Id(RowOf(Id(one), last)) = Id(one)
<1>1. \E row \in last : Id(row) = Id(one)
  OBVIOUS
<1> QED
  BY <1>1 DEF RowOf

LEMMA MarketInserts ==
  ASSUME dimension \in {"market", "event"}, NEW rows, NEW last, OneRowOfEach(last, rows)
  PROVE  Inserts(rows, MarketRows(last)) /\ Inserts(rows, EventRows(last))
<1>1. PICK shown : shown = [id \in Ids(last) |-> RowOf(id, last)[1]]
  OBVIOUS
<1>2. \A row : KeysOf(row) = {Id(row)}
  BY DEF KeysOf
<1>3. ASSUME NEW row \in rows PROVE KeysOf(row) \subseteq DOMAIN shown
  <2>1. PICK one \in last : Id(one) = Id(row)
    BY DEF OneRowOfEach, SameId
  <2>2. Id(row) \in Ids(last)
    BY <2>1 DEF Ids
  <2> QED
    BY <1>1, <1>2, <2>2
<1>4. ASSUME NEW k \in DOMAIN shown
      PROVE  \E row \in rows : k \in KeysOf(row) /\ shown[k] = row[1]
  <2>1. PICK one \in last : k = Id(one)
    BY <1>1, <1>4 DEF Ids
  <2>2. PICK row : row = RowOf(k, last)
    OBVIOUS
  <2>3. row \in last /\ Id(row) = k
    BY <2>1, <2>2, RowOfIs
  <2>4. shown[k] = row[1]
    BY <1>1, <1>4, <2>2
  <2> QED
    BY <1>2, <2>3, <2>4 DEF OneRowOfEach
<1> QED
  BY <1>1, <1>3, <1>4 DEF Inserts, MarketRows, EventRows

LEMMA OutcomeInserts ==
  ASSUME dimension = "outcome", NEW rows, NEW last, OneRowOfEach(last, rows)
  PROVE  Inserts(rows, OutcomeRows(rows, last))
<1> DEFINE keys == UNION {{Id(row)} \X (1..Tokens[row[1]]) : row \in rows}
           With(k) == {row \in rows : Id(row) = k[1] /\ k[2] <= Tokens[row[1]]}
           with == [k \in keys |-> With(k)]
<1>1. PICK shown : shown = [k \in DOMAIN with |->
                              IF RowOf(k[1], last) \in with[k] THEN RowOf(k[1], last)[1]
                              ELSE (CHOOSE row \in with[k] : TRUE)[1]]
  OBVIOUS
<1>2. OutcomeRows(rows, last) = shown
  BY <1>1 DEF OutcomeRows
<1>3. \A row : KeysOf(row) = {Id(row)} \X (1..Tokens[row[1]])
  BY DEF KeysOf
<1>4. DOMAIN shown = keys
  BY <1>1
<1>5. \A row \in rows : KeysOf(row) \subseteq DOMAIN shown
  BY <1>3, <1>4
<1>6. ASSUME NEW k \in DOMAIN shown
      PROVE  \E row \in rows : k \in KeysOf(row) /\ shown[k] = row[1]
  <2>1. PICK r \in rows : k \in {Id(r)} \X (1..Tokens[r[1]])
    BY <1>4, <1>6
  <2>2. k = <<k[1], k[2]>> /\ k[1] = Id(r) /\ k[2] \in 1..Tokens[r[1]]
    BY <2>1
  <2>3. k[2] \in Int /\ 1 <= k[2] /\ k[2] <= Tokens[r[1]]
    BY <2>2
  <2>4. r \in With(k)
    BY <2>2, <2>3
  <2>5. PICK row \in With(k) : shown[k] = row[1]
    <3>1. with[k] = With(k) /\ DOMAIN with = keys
      BY <1>4, <1>6
    <3> HIDE DEF with, With, keys
    <3>2. shown[k] = IF RowOf(k[1], last) \in with[k] THEN RowOf(k[1], last)[1]
                     ELSE (CHOOSE row \in with[k] : TRUE)[1]
      BY <1>1, <1>4, <1>6, <3>1
    <3>3. \E row \in with[k] : TRUE
      BY <2>4, <3>1
    <3>4. (CHOOSE row \in with[k] : TRUE) \in with[k]
      BY <3>3
    <3>5. CASE RowOf(k[1], last) \in with[k]
      <4>1. PICK row : row = RowOf(k[1], last)
        OBVIOUS
      <4>2. row \in With(k) /\ shown[k] = row[1]
        BY <3>1, <3>2, <3>5, <4>1
      <4> QED
        BY <4>2
    <3>6. CASE RowOf(k[1], last) \notin with[k]
      <4>1. PICK row : row = CHOOSE r1 \in with[k] : TRUE
        OBVIOUS
      <4>2. row \in With(k) /\ shown[k] = row[1]
        BY <3>1, <3>2, <3>4, <3>6, <4>1
      <4> QED
        BY <4>2
    <3> QED
      BY <3>5, <3>6
  <2>6. row \in rows /\ Id(row) = k[1] /\ k[2] <= Tokens[row[1]]
    BY <2>5
  <2>7. k[2] \in 1..Tokens[row[1]]
    BY <2>3, <2>6
  <2>8. k \in {Id(row)} \X (1..Tokens[row[1]])
    BY <2>2, <2>6, <2>7
  <2> QED
    BY <1>3, <2>5, <2>6, <2>8
<1> QED
  BY <1>2, <1>5, <1>6 DEF Inserts

LEMMA InsertIs ==
  ASSUME NEW shown, Insert(shown)
  PROVE  /\ \A k \in DOMAIN shown : k \in DOMAIN dim' /\ dim'[k] = shown[k]
         /\ \A k \in DOMAIN dim : k \in DOMAIN dim' /\ (k \notin DOMAIN shown => dim'[k] = dim[k])
BY DEF Insert

LEMMA OnlyRowOfId ==
  ASSUME NEW rows, ~Duplicates(rows), NEW p \in rows, NEW q \in rows, SameId(p, q)
  PROVE  p = q
BY DEF Duplicates

(* What a batch inserts for the key of a row is as late as that row, if    *)
(* the load has a row as late and none twice.                              *)
LEMMA BatchIsLate ==
  ASSUME NEW w \in Nat, NEW all \in SUBSET RowsUpTo(w), ~Duplicates(all),
         NEW rows \in SUBSET all, NEW shown, Inserts(rows, shown),
         NEW row \in RowsUpTo(w), NEW late \in all, AsLate(late, row),
         NEW k \in KeysOf(row), k \in DOMAIN shown
  PROVE  Bronze[shown[k]].time >= Time(row)
<1>1. PICK new \in rows : k \in KeysOf(new) /\ shown[k] = new[1]
  BY DEF Inserts
<1>2. SameId(new, row)
  BY <1>1, KeysShareId
<1>3. new = late
  BY <1>2, OnlyRowOfId DEF AsLate, SameId
<1> QED
  BY <1>1, <1>3 DEF AsLate, Time

LEMMA StreamBatchInserts ==
  ASSUME NEW j \in Jobs, NEW f, StreamBatch(j, f)
  PROVE  \E shown : Insert(shown) /\ Inserts(f.rows, shown)
<1>1. \A last \in OneOfEach(f.rows) : OneRowOfEach(last, f.rows)
  BY DEF OneOfEach, OneRowOfEach
<1>2. CASE LoadMarketStreaming(j, f)
  <2>1. PICK last \in OneOfEach(f.rows) : Insert(MarketRows(last))
    BY <1>2 DEF LoadMarketStreaming
  <2> QED
    BY <1>1, <1>2, <2>1, MarketInserts DEF LoadMarketStreaming
<1>3. CASE LoadEventStreaming(j, f)
  <2>1. PICK last \in OneOfEach(f.rows) : Insert(EventRows(last))
    BY <1>3 DEF LoadEventStreaming
  <2> QED
    BY <1>1, <1>3, <2>1, MarketInserts DEF LoadEventStreaming
<1>4. CASE LoadOutcomeStreaming(j, f)
  <2>1. PICK last \in OneOfEach(f.rows) : Insert(OutcomeRows(f.rows, last))
    BY <1>4 DEF LoadOutcomeStreaming
  <2> QED
    BY <1>1, <1>4, <2>1, OutcomeInserts DEF LoadOutcomeStreaming
<1> QED
  BY <1>2, <1>3, <1>4 DEF StreamBatch

LEMMA WholeInserts ==
  ASSUME NEW j \in Jobs, WholeLoad(j), dimension \in {"market", "event", "outcome"}
  PROVE  \E shown : /\ Insert(shown)
                    /\ Inserts(Latest(RowsIn(load[j].scan)), shown)
<1>1. PICK rows : rows = Latest(RowsIn(load[j].scan))
  OBVIOUS
<1>2. OneRowOfEach(rows, rows)
  BY DEF OneRowOfEach, SameId
<1>3. CASE LoadMarket(j)
  <2>1. dimension = "market" /\ Insert(MarketRows(rows))
    BY <1>1, <1>3 DEF LoadMarket, ReadSilverMarkets
  <2> QED
    BY <1>1, <1>2, <2>1, MarketInserts
<1>4. CASE LoadEvent(j)
  <2>1. dimension = "event" /\ Insert(EventRows(rows))
    BY <1>1, <1>4 DEF LoadEvent, ReadSilverEvents
  <2> QED
    BY <1>1, <1>2, <2>1, MarketInserts
<1>5. CASE LoadOutcome(j)
  <2>1. dimension = "outcome" /\ Insert(OutcomeRows(rows, rows))
    BY <1>1, <1>5 DEF LoadOutcome, ReadSilverMarkets
  <2> QED
    BY <1>1, <1>2, <2>1, OutcomeInserts
<1> QED
  BY <1>3, <1>4, <1>5 DEF WholeLoad, LoadWallet, LoadCategory

LEMMA KeptTransitive ==
  ASSUME NEW w \in Nat, NEW p \in SUBSET RowsUpTo(w), NEW q \in SUBSET RowsUpTo(w),
         NEW r \in SUBSET RowsUpTo(w), Kept(p, q), Kept(q, r)
  PROVE  Kept(p, r)
<1> SUFFICES ASSUME NEW row \in p PROVE \E new \in r : AsLate(new, row)
  BY DEF Kept
<1>1. PICK mid \in q : AsLate(mid, row)
  BY DEF Kept
<1>2. PICK new \in r : AsLate(new, mid)
  BY DEF Kept
<1> QED
  BY <1>1, <1>2, AsLateTransitive

(* DimensionLatest for one row.                                            *)
ShownOrGone(row) ==
  \A k \in KeysOf(row) :
    \/ k \in DOMAIN dim /\ Bronze[dim[k]].time >= Time(row)
    \/ \E other \in loaded : AsLate(other, row) /\ k \notin KeysOf(other)

LEMMA LatestRestated ==
  (/\ dimension \in {"market", "event", "outcome"}
   /\ Quiet(events)) =>
     (DimensionLatest <=> \A row \in loaded : ShownOrGone(row))
<1>1. Quiet(events) <=> events \cap {"overwrite", "older"} = {}
  BY DEF Quiet
<1> QED
  BY <1>1 DEF DimensionLatest, ShownOrGone, AsLate

LEMMA LoadedRows ==
  ASSUME TableInv, LoadInv, NEW j \in Jobs
  PROVE  /\ loaded \subseteq RowsUpTo(writes) /\ writes \in Nat
         /\ RowsIn(current.files) \subseteq RowsUpTo(writes)
         /\ RowsIn(load[j].files) \subseteq RowsUpTo(writes)
BY RowsOfFiles DEF TableInv, LoadInv

(* A step of the table, or one that touches no dimension.                  *)
LEMMA DimensionStill ==
  ASSUME TableInv, KeepInv, LoadInv, DimensionInv, [Next]_vars, UNCHANGED dimVars
  PROVE  DimensionInv'
<1> SUFFICES ASSUME dimension' \in {"market", "event", "outcome"}, Quiet(events')
             PROVE  DimensionInv'
  BY DEF DimensionInv
<1>1. UNCHANGED <<dimension, dim, load, loaded>>
  BY DEF dimVars
<1>2. Quiet(events) /\ Kept(RowsIn(current.files), RowsIn(current'.files))
  BY StepKeepsRows
<1>3. writes \in Nat /\ writes' \in Nat /\ RowsUpTo(writes) \subseteq RowsUpTo(writes')
  <2>1. writes \in Nat
    BY DEF TableInv
  <2> QED
    BY <2>1, StepWrites, MoreRows
<1>4. RowsIn(current'.files) \subseteq RowsUpTo(writes')
  <2>1. TableInv'
    BY TableStep
  <2>2. AreFiles(current'.files, writes')
    BY <2>1 DEF TableInv
  <2> QED
    BY <2>2, RowsOfFiles
<1>5. /\ loaded \subseteq RowsUpTo(writes')
      /\ RowsIn(current.files) \subseteq RowsUpTo(writes')
      /\ \A j \in Jobs : RowsIn(load[j].files) \subseteq RowsUpTo(writes')
  <2>1. RowsIn(current.files) \subseteq RowsUpTo(writes)
    BY RowsOfFiles DEF TableInv
  <2>2. \A j \in Jobs : RowsIn(load[j].files) \subseteq RowsUpTo(writes)
    BY RowsOfFiles DEF LoadInv
  <2>3. loaded \subseteq RowsUpTo(writes)
    BY DEF LoadInv
  <2> QED
    BY <1>3, <2>1, <2>2, <2>3
<1>6. /\ DimensionLatest
      /\ Kept(loaded, RowsIn(current.files))
      /\ \A j \in Jobs : Reading(j) =>
           /\ Kept(loaded, RowsIn(load[j].files))
           /\ Kept(RowsIn(load[j].files), RowsIn(current.files))
      /\ \A j \in Jobs : Clear(j) =>
           \A row \in RowsIn(load[j].files \ load[j].scan) : Shown(row)
  BY <1>1, <1>2 DEF DimensionInv
<1>7. Kept(loaded, RowsIn(current'.files))
  BY <1>2, <1>3, <1>4, <1>5, <1>6, KeptTransitive
<1>8. \A j \in Jobs : Reading(j) => Kept(RowsIn(load[j].files), RowsIn(current'.files))
  <2> SUFFICES ASSUME NEW j \in Jobs, Reading(j)
               PROVE  Kept(RowsIn(load[j].files), RowsIn(current'.files))
    OBVIOUS
  <2>1. RowsIn(load[j].files) \subseteq RowsUpTo(writes')
    BY <1>5
  <2>2. Kept(RowsIn(load[j].files), RowsIn(current.files))
    BY <1>6
  <2> QED
    BY <1>2, <1>3, <1>4, <1>5, <2>1, <2>2, KeptTransitive
<1>9. DimensionLatest'
  <2>1. \A row : KeysOf(row)' = KeysOf(row)
    BY <1>1 DEF KeysOf
  <2>2. dimension \in {"market", "event", "outcome"}
    BY <1>1
  <2>3. \A row \in loaded : ShownOrGone(row)
    BY <1>2, <1>6, <2>2, LatestRestated
  <2> QED
    BY <1>1, <2>1, <2>3 DEF DimensionLatest, ShownOrGone, AsLate
<1>10. /\ \A j \in Jobs : Reading(j)' = Reading(j) /\ Clear(j)' = Clear(j)
       /\ \A row : Shown(row)' = Shown(row)
  BY <1>1 DEF Reading, Clear, Shown, KeysOf
<1>11. \A j \in Jobs : load'[j] = load[j]
  BY <1>1
<1> QED
  BY <1>1, <1>6, <1>7, <1>8, <1>9, <1>10, <1>11 DEF DimensionInv

LEMMA DimensionStart ==
  ASSUME TableInv, LoadInv, DimensionInv, NEW j \in Jobs, StartMove(j)
  PROVE  DimensionInv'
<1>1. UNCHANGED <<dimension, dim, events, current>>
  BY DEF StartMove, silverVars, metadata, history
<1> SUFFICES ASSUME dimension \in {"market", "event", "outcome"}, Quiet(events)
             PROVE  DimensionInv'
  BY <1>1 DEF DimensionInv
<1>2. loaded' = loaded \/ loaded' = {}
  BY DEF StartMove
<1>3. DimensionLatest /\ Kept(loaded, RowsIn(current.files))
  BY DEF DimensionInv
<1>4. DimensionLatest' /\ Kept(loaded', RowsIn(current.files))
  BY <1>1, <1>2, <1>3 DEF DimensionLatest, KeysOf, Kept
<1>5. load'[j].files = current.files /\ load'[j].scan = current.files
  BY DEF StartMove
<1>6. \A k \in Jobs : k # j => load'[k].step # "scan"
  BY DEF StartMove, LoadInv, Reading
<1>7. \A row \in RowsIn(load'[j].files \ load'[j].scan) : FALSE
  BY <1>5 DEF RowsIn
<1>8. Kept(RowsIn(current.files), RowsIn(current.files))
  BY RowsStay
<1> QED
  BY <1>1, <1>4, <1>5, <1>6, <1>7, <1>8 DEF DimensionInv, Reading, Clear

LEMMA DimensionFail ==
  ASSUME LoadInv, DimensionInv, NEW j \in Jobs, FailMove(j)
  PROVE  DimensionInv'
<1>1. UNCHANGED <<dimension, dim, current, loaded>> /\ events \subseteq events'
  BY DEF FailMove
<1> SUFFICES ASSUME dimension \in {"market", "event", "outcome"}, Quiet(events'), Quiet(events)
             PROVE  DimensionInv'
  BY <1>1 DEF DimensionInv, Quiet
<1>2. \A k \in Jobs : load'[k] = load[k] \/ load'[k] = NoLoad
  BY DEF FailMove, LoadInv
<1>3. \A k \in Jobs : load'[k].step = "scan" => load'[k] = load[k]
  BY <1>2, NoLoadIs
<1>4. DimensionLatest'
  BY <1>1 DEF DimensionInv, DimensionLatest, KeysOf
<1>5. \A row : Shown(row)' = Shown(row)
  BY <1>1 DEF Shown, KeysOf
<1> QED
  BY <1>1, <1>3, <1>4, <1>5 DEF DimensionInv, Reading, Clear

(* A batch is inserted as it comes.  If the load has two versions of an id *)
(* nothing is promised; otherwise it has one that is as late as any that   *)
(* was read before, and inserts that.                                      *)
LEMMA DimensionBatch ==
  ASSUME TableInv, LoadInv, DimensionInv, NEW j \in Jobs, NEW f, StreamBatch(j, f)
  PROVE  DimensionInv'
<1>1. ScanMove(j, f)
  BY StreamBatchMoves
<1>2. UNCHANGED <<dimension, events, current, loaded>>
  BY <1>1 DEF ScanMove, silverVars, metadata, history
<1> SUFFICES ASSUME dimension \in {"market", "event", "outcome"}, Quiet(events)
             PROVE  DimensionInv'
  BY <1>2 DEF DimensionInv
<1>3. PICK shown : Insert(shown) /\ Inserts(f.rows, shown)
  BY StreamBatchInserts
<1>4. PICK all : all = RowsIn(load[j].files)
  OBVIOUS
<1>5. Reading(j) /\ load[j].streaming /\ f \in load[j].scan /\ load[j].scan \subseteq load[j].files
  BY <1>1 DEF ScanMove, LoadInv
<1>6. f.rows \subseteq all /\ all \subseteq RowsUpTo(writes) /\ loaded \subseteq RowsUpTo(writes)
      /\ writes \in Nat
  BY <1>4, <1>5, LoadedRows DEF RowsIn
<1>7. /\ \A row \in loaded : ShownOrGone(row)
      /\ Kept(loaded, RowsIn(current.files))
      /\ Kept(loaded, all)
      /\ Kept(all, RowsIn(current.files))
  BY <1>4, <1>5, LatestRestated DEF DimensionInv
<1>8. \A k \in Jobs : k # j => load'[k] = load[k] /\ ~Reading(k)
  BY <1>1, <1>5 DEF ScanMove, LoadInv
<1>9. Duplicates(all) => loaded = {}
  BY <1>4, <1>5 DEF LoadInv, Doubtful
<1>10. ASSUME NEW row \in loaded, NEW k \in KeysOf(row)
       PROVE  \/ k \in DOMAIN dim' /\ Bronze[dim'[k]].time >= Time(row)
              \/ \E other \in loaded : AsLate(other, row) /\ k \notin KeysOf(other)
  <2>1. ~Duplicates(all)
    BY <1>9, <1>10
  <2>2. CASE k \in DOMAIN shown
    <3>1. PICK late \in all : AsLate(late, row)
      BY <1>7 DEF Kept
    <3>2. Bronze[shown[k]].time >= Time(row)
      BY <1>3, <1>6, <2>1, <2>2, <3>1, BatchIsLate
    <3> QED
      BY <1>3, <2>2, <3>2, InsertIs
  <2>3. CASE k \notin DOMAIN shown
    <3>1. \/ k \in DOMAIN dim /\ Bronze[dim[k]].time >= Time(row)
          \/ \E other \in loaded : AsLate(other, row) /\ k \notin KeysOf(other)
      BY <1>7 DEF ShownOrGone
    <3>2. k \in DOMAIN dim => k \in DOMAIN dim' /\ dim'[k] = dim[k]
      BY <1>3, <2>3, InsertIs
    <3> QED
      BY <3>1, <3>2
  <2> QED
    BY <2>2, <2>3
<1>11. DimensionLatest'
  <2>1. \A row : KeysOf(row)' = KeysOf(row)
    BY <1>2 DEF KeysOf
  <2> QED
    BY <1>2, <1>10, <2>1 DEF DimensionLatest, AsLate
<1>12. ASSUME ~Duplicates(all), NEW row \in RowsIn(load[j].files \ load'[j].scan),
              NEW k \in KeysOf(row)
       PROVE  k \in DOMAIN dim' /\ Bronze[dim'[k]].time >= Time(row)
  <2>1. row \in all
    BY <1>4, <1>12 DEF RowsIn
  <2>2. AsLate(row, row) /\ row \in RowsUpTo(writes)
    <3>1. Time(row) \in Nat
      BY <1>6, <2>1, RowFacts
    <3> QED
      BY <1>6, <2>1, <3>1 DEF AsLate, SameId
  <2>3. CASE k \in DOMAIN shown
    <3>1. Bronze[shown[k]].time >= Time(row)
      BY <1>3, <1>6, <1>12, <2>1, <2>2, <2>3, BatchIsLate
    <3> QED
      BY <1>3, <2>3, <3>1, InsertIs
  <2>4. CASE k \notin DOMAIN shown
    <3>1. row \notin f.rows
      BY <1>3, <1>12, <2>4 DEF Inserts
    <3>2. row \in RowsIn(load[j].files \ load[j].scan)
      <4>1. PICK g \in load[j].files \ load'[j].scan : row \in g.rows
        BY <1>12 DEF RowsIn
      <4>2. g # f /\ load'[j].scan = load[j].scan \ {f}
        BY <1>1, <3>1, <4>1 DEF ScanMove
      <4> QED
        BY <4>1, <4>2 DEF RowsIn
    <3>3. Clear(j)
      BY <1>4, <1>5, <1>12 DEF Clear
    <3>4. Shown(row)
      BY <3>2, <3>3 DEF DimensionInv
    <3>5. k \in DOMAIN dim /\ Bronze[dim[k]].time >= Time(row)
      BY <1>12, <3>4 DEF Shown
    <3> QED
      BY <1>3, <2>4, <3>5, InsertIs
  <2> QED
    BY <2>3, <2>4
<1>13. load'[j].files = load[j].files
  BY <1>1 DEF ScanMove
<1>14. ~Duplicates(all) => \A row \in RowsIn(load'[j].files \ load'[j].scan) : Shown(row)'
  <2>1. \A row : KeysOf(row)' = KeysOf(row)
    BY <1>2 DEF KeysOf
  <2> QED
    BY <1>12, <1>13, <2>1 DEF Shown
<1>15. \A k \in Jobs : Reading(k)' => k = j
  BY <1>8 DEF Reading
<1> QED
  BY <1>2, <1>4, <1>7, <1>11, <1>13, <1>14, <1>15 DEF DimensionInv, Clear

(* At its end a load that streamed shows all it has read, if it was clear. *)
LEMMA DimensionEndStreaming ==
  ASSUME TableInv, LoadInv, DimensionInv, NEW j \in Jobs, EndStreaming(j)
  PROVE  DimensionInv'
<1>1. EndMove(j)
  BY EndStreamingMoves
<1>2. UNCHANGED <<dimension, events, current>> /\ Reading(j)
  BY <1>1 DEF EndMove, silverVars, metadata, history
<1> SUFFICES ASSUME dimension \in {"market", "event", "outcome"}, Quiet(events)
             PROVE  DimensionInv'
  BY <1>2 DEF DimensionInv
<1>3. dim' = dim /\ load[j].streaming /\ load[j].scan = {}
  BY DEF EndStreaming
<1>4. \A k \in Jobs : ~Reading(k)'
  BY <1>1, <1>2, NoLoadIs DEF EndMove, LoadInv, Reading
<1>5. \A row : KeysOf(row)' = KeysOf(row)
  BY <1>2 DEF KeysOf
<1>6. CASE Duplicates(RowsIn(load[j].files))
  <2>1. loaded' = {}
    BY <1>1, <1>3, <1>6 DEF EndMove, Doubtful
  <2> QED
    BY <1>4, <2>1 DEF DimensionInv, DimensionLatest, Kept, Clear
<1>7. CASE ~Duplicates(RowsIn(load[j].files))
  <2>1. loaded' = RowsIn(load[j].files)
    BY <1>1, <1>7 DEF EndMove, Doubtful
  <2>2. Clear(j) /\ load[j].files \ load[j].scan = load[j].files
    BY <1>2, <1>3, <1>7 DEF Clear
  <2>3. \A row \in RowsIn(load[j].files) : Shown(row)
    BY <2>2 DEF DimensionInv
  <2>4. DimensionLatest'
    BY <1>3, <1>5, <2>1, <2>3 DEF DimensionLatest, Shown
  <2>5. Kept(loaded', RowsIn(current'.files))
    BY <1>2, <2>1 DEF DimensionInv
  <2> QED
    BY <1>4, <2>4, <2>5 DEF DimensionInv, Clear
<1> QED
  BY <1>6, <1>7

(* A load that read everything first shows the latest row of every id.     *)
LEMMA DimensionEndWhole ==
  ASSUME TableInv, LoadInv, DimensionInv, NEW j \in Jobs, WholeLoad(j)
  PROVE  DimensionInv'
<1>1. EndMove(j) /\ Whole(j)
  BY WholeMoves
<1>2. UNCHANGED <<dimension, events, current>> /\ Reading(j) /\ ~load[j].streaming
  BY <1>1 DEF EndMove, Whole, silverVars, metadata, history
<1> SUFFICES ASSUME dimension \in {"market", "event", "outcome"}, Quiet(events)
             PROVE  DimensionInv'
  BY <1>2 DEF DimensionInv
<1>3. PICK all : all = RowsIn(load[j].files)
  OBVIOUS
<1>4. load[j].scan = load[j].files
  BY <1>2 DEF LoadInv
<1>5. PICK shown : Insert(shown) /\ Inserts(Latest(all), shown)
  <2>1. PICK shown : Insert(shown) /\ Inserts(Latest(RowsIn(load[j].scan)), shown)
    BY WholeInserts
  <2> QED
    BY <1>3, <1>4, <2>1
<1>6. loaded' = all
  BY <1>1, <1>2, <1>3 DEF EndMove, Doubtful
<1>7. all \subseteq RowsUpTo(writes) /\ writes \in Nat
  BY <1>3, LoadedRows
<1>8. \A k \in Jobs : ~Reading(k)'
  BY <1>1, <1>2, NoLoadIs DEF EndMove, LoadInv, Reading
<1>9. ASSUME NEW row \in all, NEW k \in KeysOf(row)
      PROVE  \/ k \in DOMAIN dim' /\ Bronze[dim'[k]].time >= Time(row)
             \/ \E other \in all : AsLate(other, row) /\ k \notin KeysOf(other)
  <2>1. PICK last \in Latest(all) : AsLate(last, row)
    BY <1>7, LatestCovers
  <2>2. last \in all
    BY DEF Latest
  <2>3. CASE k \notin KeysOf(last)
    BY <2>1, <2>2, <2>3
  <2>4. CASE k \in KeysOf(last)
    <3>1. k \in DOMAIN shown
      BY <1>5, <2>4 DEF Inserts
    <3>2. PICK new \in Latest(all) : k \in KeysOf(new) /\ shown[k] = new[1]
      BY <1>5, <3>1 DEF Inserts
    <3>3. SameId(new, last)
      BY <2>4, <3>2, KeysShareId
    <3>4. new \in all /\ (Time(new) > Time(last) \/ Time(new) = Time(last))
      BY <2>2, <3>2, <3>3 DEF Latest
    <3>5. Time(new) \in Nat /\ Time(last) \in Nat /\ Time(row) \in Nat
      BY <1>7, <2>2, <3>4, RowFacts
    <3>6. Time(new) >= Time(row)
      BY <2>1, <3>4, <3>5 DEF AsLate
    <3>7. Bronze[shown[k]].time >= Time(row)
      BY <3>2, <3>6 DEF Time
    <3> QED
      BY <1>5, <3>1, <3>7, InsertIs
  <2> QED
    BY <2>3, <2>4
<1>10. DimensionLatest'
  <2>1. \A row : KeysOf(row)' = KeysOf(row)
    BY <1>2 DEF KeysOf
  <2> QED
    BY <1>6, <1>9, <2>1 DEF DimensionLatest, AsLate
<1>11. Kept(loaded', RowsIn(current'.files))
  BY <1>2, <1>3, <1>6 DEF DimensionInv
<1> QED
  BY <1>8, <1>10, <1>11 DEF DimensionInv, Clear

(* A counting load of other dimensions.                                    *)
LEMMA DimensionOther ==
  ASSUME DimensionInv, dimension' = dimension, dimension \notin {"market", "event", "outcome"}
  PROVE  DimensionInv'
BY DEF DimensionInv

LEMMA DimensionStep ==
  ASSUME TableInv, KeepInv, LoadInv, DimensionInv, [Next]_vars
  PROVE  DimensionInv'
<1>1. CASE UNCHANGED dimVars
  BY <1>1, DimensionStill
<1>2. ASSUME NEW j \in Jobs, NEW streaming \in BOOLEAN, StartLoad(j, streaming)
      PROVE  DimensionInv'
  BY <1>2, StartLoadMoves, DimensionStart
<1>3. ASSUME NEW j \in Jobs, NEW f \in load[j].scan, StreamBatch(j, f) PROVE DimensionInv'
  BY <1>3, DimensionBatch
<1>4. ASSUME NEW j \in Jobs, NEW f \in load[j].scan, CountBatch(j, f) PROVE DimensionInv'
  <2>1. dimension \in {"wallet", "category"} /\ dimension' = dimension
    BY <1>4 DEF CountBatch, LoadWalletStreaming, LoadCategoryStreaming, Batch
  <2> QED
    BY <2>1, DimensionOther
<1>5. ASSUME NEW j \in Jobs, EndStreaming(j) \/ WholeLoad(j) \/ FailLoad(j) PROVE DimensionInv'
  BY <1>5, DimensionEndStreaming, DimensionEndWhole, FailLoadMoves, DimensionFail
<1> QED
  BY <1>1, <1>2, <1>3, <1>4, <1>5, LoadSteps

LEMMA DimensionInit ==
  ASSUME Init
  PROVE  DimensionInv
<1>1. load = [j \in Jobs |-> NoLoad] /\ loaded = {}
  BY DEF Init
<1>2. \A j \in Jobs : ~Reading(j)
  BY <1>1, NoLoadIs DEF Reading
<1> QED
  BY <1>1, <1>2 DEF DimensionInv, DimensionLatest, Kept, Clear

(* Of every id the last load has read, and every outcome its later         *)
(* versions have, a version as late is shown: in whatever order the        *)
(* batches come, and however many loads died before or since.              *)
THEOREM DimensionsAreLatest == Spec => []DimensionLatest
<1>1. DimensionInv => DimensionLatest
  <2> SUFFICES ASSUME DimensionInv, dimension \in {"market", "event", "outcome"},
                      events \cap {"overwrite", "older"} = {}
               PROVE  DimensionLatest
    BY DEF DimensionLatest
  <2>1. Quiet(events)
    BY DEF Quiet
  <2> QED
    BY <2>1 DEF DimensionInv
<1>2. TableInv /\ KeepInv /\ LoadInv /\ DimensionInv /\ [Next]_vars => DimensionInv'
  BY DimensionStep
<1> QED
  BY <1>1, <1>2, DimensionInit, TableIsSound, KeptAlways, LoadAlways, PTL DEF Spec


(* -------------------------- what is counted ---------------------------- *)

LEMMA CountOfSide ==
  ASSUME NEW A, IsFiniteSet(A), NEW side
  PROVE  IsFiniteSet(A \X {side}) /\ Cardinality(A \X {side}) = Cardinality(A)
<1>1. IsFiniteSet({side}) /\ Cardinality({side}) = 1
  BY FS_Singleton
<1>2. IsFiniteSet(A \X {side}) /\ Cardinality(A \X {side}) = Cardinality(A) * Cardinality({side})
  BY <1>1, FS_Product
<1>3. Cardinality(A) \in Nat
  BY FS_CardinalityType
<1>4. Cardinality(A) * 1 = Cardinality(A)
  BY <1>3
<1> QED
  BY <1>1, <1>2, <1>4

Side(rows, w, side) == {row \in rows : Wallets[row[1]][side] = w}

Seats(rows, w) == {seat \in rows \X (1..2) : Wallets[seat[1][1]][seat[2]] = w}

(* The rows of a wallet's makers and those of its takers are its seats.    *)
LEMMA SeatsAreCounted ==
  ASSUME NEW n \in Nat, NEW rows \in SUBSET RowsUpTo(n), NEW w
  PROVE  Cardinality(Side(rows, w, 1)) + Cardinality(Side(rows, w, 2)) =
         Cardinality(Seats(rows, w))
<1>0. PICK A, B, S : A = Side(rows, w, 1) /\ B = Side(rows, w, 2) /\ S = Seats(rows, w)
  OBVIOUS
<1>1. A = {row \in rows : Wallets[row[1]][1] = w}
  BY <1>0 DEF Side
<1>2. B = {row \in rows : Wallets[row[1]][2] = w}
  BY <1>0 DEF Side
<1>3. S = {seat \in rows \X (1..2) : Wallets[seat[1][1]][seat[2]] = w}
  BY <1>0 DEF Seats
<1>4. S = (A \X {1}) \cup (B \X {2})
  <2>1. ASSUME NEW seat \in S PROVE seat \in (A \X {1}) \cup (B \X {2})
    <3>1. seat \in rows \X (1..2) /\ Wallets[seat[1][1]][seat[2]] = w
      BY <1>3, <2>1
    <3>2. PICK row \in rows, side \in 1..2 : seat = <<row, side>>
      BY <3>1
    <3>3. seat[1] = row /\ seat[2] = side /\ (side = 1 \/ side = 2)
      BY <3>2
    <3> QED
      BY <1>1, <1>2, <3>1, <3>2, <3>3
  <2>2. ASSUME NEW seat \in A \X {1} PROVE seat \in S
    <3>1. PICK row \in A : seat = <<row, 1>>
      BY <2>2
    <3>2. row \in rows /\ Wallets[row[1]][1] = w /\ seat \in rows \X (1..2)
      BY <1>1, <3>1
    <3> QED
      BY <1>3, <3>1, <3>2
  <2>3. ASSUME NEW seat \in B \X {2} PROVE seat \in S
    <3>1. PICK row \in B : seat = <<row, 2>>
      BY <2>3
    <3>2. row \in rows /\ Wallets[row[1]][2] = w /\ seat \in rows \X (1..2)
      BY <1>2, <3>1
    <3> QED
      BY <1>3, <3>1, <3>2
  <2> QED
    BY <2>1, <2>2, <2>3
<1>5. IsFiniteSet(A) /\ IsFiniteSet(B)
  <2>1. A \in SUBSET RowsUpTo(n) /\ B \in SUBSET RowsUpTo(n)
    BY <1>1, <1>2
  <2> QED
    BY <2>1, RowsAreFinite
<1>6. /\ IsFiniteSet(A \X {1}) /\ Cardinality(A \X {1}) = Cardinality(A)
      /\ IsFiniteSet(B \X {2}) /\ Cardinality(B \X {2}) = Cardinality(B)
  BY <1>5, CountOfSide
<1>7. (A \X {1}) \cap (B \X {2}) = {}
  OBVIOUS
<1>8. Cardinality((A \X {1}) \cap (B \X {2})) = 0
  BY <1>7, FS_EmptySet
<1>9. Cardinality((A \X {1}) \cup (B \X {2})) =
        Cardinality(A \X {1}) + Cardinality(B \X {2}) - Cardinality((A \X {1}) \cap (B \X {2}))
  BY <1>6, FS_Union
<1>10. Cardinality(A) \in Nat /\ Cardinality(B) \in Nat
  BY <1>5, FS_CardinalityType
<1>11. Cardinality(S) = Cardinality(A) + Cardinality(B)
  BY <1>4, <1>6, <1>8, <1>9, <1>10
<1> QED
  BY <1>0, <1>11

LEMMA LatestOfSingles ==
  ASSUME NEW n \in Nat, NEW rows \in SUBSET RowsUpTo(n), ~Duplicates(rows)
  PROVE  Latest(rows) = rows
<1>1. ASSUME NEW p \in rows, NEW q \in rows, SameId(p, q)
      PROVE  Time(p) = Time(q) /\ p[2] <= q[2]
  <2>1. p = q
    BY <1>1, OnlyRowOfId
  <2>2. p[2] \in Nat
    BY RowFacts
  <2> QED
    BY <2>1, <2>2
<1> QED
  BY <1>1 DEF Latest

LEMMA OneOfEachOfSingles ==
  ASSUME NEW rows, ~Duplicates(rows), NEW new \in SUBSET rows, NEW kept \in OneOfEach(new)
  PROVE  kept = new
<1>1. kept \subseteq new /\ \A row \in new : \E one \in kept : SameId(one, row)
  BY DEF OneOfEach
<1>2. ASSUME NEW row \in new PROVE row \in kept
  <2>1. PICK one \in kept : SameId(one, row)
    BY <1>1
  <2>2. one = row
    BY <1>1, <2>1, OnlyRowOfId
  <2> QED
    BY <2>1, <2>2
<1> QED
  BY <1>1, <1>2

(* What the last load has read is counted.                                 *)
Counted(rows, shown) ==
  /\ dimension = "category" => shown = CategoryRows(Latest(rows))
  /\ dimension = "wallet" => shown = WalletRows(rows)

LEMMA CountedIsRight ==
  ASSUME NEW n \in Nat, loaded' \in SUBSET RowsUpTo(n), dimension' = dimension,
         NEW shown, Insert(shown), Counted(loaded', shown)
  PROVE  CountsRight'
<1>1. PICK rows \in SUBSET RowsUpTo(n) : rows = loaded'
  OBVIOUS
<1>2. ASSUME dimension = "category", NEW c \in {Category[row[1]] : row \in Latest(rows)}
      PROVE  /\ c \in DOMAIN dim'
             /\ dim'[c] = Cardinality({row \in Latest(rows) : Category[row[1]] = c})
  <2>1. PICK last : last = Latest(rows)
    OBVIOUS
  <2>2. shown = [d \in {Category[row[1]] : row \in last} |->
                   Cardinality({row \in last : Category[row[1]] = d})]
    BY <1>1, <1>2, <2>1 DEF Counted, CategoryRows
  <2>3. c \in DOMAIN shown /\ shown[c] = Cardinality({row \in last : Category[row[1]] = c})
    BY <1>2, <2>1, <2>2
  <2> QED
    BY <2>1, <2>3, InsertIs
<1>3. ASSUME dimension = "wallet",
             NEW w \in UNION {{Wallets[row[1]][1], Wallets[row[1]][2]} : row \in rows}
      PROVE  w \in DOMAIN dim' /\ dim'[w] = Cardinality(Seats(rows, w))
  <2>1. shown = [v \in UNION {{Wallets[row[1]][1], Wallets[row[1]][2]} : row \in rows} |->
                   Cardinality(Side(rows, v, 1)) + Cardinality(Side(rows, v, 2))]
    BY <1>1, <1>3 DEF Counted, WalletRows, Side
  <2>2. /\ w \in DOMAIN shown
        /\ shown[w] = Cardinality(Side(rows, w, 1)) + Cardinality(Side(rows, w, 2))
    BY <1>3, <2>1
  <2>3. shown[w] = Cardinality(Seats(rows, w))
    BY <2>2, SeatsAreCounted
  <2>4. w \in DOMAIN dim' /\ dim'[w] = shown[w]
    BY <2>2, InsertIs
  <2> QED
    BY <2>3, <2>4
<1>4. Latest(loaded)' = Latest(rows)
  BY <1>1 DEF Latest
<1> QED
  BY <1>1, <1>2, <1>3, <1>4 DEF CountsRight, Seats

(* Nothing has been read, or in an order that mattered.                    *)
LEMMA NothingCounted ==
  loaded = {} => CountsRight
BY DEF CountsRight, Latest

LEMMA CountsStay ==
  ASSUME CountsRight, UNCHANGED <<dimension, dim, loaded>>
  PROVE  CountsRight'
<1>1. dimension' = dimension /\ dim' = dim /\ loaded' = loaded
  OBVIOUS
<1>2. Latest(loaded)' = Latest(loaded) /\ Duplicates(loaded)' = Duplicates(loaded)
  BY <1>1 DEF Latest, Duplicates
<1> QED
  BY <1>1, <1>2, Zenon DEF CountsRight

LEMMA CountStill ==
  ASSUME CountInv, UNCHANGED dimVars
  PROVE  CountInv'
<1>1. CountsRight'
  BY CountsStay DEF CountInv, dimVars
<1> QED
  BY <1>1 DEF CountInv, dimVars, Reading, Clear

LEMMA CountStart ==
  ASSUME LoadInv, CountInv, NEW j \in Jobs, StartMove(j)
  PROVE  CountInv'
<1>1. UNCHANGED <<dimension, dim>> /\ (loaded' = loaded \/ loaded' = {})
  BY DEF StartMove
<1>2. CountsRight'
  <2>1. CASE loaded' = loaded
    BY <1>1, <2>1, CountsStay DEF CountInv
  <2>2. CASE loaded' = {}
    BY <2>2 DEF CountsRight, Latest
  <2> QED
    BY <1>1, <2>1, <2>2
<1>3. \A k \in Jobs : k # j => load'[k].step # "scan"
  BY DEF StartMove, LoadInv, Reading
<1>4. load'[j].rows = RowsIn(load'[j].files \ load'[j].scan)
  BY DEF StartMove, RowsIn
<1> QED
  BY <1>2, <1>3, <1>4 DEF CountInv, Reading

LEMMA CountFail ==
  ASSUME LoadInv, CountInv, NEW j \in Jobs, FailMove(j)
  PROVE  CountInv'
<1>1. UNCHANGED <<dimension, dim, loaded>>
  BY DEF FailMove
<1>2. CountsRight'
  BY <1>1, CountsStay DEF CountInv
<1>3. \A k \in Jobs : load'[k] = load[k] \/ load'[k] = NoLoad
  BY DEF FailMove, LoadInv
<1>4. \A k \in Jobs : load'[k].step = "scan" => load'[k] = load[k]
  BY <1>3, NoLoadIs
<1> QED
  BY <1>1, <1>2, <1>4 DEF CountInv, Reading, Clear

LEMMA CountStreamed ==
  ASSUME LoadInv, CountInv, NEW j \in Jobs, NEW f, StreamBatch(j, f)
  PROVE  CountInv'
<1>1. dimension' \notin {"wallet", "category"}
  BY DEF StreamBatch, LoadMarketStreaming, LoadOutcomeStreaming, LoadEventStreaming, Batch
<1> QED
  BY <1>1 DEF CountInv, CountsRight

(* Every batch adds its rows: of an event that the load has two versions   *)
(* of only the first.                                                      *)
LEMMA CountBatched ==
  ASSUME TableInv, LoadInv, CountInv, NEW j \in Jobs, NEW f, CountBatch(j, f)
  PROVE  CountInv'
<1>1. ScanMove(j, f)
  BY CountBatchMoves
<1>2. UNCHANGED <<dimension, loaded>> /\ Reading(j) /\ load[j].streaming /\ f \in load[j].scan
  BY <1>1 DEF ScanMove
<1>3. dim' = dim
  BY DEF CountBatch, LoadWalletStreaming, LoadCategoryStreaming
<1>4. CountsRight'
  BY <1>2, <1>3, CountsStay DEF CountInv
<1>5. \A k \in Jobs : k # j => load'[k].step # "scan"
  BY <1>1, <1>2 DEF ScanMove, LoadInv, Reading
<1>6. PICK read : read = RowsIn(load[j].files \ load[j].scan)
  OBVIOUS
<1>7. RowsIn(load'[j].files \ load'[j].scan) = read \cup f.rows
  <2>1. load'[j].files \ load'[j].scan = (load[j].files \ load[j].scan) \cup {f}
    BY <1>1, <1>2 DEF ScanMove, LoadInv
  <2>2. PICK P : P = load[j].files \ load[j].scan
    OBVIOUS
  <2>3. RowsIn(P \cup {f}) = RowsIn(P) \cup f.rows
    BY DEF RowsIn
  <2> QED
    BY <1>6, <2>1, <2>2, <2>3
<1>8. CASE LoadWalletStreaming(j, f)
  <2>1. dimension = "wallet"
    BY <1>8 DEF LoadWalletStreaming
  <2>2. load[j].rows = read
    BY <1>2, <1>6, <2>1 DEF CountInv
  <2>3. Batch(j, f) /\ Goto(j, [load[j] EXCEPT !.scan = @ \ {f}, !.rows = load[j].rows \cup f.rows])
    BY <1>8 DEF LoadWalletStreaming
  <2>4. load'[j].rows = read \cup f.rows
    BY <2>2, <2>3, CountingMoves
  <2> QED
    BY <1>4, <1>5, <1>7, <2>4 DEF CountInv, Reading
<1>9. CASE LoadCategoryStreaming(j, f)
  <2>1. PICK new : new = {row \in f.rows : Id(row) \notin Ids(load[j].rows)}
    OBVIOUS
  <2>2. PICK first \in OneOfEach(new) :
          /\ Batch(j, f)
          /\ Goto(j, [load[j] EXCEPT !.scan = @ \ {f}, !.rows = load[j].rows \cup first])
    BY <1>9, <2>1 DEF LoadCategoryStreaming
  <2>3. load'[j].rows = load[j].rows \cup first
    BY <2>2, CountingMoves
  <2>4. ASSUME Clear(j) PROVE load'[j].rows = read \cup f.rows
    <3>1. PICK all : all = RowsIn(load[j].files)
      OBVIOUS
    <3>2. ~Duplicates(all) /\ read \subseteq all /\ f.rows \subseteq all
      BY <1>2, <1>6, <2>4, <3>1 DEF Clear, LoadInv, RowsIn
    <3>3. load[j].rows = read
      BY <1>2, <1>6, <1>9, <2>4 DEF CountInv, LoadCategoryStreaming
    <3>4. first = new
      <4>1. new \in SUBSET all
        BY <2>1, <3>2
      <4> QED
        BY <3>2, <4>1, OneOfEachOfSingles
    <3>5. ASSUME NEW row \in f.rows, row \notin new PROVE row \in read
      <4>1. PICK other \in read : Id(row) = Id(other)
        BY <2>1, <3>3, <3>5 DEF Ids
      <4>2. row = other
        BY <3>2, <4>1, OnlyRowOfId DEF SameId
      <4> QED
        BY <4>1, <4>2
    <3>6. new \subseteq f.rows
      BY <2>1
    <3> QED
      BY <2>3, <3>3, <3>4, <3>5, <3>6
  <2>5. Clear(j)' => Clear(j)
    BY <1>1 DEF ScanMove, Clear, Reading
  <2>6. dimension' = "category"
    BY <1>2, <1>9 DEF LoadCategoryStreaming
  <2> QED
    BY <1>4, <1>5, <1>7, <2>4, <2>5, <2>6 DEF CountInv, Reading
<1> QED
  BY <1>8, <1>9 DEF CountBatch

(* The end of a load, whichever: without a load nothing is being counted.  *)
LEMMA CountEnds ==
  ASSUME LoadInv, NEW j \in Jobs, EndMove(j), CountsRight'
  PROVE  CountInv'
<1>1. \A k \in Jobs : load'[k].step # "scan"
  BY NoLoadIs DEF EndMove, LoadInv, Reading
<1> QED
  BY <1>1 DEF CountInv, Reading

LEMMA CountEndStreaming ==
  ASSUME TableInv, LoadInv, CountInv, NEW j \in Jobs, EndStreaming(j)
  PROVE  CountInv'
<1>1. EndMove(j) /\ load[j].streaming /\ load[j].scan = {} /\ Reading(j)
  BY EndStreamingMoves DEF EndStreaming, Reading
<1>2. dimension' = dimension
  BY <1>1 DEF EndMove
<1>3. PICK all : all = RowsIn(load[j].files)
  OBVIOUS
<1>4. all \in SUBSET RowsUpTo(writes) /\ writes \in Nat
  BY <1>3, LoadedRows
<1>5. CASE Duplicates(all)
  <2>1. loaded' = {}
    BY <1>1, <1>3, <1>5 DEF EndMove, Doubtful
  <2>2. CountsRight'
    BY <2>1 DEF CountsRight, Latest
  <2> QED
    BY <1>1, <2>2, CountEnds
<1>6. CASE ~Duplicates(all)
  <2>1. loaded' = all
    BY <1>1, <1>3, <1>6 DEF EndMove, Doubtful
  <2>2. load[j].files \ load[j].scan = load[j].files
    BY <1>1
  <2>3. Clear(j)
    BY <1>1, <1>3, <1>6 DEF Clear
  <2>4. CASE dimension = "wallet"
    <3>1. load[j].rows = all
      BY <1>1, <1>3, <2>2, <2>4 DEF CountInv
    <3>2. Insert(WalletRows(load[j].rows))
      BY <2>4 DEF EndStreaming
    <3>3. Insert(WalletRows(all)) /\ Counted(all, WalletRows(all))
      BY <2>4, <3>1, <3>2 DEF Counted
    <3>4. CountsRight'
      BY <1>2, <1>4, <2>1, <3>3, CountedIsRight
    <3> QED
      BY <1>1, <3>4, CountEnds
  <2>5. CASE dimension = "category"
    <3>1. load[j].rows = all
      BY <1>1, <1>3, <2>2, <2>3, <2>5 DEF CountInv
    <3>2. Insert(CategoryRows(load[j].rows))
      BY <2>5 DEF EndStreaming
    <3>3. Latest(all) = all
      BY <1>4, <1>6, LatestOfSingles
    <3>4. Insert(CategoryRows(all)) /\ Counted(all, CategoryRows(all))
      BY <2>5, <3>1, <3>2, <3>3 DEF Counted
    <3>5. CountsRight'
      BY <1>2, <1>4, <2>1, <3>4, CountedIsRight
    <3> QED
      BY <1>1, <3>5, CountEnds
  <2>6. CASE dimension \notin {"wallet", "category"}
    <3>1. CountsRight'
      BY <1>2, <2>6 DEF CountsRight
    <3> QED
      BY <1>1, <3>1, CountEnds
  <2> QED
    BY <2>4, <2>5, <2>6
<1> QED
  BY <1>5, <1>6

LEMMA CountEndWhole ==
  ASSUME TableInv, LoadInv, CountInv, NEW j \in Jobs, WholeLoad(j)
  PROVE  CountInv'
<1>1. EndMove(j) /\ Whole(j)
  BY WholeMoves
<1>2. dimension' = dimension /\ Reading(j) /\ ~load[j].streaming
  BY <1>1 DEF EndMove, Whole
<1>3. PICK all : all = RowsIn(load[j].files)
  OBVIOUS
<1>4. all \in SUBSET RowsUpTo(writes) /\ writes \in Nat
  BY <1>3, LoadedRows
<1>5. loaded' = all
  BY <1>1, <1>2, <1>3 DEF EndMove, Doubtful
<1>6. load[j].scan = load[j].files
  BY <1>2 DEF LoadInv
<1>7. CASE LoadWallet(j)
  <2>1. dimension = "wallet" /\ Insert(WalletRows(all))
    BY <1>3, <1>6, <1>7 DEF LoadWallet
  <2>2. Counted(all, WalletRows(all))
    BY <2>1 DEF Counted
  <2> QED
    BY <1>1, <1>2, <1>4, <1>5, <2>1, <2>2, CountedIsRight, CountEnds
<1>8. CASE LoadCategory(j)
  <2>1. dimension = "category" /\ Insert(CategoryRows(Latest(all)))
    BY <1>3, <1>6, <1>8 DEF LoadCategory, ReadSilverEvents
  <2>2. Counted(all, CategoryRows(Latest(all)))
    BY <2>1 DEF Counted
  <2> QED
    BY <1>1, <1>2, <1>4, <1>5, <2>1, <2>2, CountedIsRight, CountEnds
<1>9. CASE LoadMarket(j) \/ LoadOutcome(j) \/ LoadEvent(j)
  <2>1. dimension' \notin {"wallet", "category"}
    BY <1>2, <1>9 DEF LoadMarket, LoadOutcome, LoadEvent
  <2>2. CountsRight'
    BY <2>1 DEF CountsRight
  <2> QED
    BY <1>1, <2>2, CountEnds
<1> QED
  BY <1>7, <1>8, <1>9 DEF WholeLoad

LEMMA CountStep ==
  ASSUME TableInv, LoadInv, CountInv, [Next]_vars
  PROVE  CountInv'
<1>1. CASE UNCHANGED dimVars
  BY <1>1, CountStill
<1>2. ASSUME NEW j \in Jobs, NEW streaming \in BOOLEAN, StartLoad(j, streaming)
      PROVE  CountInv'
  BY <1>2, StartLoadMoves, CountStart
<1>3. ASSUME NEW j \in Jobs, NEW f \in load[j].scan, StreamBatch(j, f) PROVE CountInv'
  BY <1>3, CountStreamed
<1>4. ASSUME NEW j \in Jobs, NEW f \in load[j].scan, CountBatch(j, f) PROVE CountInv'
  BY <1>4, CountBatched
<1>5. ASSUME NEW j \in Jobs, EndStreaming(j) \/ WholeLoad(j) \/ FailLoad(j) PROVE CountInv'
  BY <1>5, CountEndStreaming, CountEndWhole, FailLoadMoves, CountFail
<1> QED
  BY <1>1, <1>2, <1>3, <1>4, <1>5, LoadSteps

LEMMA CountInit ==
  ASSUME Init
  PROVE  CountInv
<1>1. load = [j \in Jobs |-> NoLoad] /\ loaded = {}
  BY DEF Init
<1>2. \A j \in Jobs : ~Reading(j)
  BY <1>1, NoLoadIs DEF Reading
<1> QED
  BY <1>1, <1>2, NothingCounted DEF CountInv

(* The counts of a dimension are those of the rows the last load has read, *)
(* however its batches came: every event once, every trade for either side.*)
THEOREM CountsAreRight == Spec => []CountsRight
<1>1. CountInv => CountsRight
  BY DEF CountInv
<1>2. TableInv /\ LoadInv /\ CountInv /\ [Next]_vars => CountInv'
  BY CountStep
<1> QED
  BY <1>1, <1>2, CountInit, TableIsSound, LoadAlways, PTL DEF Spec
===============================================================================
