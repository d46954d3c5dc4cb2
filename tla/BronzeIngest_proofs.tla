-------------------------- MODULE BronzeIngest_proofs --------------------------
(***************************************************************************)
(* The Bronze ingestion for every set of processes, streams and records:   *)
(* types, that the trades of a day it has undertaken are all stored, that  *)
(* snapshots of a catalog are complete, and that what is before a cursor   *)
(* is stored.                                                              *)
(***************************************************************************)
EXTENDS BronzeIngest, TLAPS, FiniteSetTheorems, WellFoundedInduction

(* ------------------------------- numbers ------------------------------- *)

LEMMA Quotient ==
  ASSUME NEW d \in Nat \ {0}, NEW n \in Nat
  PROVE  n \div d \in Nat /\ (n + 1) \div d >= n \div d
<1>1. PICK q \in Int : q = n \div d
  OBVIOUS
<1>2. PICK r \in Int : r = n % d /\ 0 <= r /\ r < d
  OBVIOUS
<1>3. n = d * q + r
  BY <1>1, <1>2
<1>4. PICK p \in Int : p = (n + 1) \div d
  OBVIOUS
<1>5. PICK s \in Int : s = (n + 1) % d /\ 0 <= s /\ s < d
  OBVIOUS
<1>6. n + 1 = d * p + s
  BY <1>4, <1>5
<1>7. q >= 0
  BY <1>2, <1>3
<1>8. p >= q
  BY <1>2, <1>3, <1>5, <1>6
<1> QED
  BY <1>1, <1>4, <1>7, <1>8

LEMMA IntQuotient ==
  ASSUME NEW d \in Nat \ {0}, NEW n \in Int
  PROVE  n \div d \in Int
  OBVIOUS

(* A finite set of numbers has a largest one: of the sets of what is above *)
(* an element, one has no other below it.                                  *)
LEMMA Largest ==
  ASSUME NEW S \in SUBSET Int, IsFiniteSet(S), S # {}
  PROVE  \E m \in S : \A n \in S : n <= m
<1> DEFINE Above(a) == {n \in S : n > a}
           T == {Above(a) : a \in S}
<1>1. T \subseteq FiniteSubsetsOf(S) /\ T # {}
  <2>1. \A a \in S : Above(a) \in SUBSET S /\ IsFiniteSet(Above(a))
    BY FS_Subset
  <2> QED
    BY <2>1 DEF FiniteSubsetsOf
<1>2. PICK x \in T : \A y \in T : ~ (<<y, x>> \in StrictSubsetOrdering(S))
  <2> HIDE DEF T
  <2> QED
    BY <1>1, FS_StrictSubsetOrderingWellFounded, WFMin
<1>3. PICK m \in S : x = Above(m)
  OBVIOUS
<1>4. ASSUME NEW n \in S, n > m PROVE FALSE
  <2>0. m \in Int /\ n \in Int /\ \A k \in S : k \in Int
    OBVIOUS
  <2>a. \A k \in S : k > n => k > m
    BY <1>4, <2>0
  <2>b. ~(n > n)
    BY <2>0
  <2>1. Above(n) \subseteq Above(m) /\ n \in Above(m) /\ n \notin Above(n)
    BY <1>4, <2>a, <2>b
  <2>2. <<Above(n), Above(m)>> \in StrictSubsetOrdering(S)
    BY <2>1 DEF StrictSubsetOrdering
  <2> QED
    BY <1>2, <1>3, <2>2
<1> QED
  BY <1>4

LEMMA LeastExists ==
  ASSUME NEW S \in SUBSET Nat, S # {}
  PROVE  \E x \in S : \A y \in S : x <= y
<1>1. PICK x \in S : \A y \in S : <<y, x>> \notin OpToRel(<, Nat)
  BY NatLessThanWellFounded, WFMin
<1>2. ASSUME NEW y \in S, y < x PROVE FALSE
  BY <1>1, <1>2 DEF OpToRel
<1> QED
  BY <1>2

(* --------------------------------- types ------------------------------- *)

Fetching == {"page", "put", "publish"}

(* Which steps a process of a date-scoped stream has, and with which rows  *)
(* in memory.                                                              *)
DatedOK(r) ==
  /\ r.step # "source"
  /\ r.since = NoCursor
  /\ r.step = "page" => ~r.done
  /\ r.step \in {"put", "publish"} => r.done
  /\ r.step = "publish" => r.batch = {}

RunOK(r) == r \in JobRecord /\ (stream \in DateScoped => DatedOK(r))

TypeInv ==
  /\ TypeOK
  /\ IsFiniteSet(manifests)
  /\ \A j \in Jobs : RunOK(job[j])

LEMMA StreamsApart ==
  /\ Incremental \cap DateScoped = {}
  /\ "markets" \notin DateScoped /\ "events" \notin DateScoped
  /\ "trades" \notin Incremental /\ "kalshi_trades" \notin Incremental
  BY DEF Incremental, DateScoped

LEMMA Clock ==
  ASSUME TypeOK
  PROVE  /\ DayOf(now) \in Nat /\ Second(now) \in Nat /\ Days \subseteq Nat
         /\ \A t \in Nat : DayOf(t) \in Nat /\ Second(t) \in Int
         /\ \A t \in Int : Second(t) \in Int
<1>1. \A t \in Nat : DayOf(t) \in Nat
  BY Quotient, BronzeAssumption DEF DayOf
<1>2. \A t \in Int : Second(t) \in Int
  BY IntQuotient, BronzeAssumption DEF Second
<1>3. Second(now) \in Nat
  BY Quotient, BronzeAssumption DEF Second, TypeOK
<1>4. now \in Nat
  BY DEF TypeOK
<1>5. DayOf(now) \in Nat
  BY <1>1, <1>4
<1>6. Days \subseteq Nat
  BY <1>5 DEF Days
<1> QED
  BY <1>1, <1>2, <1>3, <1>5, <1>6

(* The seconds are in the order of the ticks.                              *)
LEMMA SecondsGrow ==
  ASSUME NEW s \in Nat, NEW t \in Nat, s <= t
  PROVE  Second(s) <= Second(t) /\ Second(s) \in Nat /\ Second(t) \in Nat
<1>1. SecondLength \in Nat \ {0}
  BY BronzeAssumption
<1>2. PICK a \in Int : a = s \div SecondLength
  BY <1>1
<1>3. PICK b \in Int : b = s % SecondLength /\ 0 <= b /\ b < SecondLength
  BY <1>1
<1>4. s = SecondLength * a + b
  BY <1>1, <1>2, <1>3
<1>5. PICK c \in Int : c = t \div SecondLength
  BY <1>1
<1>6. PICK d \in Int : d = t % SecondLength /\ 0 <= d /\ d < SecondLength
  BY <1>1
<1>7. t = SecondLength * c + d
  BY <1>1, <1>5, <1>6
<1>8. a <= c
  BY <1>1, <1>3, <1>4, <1>6, <1>7
<1>9. s \div SecondLength \in Nat /\ t \div SecondLength \in Nat
  BY <1>1, Quotient
<1> QED
  BY <1>2, <1>5, <1>8, <1>9 DEF Second

LEMMA VersionsTyped ==
  ASSUME TypeOK
  PROVE  /\ Versions \subseteq VersionSet /\ IsFiniteSet(Versions)
         /\ \A r : Answer(r) \subseteq Versions /\ Page(r) \subseteq Answer(r)
         /\ \A r : IsFiniteSet(Answer(r)) /\ IsFiniteSet(Page(r))
<1>1. \A r \in Present : r \in Records /\ updated[r] \in Nat
  BY DEF Present, TypeOK
<1>2. Versions \subseteq VersionSet
  BY <1>1 DEF Versions, VersionSet
<1>3. IsFiniteSet(Versions)
  <2>1. IsFiniteSet(Present)
    <3>1. Present \subseteq Records
      BY DEF Present
    <3> QED
      BY <3>1, FS_Subset, BronzeAssumption
  <2> DEFINE f == [r \in Present |-> <<r, updated[r]>>]
  <2>2. f \in Surjection(Present, Versions)
    BY DEF Surjection, Versions
  <2> QED
    BY <2>1, <2>2, FS_Surjection
<1>4. \A r : Answer(r) \subseteq Versions /\ Page(r) \subseteq Answer(r)
  BY DEF Answer, Page
<1>5. \A r : IsFiniteSet(Answer(r)) /\ IsFiniteSet(Page(r))
  <2>1. ASSUME NEW S, S \subseteq Versions PROVE IsFiniteSet(S)
    BY <1>3, <2>1, FS_Subset
  <2> QED
    BY <1>4, <2>1
<1> QED
  BY <1>2, <1>3, <1>4, <1>5

(* The latest change of a run and of the rows it takes in.                 *)
LEMMA LatestIs ==
  ASSUME NEW top \in Int, NEW rows \in SUBSET VersionSet, IsFiniteSet(rows)
  PROVE  /\ Latest(top, rows) = top \/ \E v \in rows : Latest(top, rows) = v[2]
         /\ top <= Latest(top, rows) /\ \A v \in rows : v[2] <= Latest(top, rows)
<1> DEFINE ticks == {v[2] : v \in rows} \cup {top}
<1>1. ticks \subseteq Int /\ ticks # {}
  BY DEF VersionSet
<1>2. IsFiniteSet(ticks)
  <2>1. IsFiniteSet({v[2] : v \in rows})
    <3> DEFINE f == [v \in rows |-> v[2]]
    <3>1. f \in Surjection(rows, {v[2] : v \in rows})
      BY DEF Surjection
    <3> QED
      BY <3>1, FS_Surjection
  <2> QED
    BY <2>1, FS_AddElement
<1>3. \E t \in ticks : \A u \in ticks : u <= t
  <2> HIDE DEF ticks
  <2> QED
    BY <1>1, <1>2, Largest
<1>4. PICK t \in ticks : t = Latest(top, rows) /\ \A u \in ticks : u <= t
  <2> DEFINE c == CHOOSE t \in ticks : \A u \in ticks : u <= t
  <2>1. c \in ticks /\ \A u \in ticks : u <= c
    <3> HIDE DEF ticks
    <3> QED
      BY <1>3
  <2>2. c = Latest(top, rows)
    BY DEF Latest
  <2> QED
    BY <2>1, <2>2
<1> QED
  BY <1>4

LEMMA LatestTyped ==
  ASSUME NEW top \in Int, NEW rows \in SUBSET VersionSet, IsFiniteSet(rows)
  PROVE  Latest(top, rows) \in Int
  BY LatestIs DEF VersionSet

(* The records a process may have next.                                    *)
LEMMA IngestTyped ==
  ASSUME TypeOK, NEW command \in Commands, NEW dt \in Nat, NEW last \in Nat, NEW since \in Int,
         NEW all \in BOOLEAN
  PROVE  /\ Ingest(command, dt, last, since, all) \in JobRecord
         /\ since = NoCursor => DatedOK(Ingest(command, dt, last, since, all))
<1>1. runs + 1 \in Nat
  BY BronzeAssumption DEF TypeOK
<1> QED
  BY <1>1, BronzeAssumption DEF Ingest, JobRecord, Steps, VersionSet, NoTick, NoCursor, DatedOK

LEMMA IdleTyped == IdleJob \in JobRecord /\ DatedOK(IdleJob) /\ IdleJob.step = "idle"
  BY BronzeAssumption DEF IdleJob, JobRecord, Steps, Commands, NoTick, NoCursor, DatedOK

LEMMA FetchedTyped ==
  ASSUME TypeOK, NEW r \in JobRecord, NEW rows \in SUBSET Page(r), NEW done \in BOOLEAN,
         NEW step \in Steps
  PROVE  Fetched(r, rows, done, step) \in JobRecord
<1>1. rows \subseteq VersionSet /\ IsFiniteSet(rows)
  BY VersionsTyped, FS_Subset
<1>2. r.top \in Int /\ r.offset \in Nat /\ r.batch \subseteq VersionSet
  BY DEF JobRecord
<1>3. Latest(r.top, rows) \in Int
  BY <1>1, <1>2, LatestTyped
<1>4. r.offset + PageSize \in Nat
  BY <1>2, BronzeAssumption
<1> QED
  BY <1>1, <1>2, <1>3, <1>4, BronzeAssumption DEF Fetched, JobRecord

(* What a process leaves as it is while it goes on.                        *)
LEMMA JobUpdate ==
  ASSUME TypeInv, NEW j \in Jobs, NEW r, job' = [job EXCEPT ![j] = r]
  PROVE  /\ job'[j] = r /\ \A i \in Jobs \ {j} : job'[i] = job[i]
         /\ r \in JobRecord => job' \in [Jobs -> JobRecord]
  BY DEF TypeInv, TypeOK

(* A process goes on with a record that is well typed.                     *)
Advances(j) == \E r : RunOK(r) /\ job' = [job EXCEPT ![j] = r]

LEMMA BeginAdvances ==
  ASSUME TypeOK, NEW j \in Jobs, NEW command \in Commands, NEW dt \in Nat, NEW last \in Nat,
         NEW since \in Int, NEW all \in BOOLEAN, stream \in DateScoped => since = NoCursor,
         Begin(j, Ingest(command, dt, last, since, all))
  PROVE  Advances(j) /\ runs' \in 0..MaxRuns
<1>1. RunOK(Ingest(command, dt, last, since, all))
  BY IngestTyped DEF RunOK
<1>2. runs' \in 0..MaxRuns
  BY BronzeAssumption DEF Begin, TypeOK
<1> QED
  BY <1>1, <1>2 DEF Begin, Advances

LEMMA StopAdvances ==
  ASSUME NEW j \in Jobs, job' = [job EXCEPT ![j] = IdleJob]
  PROVE  Advances(j)
  BY IdleTyped DEF Advances, RunOK

LEMMA NextDayAdvances ==
  ASSUME TypeInv, NEW j \in Jobs, NextDay(j)
  PROVE  Advances(j) /\ runs' \in 0..MaxRuns
<1>0. TypeOK /\ job[j] \in JobRecord
  BY DEF TypeInv, RunOK
<1>1. CASE job[j].dt < job[j].last
  <2>1. /\ job[j].command \in Commands /\ job[j].dt + 1 \in Nat /\ job[j].last \in Nat
        /\ NoCursor \in Int
    BY <1>0 DEF JobRecord, NoCursor
  <2>2. Begin(j, Ingest(job[j].command, job[j].dt + 1, job[j].last, NoCursor, FALSE))
    BY <1>1 DEF NextDay
  <2> QED
    BY <1>0, <2>1, <2>2, BeginAdvances
<1>2. CASE ~(job[j].dt < job[j].last)
  BY <1>0, <1>2, StopAdvances DEF NextDay, TypeOK
<1> QED
  BY <1>1, <1>2

(* The commands and what they begin with.                                  *)
LEMMA CommandAdvances ==
  ASSUME TypeInv, NEW j \in Jobs, Command(j) \/ Plan(j)
  PROVE  Advances(j) /\ runs' \in 0..MaxRuns /\ due' \subseteq Int
<1>0. TypeOK /\ job[j] \in JobRecord /\ RunOK(job[j]) /\ DayOf(now) \in Nat /\ Days \subseteq Nat
  BY Clock DEF TypeInv, RunOK
<1>a. runs \in 0..MaxRuns /\ due \subseteq Int /\ NoCursor \in Int
  BY <1>0 DEF TypeOK, NoCursor
<1>1. ASSUME NEW c \in {"catchup", "full"}, StartCatchup(j, c)
      PROVE  Advances(j) /\ runs' \in 0..MaxRuns /\ due' \subseteq Int
  <2> DEFINE r == [IdleJob EXCEPT !.step = "partition", !.command = c, !.last = DayOf(now)]
  <2>1. r \in JobRecord /\ DatedOK(r)
    BY <1>0, IdleTyped DEF JobRecord, Steps, Commands, DatedOK, IdleJob
  <2>2. job' = [job EXCEPT ![j] = r]
    BY <1>1 DEF StartCatchup
  <2> HIDE DEF r
  <2>3. runs' = runs /\ due' = due
    BY <1>1 DEF StartCatchup, bronze, history
  <2> QED
    BY <1>a, <2>1, <2>2, <2>3 DEF Advances, RunOK
<1>2. CASE CatchupDays(j)
  <2>1. CASE Stop(j)
    BY <1>a, <2>1, StopAdvances DEF Stop
  <2>2. CASE \E d, latest \in Nat :
               /\ Begin(j, Ingest("catchup", d, job[j].last, NoCursor, FALSE))
               /\ Undertake({e \in Days : latest < e /\ e <= job[j].last})
    <3>1. PICK d, latest \in Nat :
               /\ Begin(j, Ingest("catchup", d, job[j].last, NoCursor, FALSE))
               /\ Undertake({e \in Days : latest < e /\ e <= job[j].last})
      BY <2>2
    <3>2. "catchup" \in Commands /\ job[j].last \in Nat
      BY <1>0 DEF Commands, JobRecord
    <3>a. {e \in Days : latest < e /\ e <= job[j].last} \subseteq Int
      <4>1. \A e \in Days : e \in Int
        BY <1>0
      <4> QED
        BY <4>1, Zenon
    <3>3. due' \subseteq Int
      BY <1>a, <3>1, <3>a DEF Undertake
    <3> QED
      BY <1>0, <1>a, <3>1, <3>2, <3>3, BeginAdvances
  <2>3. LatestPartition \subseteq Nat
    BY <1>0 DEF LatestPartition, Partitions, TypeOK, PartRecord, ManifestRecord
  <2>4. \A latest, today : MissingDays(latest, today) \subseteq Nat
    BY <1>0 DEF MissingDays
  <2> QED
    BY <1>2, <2>1, <2>2, <2>3, <2>4 DEF CatchupDays
<1>3. ASSUME NEW c \in Commands, Begin(j, Snapshot(c)), stream \notin DateScoped, due' = due
      PROVE  Advances(j) /\ runs' \in 0..MaxRuns /\ due' \subseteq Int
  BY <1>0, <1>a, <1>3, BeginAdvances DEF Snapshot
<1>4. CASE CatchupFull(j)
  <2>1. "full" \in Commands
    BY DEF Commands
  <2> QED
    BY <1>3, <1>4, <1>a, <2>1, StopAdvances DEF CatchupFull, Stop
<1>5. CASE CatchupCatalog(j)
  <2>1. CASE Begin(j, Snapshot("catchup"))
    <3>1. "catchup" \in Commands
      BY DEF Commands
    <3> QED
      BY <1>3, <1>5, <2>1, <3>1 DEF CatchupCatalog, history
  <2>2. CASE \E latest \in LatestPartition :
               job' = [job EXCEPT ![j].step = "source", ![j].dt = latest]
    <3>1. PICK latest \in LatestPartition :
               job' = [job EXCEPT ![j].step = "source", ![j].dt = latest]
      BY <2>2
    <3> DEFINE r == [job[j] EXCEPT !.step = "source", !.dt = latest]
    <3>2. latest \in Nat
      BY <1>0 DEF LatestPartition, Partitions, TypeOK, PartRecord, ManifestRecord
    <3>3. r \in JobRecord
      BY <1>0, <3>2 DEF JobRecord, Steps
    <3>4. job' = [job EXCEPT ![j] = r]
      BY <1>0, <3>1 DEF TypeOK
    <3> HIDE DEF r
    <3>5. Advances(j)
      BY <1>5, <3>3, <3>4 DEF Advances, RunOK, CatchupCatalog
    <3>6. runs' = runs /\ due' = due
      BY <1>0, <1>5, <2>2 DEF CatchupCatalog, history, Begin, Snapshot, TypeOK
    <3> QED
      BY <1>a, <3>5, <3>6
  <2> QED
    BY <1>5, <2>1, <2>2 DEF CatchupCatalog
<1>6. CASE FindSource(j)
  <2>1. stream \notin DateScoped
    BY <1>0, <1>6 DEF FindSource, RunOK, DatedOK
  <2>2. "catchup" \in Commands /\ due' = due
    BY <1>6 DEF Commands, FindSource, history
  <2>3. CASE Begin(j, Snapshot("catchup"))
    BY <1>3, <2>1, <2>2, <2>3
  <2>4. CASE \E m \in manifests : Begin(j, Ingest("catchup", job[j].last, job[j].last, m.cursor, TRUE))
    <3>1. PICK m \in manifests : Begin(j, Ingest("catchup", job[j].last, job[j].last, m.cursor, TRUE))
      BY <2>4
    <3>2. m.cursor \in Int /\ job[j].last \in Nat
      BY <1>0 DEF TypeOK, ManifestRecord, JobRecord
    <3> QED
      BY <1>0, <1>a, <2>1, <2>2, <3>1, <3>2, BeginAdvances
  <2> QED
    BY <1>6, <2>3, <2>4 DEF FindSource, NewestIn
<1>7. ASSUME NEW from \in Days, NEW last \in Days, BackfillRun(j, from, last)
      PROVE  Advances(j) /\ runs' \in 0..MaxRuns /\ due' \subseteq Int
  <2>1. "backfill" \in Commands /\ from \in Nat /\ last \in Nat
    BY <1>0 DEF Commands
  <2>2. CASE stream \in DateScoped
    <3>1. Begin(j, Ingest("backfill", from, last, NoCursor, FALSE)) /\ Undertake(from..last)
      BY <1>7, <2>2 DEF BackfillRun
    <3>a. from..last \subseteq Int
      OBVIOUS
    <3>2. due' \subseteq Int
      BY <1>a, <3>1, <3>a DEF Undertake
    <3> QED
      BY <1>0, <1>a, <2>1, <3>1, <3>2, BeginAdvances
  <2>3. CASE stream \notin DateScoped
    BY <1>3, <1>7, <2>1, <2>3 DEF BackfillRun
  <2> QED
    BY <2>2, <2>3
<1>8. ASSUME NEW dt \in Days, IngestCommand(j, dt)
      PROVE  Advances(j) /\ runs' \in 0..MaxRuns /\ due' \subseteq Int
  <2>1. "ingest" \in Commands /\ dt \in Nat
    BY <1>0 DEF Commands
  <2>2. Begin(j, Ingest("ingest", dt, dt, NoCursor, TRUE)) /\ due' = due
    BY <1>8 DEF IngestCommand, IngestPolymarketCatalog, IngestKalshiCatalog, IngestKalshiTrades,
                FullIngest, history
  <2> QED
    BY <1>0, <1>a, <2>1, <2>2, BeginAdvances
<1>9. CASE Command(j)
  BY <1>1, <1>7, <1>8, <1>9 DEF Command
<1>10. CASE Plan(j)
  BY <1>2, <1>4, <1>5, <1>6, <1>10 DEF Plan
<1> QED
  BY <1>9, <1>10

(* Fetching and storing.                                                   *)
LEMMA TakeAdvances ==
  ASSUME TypeInv, NEW j \in Jobs, NEW rows \in SUBSET Page(job[j]), NEW done \in BOOLEAN,
         NEW step \in {"page", "put", "publish"}, Take(j, rows, done, step),
         stream \in DateScoped => step = IF done THEN "put" ELSE "page"
  PROVE  Advances(j)
<1>0. TypeOK /\ job[j] \in JobRecord /\ RunOK(job[j])
  BY DEF TypeInv, RunOK
<1> DEFINE r == Fetched(job[j], rows, done, step)
<1>1. r \in JobRecord
  BY <1>0, FetchedTyped DEF Steps
<1>2. r.step = step /\ r.done = done /\ r.since = job[j].since
  BY DEF Fetched
<1>3. job' = [job EXCEPT ![j] = r]
  BY DEF Take
<1> HIDE DEF r
<1>4. stream \in DateScoped => DatedOK(r)
  BY <1>0, <1>2 DEF DatedOK, RunOK
<1> QED
  BY <1>1, <1>3, <1>4 DEF Advances, RunOK

LEMMA FirstLookTyped ==
  ASSUME TypeOK, NEW r, FirstLook(r)
  PROVE  known' \in [1..MaxRuns -> SUBSET Records] /\ due' \subseteq Int
<1>1. Present \subseteq Records
  BY DEF Present
<1>2. known \in [1..MaxRuns -> SUBSET Records] /\ due \subseteq Int
  BY DEF TypeOK
<1> QED
  BY <1>1, <1>2 DEF FirstLook

LEMMA FetchAdvances ==
  ASSUME TypeInv, NEW j \in Jobs, Fetch(j)
  PROVE  Advances(j) /\ FirstLook(job[j])
<1>0. TypeOK /\ job[j] \in JobRecord /\ RunOK(job[j])
  BY DEF TypeInv, RunOK
<1>1. ASSUME StreamPage(j), stream \notin DateScoped PROVE Advances(j) /\ FirstLook(job[j])
  <2>1. PICK done \in BOOLEAN, step \in {"page", "put", "publish"} : Take(j, Page(job[j]), done, step)
    <3> DEFINE d == Cardinality(Page(job[j])) < PageSize
               step == StreamStep(job[j].batch \cup Page(job[j]), d)
    <3>1. Take(j, Page(job[j]), d, step)
      BY <1>1 DEF StreamPage
    <3>2. d \in BOOLEAN
      OBVIOUS
    <3>3. step \in {"page", "put", "publish"}
      BY DEF StreamStep
    <3> HIDE DEF d, step
    <3> QED
      BY <3>1, <3>2, <3>3
  <2> QED
    BY <1>1, <2>1, TakeAdvances DEF Take
<1>2. ASSUME IncrementalPage(j), stream \notin DateScoped PROVE Advances(j) /\ FirstLook(job[j])
  <2>1. PICK rows \in SUBSET Page(job[j]), done \in BOOLEAN, step \in {"page", "put", "publish"} :
          Take(j, rows, done, step)
    BY <1>2 DEF IncrementalPage
  <2> QED
    BY <1>2, <2>1, TakeAdvances DEF Take
<1>3. ASSUME CursorPage(j) PROVE Advances(j) /\ FirstLook(job[j])
  <2>1. Take(j, Page(job[j]), LastPage(job[j]), IF LastPage(job[j]) THEN "put" ELSE "page")
    BY <1>3 DEF CursorPage
  <2>2. LastPage(job[j]) \in BOOLEAN
    BY DEF LastPage
  <2> QED
    BY <2>1, <2>2, TakeAdvances DEF Take
<1>4. CASE Retry(j)
  <2> DEFINE r == [job[j] EXCEPT !.attempt = job[j].attempt + 1]
  <2>1. job[j].attempt + 1 \in 0..MaxRetries
    BY <1>0, <1>4, BronzeAssumption DEF Retry, JobRecord
  <2>2. r \in JobRecord
    BY <1>0, <2>1 DEF JobRecord
  <2>3. r.step = job[j].step /\ r.done = job[j].done /\ r.since = job[j].since
        /\ r.batch = job[j].batch
    BY <1>0 DEF JobRecord
  <2>4. job' = [job EXCEPT ![j] = r]
    BY <1>0, <1>4 DEF Retry, TypeOK
  <2> HIDE DEF r
  <2>5. stream \in DateScoped => DatedOK(r)
    BY <1>0, <2>3 DEF DatedOK, RunOK
  <2> QED
    BY <1>4, <2>2, <2>4, <2>5 DEF Advances, RunOK, Retry
<1> QED
  BY <1>1, <1>2, <1>3, <1>4, StreamsApart
  DEF Fetch, StreamMarkets, StreamEvents, FetchMarketsIncremental, FetchEventsIncremental,
      FetchClobTrades, FetchKalshiTrades, FetchKalshiMarkets, FetchKalshiEvents

LEMMA StoreIs ==
  ASSUME NEW j, Store(j)
  PROVE  UploadPart(j) \/ Publish(j)
  BY DEF Store, IngestMarkets, IngestEvents, IngestTradesClob, IngestTradesKalshi,
         IngestMarketsKalshi, IngestEventsKalshi

LEMMA UploadAdvances ==
  ASSUME TypeInv, NEW j \in Jobs, UploadPart(j)
  PROVE  /\ Advances(j) /\ PartOf(job[j]) \in PartRecord
<1>0. TypeOK /\ job[j] \in JobRecord /\ RunOK(job[j])
  BY DEF TypeInv, RunOK
<1>1. PartOf(job[j]) \in PartRecord
  BY <1>0 DEF PartOf, PartRecord, JobRecord
<1> DEFINE r == [job[j] EXCEPT !.batch = {}, !.files = job[j].files + 1,
                              !.step = IF job[j].done THEN "publish" ELSE "page"]
<1>a. PICK step \in {"publish", "page"} : step = IF job[j].done THEN "publish" ELSE "page"
  OBVIOUS
<1>b. job[j].files + 1 \in Nat /\ step \in Steps
  BY <1>0 DEF JobRecord, Steps
<1>2. r \in JobRecord
  <2>1. r = [job[j] EXCEPT !.batch = {}, !.files = job[j].files + 1, !.step = step]
    BY <1>a
  <2> HIDE DEF r
  <2> QED
    BY <1>0, <1>b, <2>1 DEF JobRecord
<1>3. /\ r.step = (IF job[j].done THEN "publish" ELSE "page") /\ r.done = job[j].done
      /\ r.since = job[j].since /\ r.batch = {}
  BY <1>0 DEF JobRecord
<1>4. job' = [job EXCEPT ![j] = r]
  BY DEF UploadPart
<1> HIDE DEF r
<1>5. stream \in DateScoped => DatedOK(r)
  BY <1>0, <1>3 DEF DatedOK, RunOK, UploadPart
<1> QED
  BY <1>1, <1>2, <1>4, <1>5 DEF Advances, RunOK

LEMMA ManifestTyped ==
  ASSUME TypeInv, NEW j \in Jobs
  PROVE  ManifestOf(job[j]) \in ManifestRecord /\ IsFiniteSet(manifests \cup {ManifestOf(job[j])})
<1>0. TypeOK /\ job[j] \in JobRecord
  BY DEF TypeInv, RunOK
<1>1. Cardinality(manifests) \in Nat /\ IsFiniteSet(manifests)
  BY FS_CardinalityType DEF TypeInv
<1>2. CursorOf(job[j]) \in Int
  BY <1>0, Clock DEF CursorOf, NoCursor, JobRecord
<1>3. Cardinality(manifests) + 1 \in Nat
  BY <1>1
<1>4. ManifestOf(job[j]) \in ManifestRecord
  BY <1>0, <1>2, <1>3 DEF ManifestOf, ManifestRecord, JobRecord
<1> QED
  BY <1>1, <1>4, FS_AddElement

LEMMA StepType == TypeInv /\ [Next]_vars => TypeInv'
<1> SUFFICES ASSUME TypeInv, [Next]_vars PROVE TypeInv'
  OBVIOUS
<1>0. TypeOK
  BY DEF TypeInv
<1>a. ASSUME NEW j \in Jobs, Advances(j), stream' = stream, UNCHANGED api,
             parts' \subseteq PartRecord, manifests' \subseteq ManifestRecord,
             IsFiniteSet(manifests'), runs' \in 0..MaxRuns, shocks' \in 0..MaxShocks[stream],
             slipped' \subseteq Records, known' \in [1..MaxRuns -> SUBSET Records],
             due' \subseteq Int
      PROVE  TypeInv'
  <2>1. PICK r : RunOK(r) /\ job' = [job EXCEPT ![j] = r]
    BY <1>a DEF Advances
  <2>2. /\ job'[j] = r /\ \A i \in Jobs \ {j} : job'[i] = job[i]
        /\ job' \in [Jobs -> JobRecord]
    BY <2>1, JobUpdate DEF RunOK
  <2>3. \A i \in Jobs : RunOK(job'[i])
    BY <2>1, <2>2 DEF TypeInv
  <2>4. \A i \in Jobs : RunOK(job[i])'
    BY <1>a, <2>3 DEF RunOK, DatedOK
  <2> QED
    BY <1>0, <1>a, <2>2, <2>4 DEF TypeInv, TypeOK, api
<1>b. ASSUME Calm \/ \E kind : Disturb(kind) PROVE shocks' \in 0..MaxShocks[stream]
  BY <1>0, <1>b, BronzeAssumption DEF Calm, Disturb, TypeOK
<1>1. CASE Tick
  BY <1>0, <1>1 DEF Tick, TypeInv, TypeOK, bronze, history, RunOK, DatedOK
<1>2. ASSUME NEW r \in Records, Change(r) PROVE TypeInv'
  <2>1. updated' \in [Records -> Nat \cup {Absent}] /\ changes' \in Nat
    BY <1>0, <1>2, BronzeAssumption DEF Change, TypeOK
  <2>2. slipped' \subseteq Records
    BY <1>0, <1>2 DEF Change, TypeOK
  <2> QED
    BY <1>0, <1>2, <2>1, <2>2 DEF Change, TypeInv, TypeOK, bronze, history, RunOK, DatedOK
<1>c. CASE Rearrange
  <2>1. PICK o \in Places : place' = o
    BY <1>c DEF Rearrange
  <2>2. slipped' \subseteq Records
    BY <1>0, <1>c DEF Rearrange, Jumped, Present, TypeOK
  <2>3. known' \in [1..MaxRuns -> SUBSET Records]
    BY <1>0, <1>c DEF Rearrange, TypeOK
  <2>4. changes' \in Nat
    BY <1>0, <1>c DEF Rearrange, TypeOK
  <2>5. UNCHANGED <<stream, now, updated, bronze, job, shocks, due>>
    BY <1>c DEF Rearrange
  <2> QED
    BY <1>0, <2>1, <2>2, <2>3, <2>4, <2>5 DEF TypeInv, TypeOK, bronze, RunOK, DatedOK
<1>3. ASSUME NEW j \in Jobs, Command(j) \/ Plan(j) PROVE TypeInv'
  <2>1. Advances(j) /\ runs' \in 0..MaxRuns /\ due' \subseteq Int
    BY <1>3, CommandAdvances
  <2>2. UNCHANGED <<stream, api, parts, manifests, slipped, known>>
    BY <1>3 DEF Command, Plan, StartCatchup, BackfillRun, IngestCommand, CatchupDays, CatchupFull,
                CatchupCatalog, FindSource, bronze, history
  <2>3. Calm \/ \E kind : Disturb(kind)
    BY <1>3 DEF Command, Plan, StartCatchup, BackfillRun, IngestCommand, CatchupDays, CatchupFull,
                CatchupCatalog, FindSource, Guard, ByHand, Calm
  <2> QED
    BY <1>0, <1>a, <1>b, <2>1, <2>2, <2>3 DEF TypeInv, TypeOK
<1>4. ASSUME NEW j \in Jobs, Fetch(j) PROVE TypeInv'
  <2>1. Advances(j) /\ FirstLook(job[j])
    BY <1>4, FetchAdvances
  <2>2. known' \in [1..MaxRuns -> SUBSET Records] /\ due' \subseteq Int
    BY <1>0, <2>1, FirstLookTyped
  <2>3. UNCHANGED <<stream, api, bronze>> /\ slipped' \subseteq slipped \cup Present
    BY <1>4 DEF Fetch, StreamMarkets, StreamEvents, FetchMarketsIncremental, FetchEventsIncremental,
                FetchClobTrades, FetchKalshiTrades, FetchKalshiMarkets, FetchKalshiEvents,
                StreamPage, IncrementalPage, CursorPage, Take, Retry, Overtaken
  <2>4. slipped' \subseteq Records
    BY <1>0, <2>3 DEF TypeOK, Present
  <2>5. Calm \/ \E kind : Disturb(kind)
    BY <1>4 DEF Fetch, StreamMarkets, StreamEvents, FetchMarketsIncremental, FetchEventsIncremental,
                FetchClobTrades, FetchKalshiTrades, FetchKalshiMarkets, FetchKalshiEvents,
                StreamPage, IncrementalPage, CursorPage, Take, Retry, Calm
  <2> QED
    BY <1>0, <1>a, <1>b, <2>1, <2>2, <2>3, <2>4, <2>5 DEF TypeInv, TypeOK, bronze
<1>5. ASSUME NEW j \in Jobs, UploadPart(j) PROVE TypeInv'
  <2>1. Advances(j) /\ PartOf(job[j]) \in PartRecord
    BY <1>5, UploadAdvances
  <2> QED
    BY <1>0, <1>5, <1>a, <2>1 DEF UploadPart, TypeInv, TypeOK, history
<1>6. ASSUME NEW j \in Jobs, Publish(j) PROVE TypeInv'
  <2>1. Advances(j) /\ runs' \in 0..MaxRuns
    BY <1>6, NextDayAdvances DEF Publish
  <2>2. manifests' \subseteq ManifestRecord /\ IsFiniteSet(manifests')
    BY <1>0, <1>6, ManifestTyped DEF Publish, TypeOK
  <2> QED
    BY <1>0, <1>6, <1>a, <2>1, <2>2 DEF Publish, TypeOK, history
<1>7. ASSUME NEW j \in Jobs, Fail(j) \/ Crash(j) PROVE TypeInv'
  <2>1. Advances(j) /\ runs' \in 0..MaxRuns
    <3>1. CASE NextDay(j)
      BY <3>1, NextDayAdvances
    <3>2. CASE job' = [job EXCEPT ![j] = IdleJob] /\ runs' = runs
      BY <1>0, <3>2, StopAdvances DEF TypeOK
    <3> QED
      BY <1>7, <3>1, <3>2 DEF Fail, Crash, Stop, bronze
  <2>2. due' \subseteq Int
    BY <1>0, <1>7 DEF Fail, Crash, Stop, TypeOK
  <2>3. UNCHANGED <<stream, api, parts, manifests, slipped, known>> /\ \E kind : Disturb(kind)
    BY <1>7 DEF Fail, Crash, bronze
  <2> QED
    BY <1>0, <1>a, <1>b, <2>1, <2>2, <2>3 DEF TypeInv, TypeOK
<1>8. CASE UNCHANGED vars
  BY <1>0, <1>8 DEF vars, api, bronze, history, TypeInv, TypeOK, RunOK, DatedOK
<1> QED
  BY <1>1, <1>2, <1>3, <1>4, <1>5, <1>6, <1>7, <1>8, <1>c, StoreIs DEF Next

LEMMA InitType == Init => TypeInv
<1> SUFFICES ASSUME Init PROVE TypeInv
  OBVIOUS
<1>1. \A j \in Jobs : RunOK(job[j])
  BY IdleTyped DEF Init, RunOK
<1>2. job \in [Jobs -> JobRecord]
  BY IdleTyped DEF Init
<1>3. IsFiniteSet(manifests)
  BY FS_EmptySet DEF Init
<1>4. place \in Places
  BY DEF Init, Places
<1> QED
  BY <1>1, <1>2, <1>3, <1>4, BronzeAssumption DEF Init, TypeInv, TypeOK

LEMMA TypesHold == Spec => []TypeInv
  BY InitType, StepType, PTL DEF Spec

(* Every state is well typed.                                              *)
THEOREM TypeCorrect == Spec => []TypeOK
<1>1. TypeInv => TypeOK
  BY DEF TypeInv
<1> QED
  BY TypesHold, <1>1, PTL

(* --------------------- the days that are undertaken -------------------- *)

(* What a run has read so far, in its part files or in memory.             *)
Gathered(r) ==
  r.batch \cup UNION {p.rows : p \in {q \in parts : q.run = r.run /\ q.part < r.files}}

(* That is the answer up to its offset, and all of it at the end.          *)
Covered(r) == \A v \in Answer(r) : r.done \/ Position(place, r, v) < r.offset => v \in Gathered(r)

FreshRun(r) == r.step = "page" /\ r.offset = 0 /\ r.attempt = 0

(* A run that is to store day d, or is about to: it has read nothing of    *)
(* the day before the day was over.                                        *)
WillStore(r, d) ==
  /\ r.step \in Fetching /\ ~r.all /\ r.dt <= d /\ d <= r.last
  /\ r.dt < d \/ FreshRun(r) \/ (r.dt < DayOf(now) /\ Covered(r))

(* A day that is over, and stored.                                         *)
Complete(d) ==
  d < DayOf(now) /\ \A r \in Present : DayOf(updated[r]) = d => <<r, updated[r]>> \in Stored

(* What the processes are doing.                                           *)
Doing == {job[j] : j \in Jobs}

Held(d) == Complete(d) \/ \E r \in Doing : WillStore(r, d)

DayInv == stream \in DateScoped => \A d \in due : Held(d)

LEMMA StoredGrows ==
  ASSUME parts \subseteq parts', manifests \subseteq manifests'
  PROVE  Stored \subseteq Stored'
  BY DEF Stored, RowsOf

LEMMA GatheredGrows ==
  ASSUME parts \subseteq parts', NEW r
  PROVE  Gathered(r) \subseteq Gathered(r)'
  BY DEF Gathered

(* The API stands still while nothing changes, and of a day that is over.  *)
LEMMA SameAnswer ==
  ASSUME updated' = updated, stream' = stream, place' = place, NEW r
  PROVE  Answer(r)' = Answer(r) /\ \A v : Position(place, r, v)' = Position(place, r, v)
  BY DEF Answer, Position, Before, Versions, Present

LEMMA CoveredKept ==
  ASSUME NEW r, Answer(r)' = Answer(r), \A v : Position(place, r, v)' = Position(place, r, v),
         parts \subseteq parts', Covered(r)
  PROVE  Covered(r)'
<1>1. Gathered(r) \subseteq Gathered(r)'
  BY GatheredGrows
<1> QED
  BY <1>1 DEF Covered

(* Where a version is in an answer: before its end.                        *)
LEMMA PositionBound ==
  ASSUME TypeOK, NEW r, NEW v \in Answer(r)
  PROVE  Position(place, r, v) \in Nat /\ Position(place, r, v) < Cardinality(Answer(r))
<1> DEFINE S == {w \in Answer(r) : Before(place, r, w, v)}
<1>1. IsFiniteSet(Answer(r)) /\ Answer(r) \subseteq VersionSet
  BY VersionsTyped
<1>2. v \notin S
  <2>1. v[1] \in Records /\ v[2] \in Nat
    BY <1>1 DEF VersionSet
  <2>2. place[v[1]] \in Nat
    BY <2>1, BronzeAssumption DEF TypeOK, Places
  <2> QED
    BY <2>1, <2>2 DEF Before
<1>3. S \subseteq Answer(r) \ {v}
  BY <1>2
<1>4. IsFiniteSet(Answer(r) \ {v}) /\ Cardinality(Answer(r) \ {v}) = Cardinality(Answer(r)) - 1
  BY <1>1, FS_RemoveElement
<1>5. IsFiniteSet(S) /\ Cardinality(S) <= Cardinality(Answer(r) \ {v})
  BY <1>3, <1>4, FS_Subset
<1>6. Cardinality(S) \in Nat /\ Cardinality(Answer(r)) \in Nat
  BY <1>1, <1>5, FS_CardinalityType
<1> QED
  BY <1>4, <1>5, <1>6 DEF Position

LEMMA WillKept ==
  ASSUME NEW r, NEW d, updated' = updated, stream' = stream, place' = place, now' = now,
         parts \subseteq parts', WillStore(r, d)
  PROVE  WillStore(r, d)'
<1>1. Covered(r) => Covered(r)'
  BY SameAnswer, CoveredKept
<1>2. DayOf(now)' = DayOf(now)
  BY DEF DayOf
<1> QED
  BY <1>1, <1>2 DEF WillStore, FreshRun

LEMMA CompleteKept ==
  ASSUME NEW d, updated' = updated, now' = now, parts \subseteq parts',
         manifests \subseteq manifests', Complete(d)
  PROVE  Complete(d)'
<1>1. Stored \subseteq Stored'
  BY StoredGrows
<1>2. DayOf(now)' = DayOf(now)
  BY DEF DayOf
<1>3. Present' = Present
  BY DEF Present
<1>4. \A r \in Present : DayOf(updated[r])' = DayOf(updated[r])
  BY DEF DayOf
<1> QED
  BY <1>1, <1>2, <1>3, <1>4 DEF Complete

(* A day is held while the process that held it holds it.                  *)
LEMMA KeepsDays ==
  ASSUME UNCHANGED api, stream' = stream, parts \subseteq parts',
         manifests \subseteq manifests', NEW d, Held(d),
         NEW j \in Jobs, \A i \in Jobs \ {j} : job'[i] = job[i],
         WillStore(job[j], d) => Held(d)'
  PROVE  Held(d)'
<1>0. updated' = updated /\ now' = now /\ place' = place
  BY DEF api
<1>1. CASE Complete(d)
  BY <1>0, <1>1, CompleteKept DEF Held
<1>2. CASE \E r \in Doing : WillStore(r, d)
  <2>0. PICK r : \E i \in Jobs : r = job[i] /\ WillStore(r, d)
    BY <1>2 DEF Doing
  <2>1. PICK i \in Jobs : r = job[i] /\ WillStore(r, d)
    BY <2>0
  <2>2. CASE i # j
    <3>1. WillStore(r, d)'
      BY <1>0, <2>1, WillKept
    <3>2. r \in Doing'
      BY <2>1, <2>2 DEF Doing
    <3> QED
      BY <3>1, <3>2 DEF Held
  <2>3. CASE i = j
    BY <2>1, <2>3
  <2> QED
    BY <2>2, <2>3
<1> QED
  BY <1>1, <1>2 DEF Held

(* The clock moves on.                                                     *)
LEMMA TickHolds ==
  ASSUME TypeInv, Tick, NEW d, d \in Int, Held(d)
  PROVE  Held(d)'
<1>1. DayOf(now)' \in Nat /\ DayOf(now) \in Nat /\ DayOf(now) <= DayOf(now)'
  <2>1. now \in Nat /\ now' = now + 1 /\ now + 1 \in Nat /\ DayLength \in Nat \ {0}
    BY BronzeAssumption DEF Tick, TypeInv, TypeOK
  <2>2. DayOf(now) = now \div DayLength /\ DayOf(now)' = (now + 1) \div DayLength
    BY <2>1 DEF DayOf
  <2>3. now \div DayLength \in Nat /\ (now + 1) \div DayLength >= now \div DayLength
    BY <2>1, Quotient
  <2>4. (now + 1) \div DayLength \in Nat
    BY <2>1, Quotient
  <2> QED
    BY <2>2, <2>3, <2>4
<1>2. /\ updated' = updated /\ stream' = stream /\ parts' = parts
      /\ manifests' = manifests /\ job' = job /\ place' = place
  BY DEF Tick, bronze
<1>3. CASE Complete(d)
  <2>1. Stored' = Stored /\ Present' = Present
    BY <1>2 DEF Stored, RowsOf, Present
  <2>2. \A r \in Present : DayOf(updated[r])' = DayOf(updated[r])
    BY <1>2 DEF DayOf
  <2>3. d < DayOf(now) /\ d < DayOf(now)'
    BY <1>1, <1>3 DEF Complete
  <2> QED
    BY <1>2, <1>3, <2>1, <2>2, <2>3 DEF Complete, Held
<1>4. CASE \E r \in Doing : WillStore(r, d)
  <2>1. PICK r \in Doing : WillStore(r, d)
    BY <1>4
  <2>2. Covered(r) => Covered(r)'
    BY <1>2, SameAnswer, CoveredKept
  <2>3. r.dt \in Nat
    BY DEF Doing, TypeInv, RunOK, JobRecord
  <2>4. WillStore(r, d)'
    BY <1>1, <2>1, <2>2, <2>3 DEF WillStore, FreshRun
  <2>5. Doing' = Doing
    BY <1>2 DEF Doing
  <2> QED
    BY <2>4, <2>5 DEF Held
<1> QED
  BY <1>3, <1>4 DEF Held

(* A trade appears: its day is today, which no answer is about that a day  *)
(* already over has.                                                       *)
LEMMA ChangeHolds ==
  ASSUME TypeInv, stream \in DateScoped, NEW c \in Records, Change(c), NEW d, d \in Int, Held(d)
  PROVE  Held(d)'
<1>1. /\ updated[c] = Absent /\ updated' = [updated EXCEPT ![c] = now]
      /\ stream' = stream /\ now' = now /\ parts' = parts
      /\ manifests' = manifests /\ job' = job /\ place' = place
  BY DEF Change, bronze
<1>2. TypeOK /\ DayOf(now) \in Nat /\ now \in Nat
  BY Clock DEF TypeInv, TypeOK
<1>3. DayOf(now)' = DayOf(now)
  BY <1>1 DEF DayOf
<1>4. /\ updated'[c] = now /\ \A r \in Records \ {c} : updated'[r] = updated[r]
      /\ Present' = Present \cup {c} /\ c \notin Present
  BY <1>1, <1>2 DEF Present, TypeOK, Absent
<1>5. CASE Complete(d)
  <2>1. Stored' = Stored
    BY <1>1 DEF Stored, RowsOf
  <2>2. DayOf(updated'[c]) # d
    BY <1>2, <1>4, <1>5 DEF Complete
  <2>3. ASSUME NEW r \in Present', DayOf(updated'[r]) = d PROVE <<r, updated'[r]>> \in Stored
    <3>1. r \in Present /\ updated'[r] = updated[r]
      BY <1>4, <2>2, <2>3 DEF Present
    <3> QED
      BY <1>5, <2>3, <3>1 DEF Complete
  <2>4. \A r \in Present' : DayOf(updated[r])' = d => <<r, updated'[r]>> \in Stored
    BY <2>3 DEF DayOf
  <2> QED
    BY <1>3, <1>5, <2>1, <2>4 DEF Complete, Held
<1>6. CASE \E r \in Doing : WillStore(r, d)
  <2>1. PICK r \in Doing : WillStore(r, d)
    BY <1>6
  <2>2. r.dt \in Nat
    BY DEF Doing, TypeInv, RunOK, JobRecord
  <2>3. Versions' = Versions \cup {<<c, now>>}
    <3>1. Versions' = {<<r0, updated'[r0]>> : r0 \in Present'}
      BY DEF Versions
    <3>2. \A r0 \in Present : updated'[r0] = updated[r0]
      BY <1>4 DEF Present
    <3> QED
      BY <1>4, <3>1, <3>2 DEF Versions
  <2>4. ASSUME ~r.all, r.dt < DayOf(now), Covered(r) PROVE Covered(r)'
    <3>1. DayOf(now) # r.dt
      BY <1>2, <2>2, <2>4
    <3>2. Answer(r)' = {v \in Versions' : r.all \/ DayOf(v[2]) = r.dt}
      BY DEF Answer, DayOf
    <3>3. Answer(r)' = Answer(r)
      BY <2>3, <2>4, <3>1, <3>2 DEF Answer
    <3>4. \A v, w : Before(place, r, v, w)' = Before(place, r, v, w)
      BY <1>1 DEF Before
    <3>5. \A v : Position(place, r, v)' = Position(place, r, v)
      <4>1. ASSUME NEW v PROVE {w \in Answer(r)' : Before(place, r, w, v)'} = {w \in Answer(r) : Before(place, r, w, v)}
        BY <3>3, <3>4
      <4> QED
        BY <4>1 DEF Position
    <3> QED
      BY <1>1, <2>4, <3>3, <3>5, CoveredKept
  <2>5. WillStore(r, d)'
    BY <1>3, <2>1, <2>4 DEF WillStore, FreshRun
  <2>6. Doing' = Doing
    BY <1>1 DEF Doing
  <2> QED
    BY <2>5, <2>6 DEF Held
<1> QED
  BY <1>5, <1>6 DEF Held

(* A run of several days goes on with its next day, of which it has read   *)
(* nothing yet.                                                            *)
LEMMA NextDayHolds ==
  ASSUME NEW j \in Jobs, job \in [Jobs -> JobRecord], NextDay(j), NEW d, d \in Int,
         WillStore(job[j], d), job[j].dt # d
  PROVE  Held(d)'
<1>1. job[j].dt \in Nat /\ job[j].last \in Nat /\ job[j].dt < d /\ d <= job[j].last
  BY DEF WillStore, JobRecord
<1>2. PICK r : r = Ingest(job[j].command, job[j].dt + 1, job[j].last, NoCursor, FALSE)
  OBVIOUS
<1>3. job'[j] = r
  <2>1. job[j].dt < job[j].last
    BY <1>1
  <2>2. Begin(j, r)
    BY <1>2, <2>1 DEF NextDay
  <2> QED
    BY <2>2 DEF Begin
<1>4. /\ FreshRun(r) /\ r.step \in Fetching /\ ~r.all
      /\ r.dt = job[j].dt + 1 /\ r.last = job[j].last
  BY <1>2 DEF Ingest, FreshRun, Fetching
<1>5. WillStore(r, d)'
  BY <1>1, <1>4 DEF WillStore, FreshRun
<1> QED
  BY <1>3, <1>5 DEF Held, Doing

(* The days a command undertakes are those its run begins with.            *)
LEMMA BeginHolds ==
  ASSUME NEW j \in Jobs, job \in [Jobs -> JobRecord], NEW command, NEW dt, NEW last,
         Begin(j, Ingest(command, dt, last, NoCursor, FALSE)), NEW d, dt <= d, d <= last
  PROVE  Held(d)'
<1>1. PICK r : r = Ingest(command, dt, last, NoCursor, FALSE)
  OBVIOUS
<1>2. job'[j] = r
  BY <1>1 DEF Begin
<1>3. FreshRun(r) /\ r.step \in Fetching /\ ~r.all /\ r.dt = dt /\ r.last = last
  BY <1>1 DEF Ingest, FreshRun, Fetching
<1>4. WillStore(r, d)'
  BY <1>3 DEF WillStore, FreshRun
<1> QED
  BY <1>2, <1>4 DEF Held, Doing

LEMMA CommandHolds ==
  ASSUME TypeInv, DayInv, stream \in DateScoped, NEW j \in Jobs, Command(j) \/ Plan(j),
         NEW d \in due'
  PROVE  Held(d)'
<1>1. /\ UNCHANGED <<stream, api, parts, manifests>> /\ job[j].step \notin Fetching
      /\ \A i \in Jobs \ {j} : job'[i] = job[i]
  <2>1. job \in [Jobs -> JobRecord]
    BY DEF TypeInv, TypeOK
  <2>2. CASE Command(j)
    BY <2>1, <2>2 DEF Command, StartCatchup, BackfillRun, IngestCommand, IngestPolymarketCatalog,
            IngestKalshiCatalog, IngestKalshiTrades, FullIngest, bronze, history, Begin, Fetching
  <2>3. CASE Plan(j)
    BY <2>1, <2>3 DEF Plan, CatchupDays, CatchupFull, CatchupCatalog, FindSource, history, Begin,
            Stop, Fetching
  <2> QED
    BY <2>2, <2>3
<1>2. CASE d \in due
  <2>1. Held(d) /\ ~WillStore(job[j], d)
    BY <1>1, <1>2 DEF DayInv, WillStore
  <2> QED
    BY <1>1, <2>1, KeepsDays
<1>3. CASE d \notin due
  <2>0. job \in [Jobs -> JobRecord] /\ job[j].last \in Nat
    BY DEF TypeInv, TypeOK, RunOK, JobRecord
  <2>1. CASE \E from, last \in Days : BackfillRun(j, from, last)
    <3>1. PICK from, last \in Days : BackfillRun(j, from, last)
      BY <2>1
    <3>2. Begin(j, Ingest("backfill", from, last, NoCursor, FALSE)) /\ Undertake(from..last)
      BY <3>1 DEF BackfillRun
    <3>3. d \in from..last
      BY <1>3, <3>2 DEF Undertake
    <3>4. from <= d /\ d <= last
      BY <3>3
    <3> QED
      BY <2>0, <3>2, <3>4, BeginHolds
  <2>2. CASE CatchupDays(j)
    <3>1. ~Stop(j)
      BY <1>3 DEF Stop
    <3>a. PICK latest \in LatestPartition :
            \E e \in MissingDays(latest, job[j].last) :
              /\ \A f \in MissingDays(latest, job[j].last) : e <= f
              /\ Begin(j, Ingest("catchup", e, job[j].last, NoCursor, FALSE))
              /\ Undertake({f \in Days : latest < f /\ f <= job[j].last})
      BY <2>2, <3>1 DEF CatchupDays
    <3>2. PICK e \in Days :
            /\ e \in MissingDays(latest, job[j].last)
            /\ \A f \in MissingDays(latest, job[j].last) : e <= f
            /\ Begin(j, Ingest("catchup", e, job[j].last, NoCursor, FALSE))
            /\ Undertake({f \in Days : latest < f /\ f <= job[j].last})
      BY <3>a DEF MissingDays
    <3>3. d \in MissingDays(latest, job[j].last)
      BY <1>3, <3>2 DEF Undertake, MissingDays
    <3>4. e <= d /\ d <= job[j].last
      BY <3>2, <3>3 DEF MissingDays
    <3> QED
      BY <2>0, <3>2, <3>4, BeginHolds
  <2>3. CASE \/ \E c \in {"catchup", "full"} : StartCatchup(j, c)
             \/ \E dt \in Days : IngestCommand(j, dt)
             \/ CatchupCatalog(j) \/ FindSource(j) \/ CatchupFull(j)
    BY <1>3, <2>3 DEF StartCatchup, IngestCommand, CatchupCatalog, FindSource, CatchupFull, history
  <2> QED
    BY <2>1, <2>2, <2>3 DEF Command, Plan
<1> QED
  BY <1>2, <1>3

(* A page read is part of what the run has of the day, or ends it.         *)
LEMMA PageCovers ==
  ASSUME TypeInv, stream \in DateScoped, UNCHANGED <<stream, api, parts>>, NEW r \in JobRecord,
         ~r.done, r.offset = 0 \/ Covered(r), NEW step, NEW n,
         n = Fetched(r, Page(r), LastPage(r), step)
  PROVE  Covered(n)'
<1>1. /\ n.done = LastPage(r) /\ n.batch = r.batch \cup Page(r) /\ n.offset = r.offset + PageSize
      /\ n.run = r.run /\ n.files = r.files /\ n.all = r.all /\ n.dt = r.dt /\ n.since = r.since
  BY DEF Fetched
<1>2. Answer(n) = Answer(r)
  BY <1>1 DEF Answer
<1>3. \A v, w : Before(place, n, v, w) = Before(place, r, v, w)
  BY <1>1 DEF Before
<1>4. \A v : Position(place, n, v) = Position(place, r, v)
  <2>1. ASSUME NEW v PROVE {w \in Answer(n) : Before(place, n, w, v)} = {w \in Answer(r) : Before(place, r, w, v)}
    BY <1>2, <1>3
  <2> QED
    BY <2>1 DEF Position
<1>5. Gathered(r) \cup Page(r) \subseteq Gathered(n)
  BY <1>1 DEF Gathered
<1>6. ASSUME NEW v \in Answer(r), LastPage(r) \/ Position(place, r, v) < r.offset + PageSize
      PROVE  v \in Gathered(r) \cup Page(r)
  <2>1. Position(place, r, v) \in Nat /\ Position(place, r, v) < Cardinality(Answer(r))
    BY PositionBound DEF TypeInv
  <2>2. r.offset \in Nat /\ PageSize \in Nat /\ Cardinality(Answer(r)) \in Nat
    BY BronzeAssumption, VersionsTyped, FS_CardinalityType DEF JobRecord, TypeInv
  <2>3. Position(place, r, v) < r.offset + PageSize
    BY <1>6, <2>1, <2>2 DEF LastPage
  <2>4. CASE Position(place, r, v) < r.offset
    BY <2>1, <2>2, <2>4 DEF Covered
  <2>5. CASE r.offset <= Position(place, r, v)
    BY <2>3, <2>5 DEF Page
  <2> QED
    BY <2>1, <2>2, <2>4, <2>5
<1>7. Covered(n)
  BY <1>1, <1>2, <1>4, <1>5, <1>6 DEF Covered
<1>8. updated' = updated /\ parts' = parts /\ place' = place
  BY DEF api
<1> QED
  BY <1>7, <1>8, SameAnswer, CoveredKept

(* A request looks at the day when it is the first one of a run: then the  *)
(* day is over, or it is no longer due.                                    *)
LEMMA LookedAt ==
  ASSUME NEW r, FirstLook(r), stream \in DateScoped, NEW d \in due', d \in Int, r.dt = d,
         DayOf(now) \in Nat, FreshRun(r)
  PROVE  d < DayOf(now)
  BY DEF FirstLook, FreshRun

LEMMA FetchHolds ==
  ASSUME TypeInv, DayInv, stream \in DateScoped, NEW j \in Jobs, Fetch(j), NEW d \in due'
  PROVE  Held(d)'
<1>1. /\ UNCHANGED <<stream, api, bronze>> /\ FirstLook(job[j]) /\ job[j].step = "page"
      /\ \A i \in Jobs \ {j} : job'[i] = job[i]
      /\ \/ job'[j] = [job[j] EXCEPT !.attempt = job[j].attempt + 1]
         \/ \E step \in Fetching : job'[j] = Fetched(job[j], Page(job[j]), LastPage(job[j]), step)
  <2>1. job \in [Jobs -> JobRecord]
    BY DEF TypeInv, TypeOK
  <2>2. Retry(j) \/ CursorPage(j)
    BY StreamsApart DEF Fetch, StreamMarkets, StreamEvents, FetchMarketsIncremental,
       FetchEventsIncremental, FetchClobTrades, FetchKalshiTrades, FetchKalshiMarkets,
       FetchKalshiEvents, DateScoped
  <2>3. CASE Retry(j)
    BY <2>1, <2>3 DEF Retry
  <2>4. CASE CursorPage(j)
    <3>1. PICK step \in Fetching : Take(j, Page(job[j]), LastPage(job[j]), step)
      BY <2>4 DEF CursorPage, Fetching
    <3> QED
      BY <2>1, <3>1 DEF Take
  <2> QED
    BY <2>2, <2>3, <2>4
<1>2. PICK r, n : r = job[j] /\ n = job'[j]
  OBVIOUS
<1>3. r \in JobRecord /\ DatedOK(r) /\ ~r.done /\ r.offset \in Nat
  BY <1>1, <1>2 DEF TypeInv, RunOK, DatedOK, JobRecord
<1>4. /\ n.all = r.all /\ n.dt = r.dt /\ n.last = r.last /\ n.step \in Fetching
      /\ r.offset = 0 \/ Covered(r) => Covered(n)'
  <2>1. CASE n = [r EXCEPT !.attempt = r.attempt + 1]
    <3>1. /\ n.all = r.all /\ n.dt = r.dt /\ n.last = r.last /\ n.step = r.step
          /\ n.offset = r.offset /\ n.done = r.done /\ n.since = r.since /\ n.run = r.run
          /\ n.files = r.files /\ n.batch = r.batch
      BY <1>3, <2>1 DEF JobRecord
    <3>2. Answer(n) = Answer(r) /\ Gathered(n) = Gathered(r)
      BY <3>1 DEF Answer, Gathered
    <3>3. \A v : Position(place, n, v) = Position(place, r, v)
      <4>1. \A v, w : Before(place, n, v, w) = Before(place, r, v, w)
        BY <3>1 DEF Before
      <4>2. ASSUME NEW v
            PROVE  {w \in Answer(n) : Before(place, n, w, v)} = {w \in Answer(r) : Before(place, r, w, v)}
        BY <3>2, <4>1
      <4> QED
        BY <4>2 DEF Position
    <3>4. ASSUME r.offset = 0 \/ Covered(r) PROVE Covered(n)
      <4>1. CASE Covered(r)
        BY <3>1, <3>2, <3>3, <4>1 DEF Covered
      <4>2. CASE r.offset = 0
        <5>1. \A v \in Answer(n) : Position(place, n, v) \in Nat
          BY PositionBound DEF TypeInv
        <5> QED
          BY <1>3, <3>1, <4>2, <5>1 DEF Covered
      <4> QED
        BY <3>4, <4>1, <4>2
    <3>5. Covered(n) => Covered(n)'
      BY <1>1, SameAnswer, CoveredKept DEF api, bronze
    <3> QED
      BY <1>1, <1>2, <3>1, <3>4, <3>5 DEF Fetching
  <2>2. CASE \E step \in Fetching : n = Fetched(r, Page(r), LastPage(r), step)
    <3>1. PICK step \in Fetching : n = Fetched(r, Page(r), LastPage(r), step)
      BY <2>2
    <3>2. n.all = r.all /\ n.dt = r.dt /\ n.last = r.last /\ n.step = step
      BY <3>1 DEF Fetched
    <3>3. r.offset = 0 \/ Covered(r) => Covered(n)'
      BY <1>1, <1>3, <3>1, PageCovers DEF bronze
    <3> QED
      BY <3>1, <3>2, <3>3
  <2> QED
    BY <1>1, <1>2, <2>1, <2>2
<1>5. d \in due /\ d \in Int /\ DayOf(now) \in Nat /\ DayOf(now)' = DayOf(now)
  <2>1. d \in due
    BY <1>1 DEF FirstLook
  <2> QED
    BY <1>1, <2>1, Clock DEF TypeInv, TypeOK, DayOf, api
<1>6. ASSUME WillStore(r, d) PROVE WillStore(n, d)'
  <2>1. CASE r.dt < d
    BY <1>4, <1>6, <2>1 DEF WillStore
  <2>2. CASE r.dt = d
    <3>1. CASE FreshRun(r)
      <4>1. d < DayOf(now)
        BY <1>1, <1>2, <1>5, <2>2, <3>1, LookedAt
      <4>2. Covered(n)'
        BY <1>4, <3>1 DEF FreshRun
      <4> QED
        BY <1>4, <1>5, <1>6, <2>2, <4>1, <4>2 DEF WillStore
    <3>2. CASE Covered(r) /\ r.dt < DayOf(now)
      BY <1>4, <1>5, <1>6, <3>2 DEF WillStore
    <3> QED
      BY <1>3, <1>5, <1>6, <2>2, <3>1, <3>2 DEF WillStore
  <2>3. r.dt <= d /\ r.dt \in Int
    BY <1>3, <1>6 DEF WillStore, JobRecord
  <2> QED
    BY <1>5, <2>1, <2>2, <2>3
<1>7. WillStore(job[j], d) => Held(d)'
  <2>1. n \in Doing'
    BY <1>2 DEF Doing
  <2> QED
    BY <1>2, <1>6, <2>1 DEF Held
<1>8. Held(d)
  BY <1>5 DEF DayInv
<1>9. parts' = parts /\ manifests' = manifests
  BY <1>1 DEF bronze
<1> QED
  BY <1>1, <1>7, <1>8, <1>9, KeepsDays

(* A part file holds what the run had in memory.                           *)
LEMMA UploadGathers ==
  ASSUME TypeOK, NEW r \in JobRecord, parts' = parts \cup {PartOf(r)}, NEW n, n.run = r.run,
         n.files = r.files + 1
  PROVE  Gathered(r) \subseteq Gathered(n)'
<1>1. /\ PartOf(r) \in parts' /\ PartOf(r).run = r.run /\ PartOf(r).part = r.files
      /\ PartOf(r).rows = r.batch /\ r.files \in Nat
  BY DEF PartOf, JobRecord
<1>2. PartOf(r).part < n.files
  BY <1>1
<1>3. \A q \in parts : q.part < r.files => q.part < n.files
  BY <1>1 DEF TypeOK, PartRecord
<1>4. UNION {p.rows : p \in {q \in parts : q.run = r.run /\ q.part < r.files}}
        \subseteq UNION {p.rows : p \in {q \in parts' : q.run = n.run /\ q.part < n.files}}
  BY <1>3
<1>5. r.batch \subseteq UNION {p.rows : p \in {q \in parts' : q.run = n.run /\ q.part < n.files}}
  BY <1>1, <1>2
<1> QED
  BY <1>4, <1>5 DEF Gathered

LEMMA UploadHolds ==
  ASSUME TypeInv, DayInv, stream \in DateScoped, NEW j \in Jobs, UploadPart(j), NEW d \in due'
  PROVE  Held(d)'
<1>1. /\ UNCHANGED <<stream, api, manifests, due>> /\ job[j].step = "put"
      /\ parts' = parts \cup {PartOf(job[j])}
      /\ \A i \in Jobs \ {j} : job'[i] = job[i]
  BY DEF UploadPart, history
<1>2. PICK r, n : r = job[j] /\ n = job'[j]
  OBVIOUS
<1>3. r \in JobRecord /\ DatedOK(r) /\ r.done /\ r.files \in Nat
  BY <1>1, <1>2 DEF TypeInv, RunOK, DatedOK, JobRecord
<1>4. /\ n.all = r.all /\ n.dt = r.dt /\ n.last = r.last /\ n.step = "publish"
      /\ n.offset = r.offset /\ n.done = r.done /\ n.since = r.since /\ n.run = r.run
      /\ n.files = r.files + 1 /\ n.batch = {}
  <2>1. job'[j] = [job[j] EXCEPT !.batch = {}, !.files = job[j].files + 1,
                                 !.step = IF job[j].done THEN "publish" ELSE "page"]
    BY DEF UploadPart, TypeInv, TypeOK
  <2>2. n = [r EXCEPT !.batch = {}, !.files = r.files + 1, !.step = "publish"]
    BY <1>2, <1>3, <2>1
  <2> QED
    BY <1>3, <2>2 DEF JobRecord
<1>5. Answer(n) = Answer(r)
  BY <1>4 DEF Answer
<1>6. \A v : Position(place, n, v) = Position(place, r, v)
  <2>1. \A v, w : Before(place, n, v, w) = Before(place, r, v, w)
    BY <1>4 DEF Before
  <2>2. ASSUME NEW v
        PROVE  {w \in Answer(n) : Before(place, n, w, v)} = {w \in Answer(r) : Before(place, r, w, v)}
    BY <1>5, <2>1
  <2> QED
    BY <2>2 DEF Position
<1>7. Gathered(r) \subseteq Gathered(n)'
  BY <1>1, <1>2, <1>3, <1>4, UploadGathers DEF TypeInv
<1>8. DayOf(now)' = DayOf(now) /\ updated' = updated /\ place' = place
  BY <1>1 DEF api, DayOf
<1>9. Covered(r) => Covered(n)'
  <2>1. Answer(n)' = Answer(n) /\ \A v : Position(place, n, v)' = Position(place, n, v)
    BY <1>1, <1>8, SameAnswer
  <2> QED
    BY <1>4, <1>5, <1>6, <1>7, <2>1 DEF Covered
<1>10. WillStore(r, d) => WillStore(n, d)'
  BY <1>1, <1>2, <1>4, <1>8, <1>9 DEF WillStore, FreshRun, Fetching
<1>11. WillStore(job[j], d) => Held(d)'
  <2>1. n \in Doing'
    BY <1>2 DEF Doing
  <2> QED
    BY <1>2, <1>10, <2>1 DEF Held
<1>12. Held(d) /\ parts \subseteq parts' /\ manifests \subseteq manifests'
  BY <1>1 DEF DayInv
<1> QED
  BY <1>1, <1>11, <1>12, KeepsDays

(* A manifest makes the day of its run complete.                           *)
LEMMA PublishHolds ==
  ASSUME TypeInv, DayInv, stream \in DateScoped, NEW j \in Jobs, Publish(j), NEW d \in due'
  PROVE  Held(d)'
<1>0. job \in [Jobs -> JobRecord] /\ d \in due /\ d \in Int
  BY DEF TypeInv, TypeOK, Publish, history
<1>1. /\ UNCHANGED <<stream, api, parts, due>> /\ job[j].step = "publish"
      /\ manifests' = manifests \cup {ManifestOf(job[j])} /\ NextDay(j)
  BY DEF Publish, history
<1>2. \A i \in Jobs \ {j} : job'[i] = job[i]
  BY <1>0, <1>1 DEF NextDay, Begin
<1>3. PICK r : r = job[j]
  OBVIOUS
<1>4. r \in JobRecord /\ r.done /\ r.batch = {}
  BY <1>1, <1>3 DEF TypeInv, RunOK, DatedOK
<1>5. ASSUME WillStore(r, d), r.dt = d PROVE Complete(d)'
  <2>1. Covered(r) /\ d < DayOf(now)
    BY <1>1, <1>3, <1>5, <1>0 DEF WillStore, FreshRun
  <2>2. Gathered(r) \subseteq Stored'
    <3>1. /\ ManifestOf(r) \in manifests' /\ ManifestOf(r).run = r.run
          /\ ManifestOf(r).files = r.files
      BY <1>1, <1>3 DEF ManifestOf
    <3>2. Gathered(r) \subseteq RowsOf(ManifestOf(r))
      BY <1>4, <3>1 DEF Gathered, RowsOf
    <3>3. PICK m : m = ManifestOf(r)
      OBVIOUS
    <3>4. RowsOf(m)' = RowsOf(m)
      BY <1>1 DEF RowsOf
    <3>5. RowsOf(m)' \subseteq Stored'
      BY <3>1, <3>3 DEF Stored
    <3> QED
      BY <3>2, <3>3, <3>4, <3>5
  <2>3. ASSUME NEW t \in Present, DayOf(updated[t]) = d PROVE <<t, updated[t]>> \in Stored'
    <3>1. <<t, updated[t]>> \in Answer(r)
      BY <1>5, <2>3 DEF Answer, Versions
    <3> QED
      BY <1>4, <2>1, <2>2, <3>1 DEF Covered
  <2>4. Present' = Present /\ updated' = updated /\ DayOf(now)' = DayOf(now)
    BY <1>1 DEF Present, api, DayOf
  <2>5. \A t \in Present' : DayOf(updated[t])' = d => <<t, updated'[t]>> \in Stored'
    BY <2>3, <2>4 DEF DayOf
  <2> QED
    BY <2>1, <2>4, <2>5 DEF Complete
<1>6. WillStore(job[j], d) => Held(d)'
  BY <1>0, <1>1, <1>3, <1>5, NextDayHolds DEF Held
<1>7. Held(d) /\ parts \subseteq parts' /\ manifests \subseteq manifests'
  BY <1>0, <1>1 DEF DayInv
<1> QED
  BY <1>1, <1>2, <1>6, <1>7, KeepsDays

(* A failed day and the days a dead process had left are due no longer.    *)
LEMMA EndHolds ==
  ASSUME TypeInv, DayInv, stream \in DateScoped, NEW j \in Jobs, Fail(j) \/ Crash(j),
         NEW d \in due'
  PROVE  Held(d)'
<1>0. job \in [Jobs -> JobRecord] /\ due \subseteq Int /\ Fetching = {"page", "put", "publish"}
  BY DEF TypeInv, TypeOK, Fetching
<1>1. UNCHANGED <<stream, api, parts, manifests>>
  BY DEF Fail, Crash, bronze
<1>2. d \in due /\ \A i \in Jobs \ {j} : job'[i] = job[i]
  BY <1>0 DEF Fail, Crash, NextDay, Begin, Stop
<1>3. ASSUME WillStore(job[j], d) PROVE Held(d)'
  <2>1. /\ job[j].step \in Fetching /\ job[j].dt \in Int /\ job[j].last \in Int
        /\ job[j].dt <= d /\ d <= job[j].last /\ d \in Int
    <3>1. job[j].dt \in Int /\ job[j].last \in Int
      BY <1>0 DEF JobRecord
    <3>2. job[j].step \in Fetching /\ job[j].dt <= d /\ d <= job[j].last
      BY <1>3 DEF WillStore
    <3> QED
      BY <1>0, <1>2, <3>1, <3>2
  <2>2. ~Crash(j)
    BY <1>0, <2>1 DEF Crash
  <2>3. NextDay(j) /\ job[j].dt # d
    BY <1>0, <2>1, <2>2 DEF Fail
  <2> QED
    BY <1>0, <1>3, <2>1, <2>3, NextDayHolds
<1>4. Held(d) /\ parts \subseteq parts' /\ manifests \subseteq manifests'
  BY <1>1, <1>2 DEF DayInv
<1> QED
  BY <1>1, <1>2, <1>3, <1>4, KeepsDays

(* The platform and the entity of a behaviour are one stream.              *)
LEMMA StreamStays == [Next]_vars => stream' = stream
  BY DEF Next, Tick, Change, Rearrange, Command, StartCatchup, BackfillRun, IngestCommand, Plan, CatchupDays,
         CatchupFull, CatchupCatalog, FindSource, Fetch, StreamMarkets, StreamEvents,
         FetchMarketsIncremental, FetchEventsIncremental, FetchClobTrades, FetchKalshiTrades,
         FetchKalshiMarkets, FetchKalshiEvents, StreamPage, IncrementalPage, CursorPage, Take,
         Retry, Store, IngestMarkets, IngestEvents, IngestTradesClob, IngestTradesKalshi,
         IngestMarketsKalshi, IngestEventsKalshi, UploadPart, Publish, Fail, Crash, vars

LEMMA StepDays == TypeInv /\ DayInv /\ [Next]_vars => DayInv'
<1> SUFFICES ASSUME TypeInv, DayInv, [Next]_vars, stream' \in DateScoped, NEW d \in due'
             PROVE  Held(d)'
  BY DEF DayInv
<1>1. stream' = stream
  BY StreamStays
<1>2. stream \in DateScoped
  BY <1>1
<1>3. due \subseteq Int
  BY DEF TypeInv, TypeOK
<1>4. CASE Tick
  BY <1>2, <1>3, <1>4, TickHolds DEF DayInv, Tick, history
<1>5. ASSUME NEW r \in Records, Change(r) PROVE Held(d)'
  BY <1>2, <1>3, <1>5, ChangeHolds DEF DayInv, Change
<1>r. ~Rearrange
  BY <1>2, StreamsApart DEF Rearrange
<1>6. ASSUME NEW j \in Jobs, Command(j) \/ Plan(j) PROVE Held(d)'
  BY <1>2, <1>6, CommandHolds
<1>7. ASSUME NEW j \in Jobs, Fetch(j) PROVE Held(d)'
  BY <1>2, <1>7, FetchHolds
<1>8. ASSUME NEW j \in Jobs, Store(j) PROVE Held(d)'
  BY <1>2, <1>8, StoreIs, UploadHolds, PublishHolds
<1>9. ASSUME NEW j \in Jobs, Fail(j) \/ Crash(j) PROVE Held(d)'
  BY <1>2, <1>9, EndHolds
<1>10. CASE UNCHANGED vars
  <2>1. Held(d)
    BY <1>2, <1>10 DEF DayInv, vars, history
  <2>2. UNCHANGED <<stream, api, parts, manifests, job>>
    BY <1>10 DEF vars, bronze
  <2>3. CASE Complete(d)
    BY <2>2, <2>3, CompleteKept DEF Held, api
  <2>4. ASSUME NEW r \in Doing, WillStore(r, d) PROVE Held(d)'
    <3>1. WillStore(r, d)' /\ Doing' = Doing
      BY <2>2, <2>4, WillKept DEF Doing, api
    <3> QED
      BY <3>1 DEF Held
  <2> QED
    BY <2>1, <2>3, <2>4 DEF Held
<1> QED
  BY <1>4, <1>5, <1>r, <1>6, <1>7, <1>8, <1>9, <1>10 DEF Next

(* The trades of a day before the latest partition are stored when a run   *)
(* undertook that day, unless the run died or failed on it, or had read it *)
(* before it was over.                                                     *)
THEOREM DaysAreComplete == Spec => []DayComplete
<1>1. Init => DayInv
  BY DEF Init, DayInv
<1>2. TypeInv /\ DayInv => DayComplete
  <2> SUFFICES ASSUME TypeInv, DayInv, stream \in DateScoped, NEW r \in Present,
                      DayOf(updated[r]) \in due, Passed(DayOf(updated[r]))
               PROVE  <<r, updated[r]>> \in Stored
    BY DEF DayComplete
  <2>1. PICK d \in due : d = DayOf(updated[r])
    OBVIOUS
  <2>2. d \in Int /\ job \in [Jobs -> JobRecord] /\ Passed(d)
    BY <2>1 DEF TypeInv, TypeOK
  <2>3. ASSUME NEW n \in Doing, WillStore(n, d) PROVE FALSE
    <3>1. PICK j \in Jobs : n = job[j]
      BY DEF Doing
    <3>2. n.dt \in Int /\ n.last \in Int /\ n.dt <= d /\ d <= n.last /\ n.step \in Fetching
      BY <2>2, <2>3, <3>1 DEF WillStore, JobRecord
    <3> QED
      BY <2>2, <3>1, <3>2 DEF Passed, Fetching
  <2>4. Complete(d)
    BY <2>3 DEF DayInv, Held
  <2> QED
    BY <2>1, <2>4 DEF Complete
<1> QED
  BY TypesHold, <1>1, <1>2, StepDays, PTL DEF Spec

(* --------------------- places in an ordered answer --------------------- *)

StrictOrder(S, R) ==
  /\ \A a \in S : <<a, a>> \notin R
  /\ \A a \in S : \A b \in S : \A c \in S : <<a, b>> \in R /\ <<b, c>> \in R => <<a, c>> \in R
  /\ \A a \in S : \A b \in S : a = b \/ <<a, b>> \in R \/ <<b, a>> \in R

Below(S, R, a) == {b \in S : <<b, a>> \in R}

Rank(S, R, a) == Cardinality(Below(S, R, a))

LEMMA RankType ==
  ASSUME NEW S, NEW R, IsFiniteSet(S), NEW a
  PROVE  IsFiniteSet(Below(S, R, a)) /\ Rank(S, R, a) \in Nat
<1>1. Below(S, R, a) \in SUBSET S
  BY DEF Below
<1> QED
  BY <1>1, FS_Subset, FS_CardinalityType DEF Rank

LEMMA RankGrows ==
  ASSUME NEW S, NEW R, IsFiniteSet(S), StrictOrder(S, R), NEW a \in S, NEW b \in S, <<a, b>> \in R
  PROVE  Rank(S, R, a) < Rank(S, R, b)
<1> DEFINE A == Below(S, R, a)
           B == Below(S, R, b)
<1>1. IsFiniteSet(A) /\ IsFiniteSet(B) /\ Cardinality(A) \in Nat /\ Cardinality(B) \in Nat
  BY RankType, FS_CardinalityType
<1>2. a \in B /\ a \notin A
  BY DEF Below, StrictOrder
<1>3. A \in SUBSET (B \ {a})
  BY <1>2 DEF Below, StrictOrder
<1>4. IsFiniteSet(B \ {a}) /\ Cardinality(B \ {a}) = Cardinality(B) - 1
  BY <1>1, <1>2, FS_RemoveElement
<1>5. Cardinality(A) <= Cardinality(B \ {a})
  BY <1>3, <1>4, FS_Subset
<1> QED
  BY <1>1, <1>4, <1>5 DEF Rank

(* No place is left out before one that is taken.                          *)
LEMMA EveryPlaceTaken ==
  ASSUME NEW S, NEW R, IsFiniteSet(S), StrictOrder(S, R), NEW v \in S, NEW n \in Nat,
         n <= Rank(S, R, v)
  PROVE  \E w \in S : Rank(S, R, w) = n
<1> DEFINE P(a) == Rank(S, R, a)
           W == {w \in S : n <= P(w)}
           Q == {P(w) : w \in W}
<1>0. \A w \in S : P(w) \in Nat
  BY RankType
<1>1. Q \in SUBSET Nat /\ Q # {}
  BY <1>0
<1>2. PICK k \in Q : \A l \in Q : k <= l
  <2> HIDE DEF Q
  <2> QED
    BY <1>1, LeastExists
<1>3. PICK w \in W : k = P(w)
  OBVIOUS
<1> DEFINE B == Below(S, R, w)
           f == [b \in B |-> P(b)]
<1>4. \A b \in B : b \in S /\ P(b) < P(w)
  BY RankGrows DEF Below
<1>5. \A b \in B : P(b) \in 0..(n - 1)
  <2>1. ASSUME NEW b \in B, n <= P(b) PROVE FALSE
    <3>1. P(b) \in Q
      BY <1>4, <2>1
    <3>2. P(b) \in Nat /\ P(w) \in Nat /\ P(b) < P(w)
      BY <1>0, <1>4
    <3> QED
      BY <1>2, <1>3, <3>1, <3>2
  <2>2. \A b \in B : P(b) \in Nat
    BY <1>0, <1>4
  <2> HIDE DEF B, P
  <2> QED
    BY <2>1, <2>2
<1>6. f \in Injection(B, 0..(n - 1))
  <2>1. ASSUME NEW b \in B, NEW c \in B, P(b) = P(c) PROVE b = c
    <3>1. b \in S /\ c \in S /\ P(b) \in Nat
      BY <1>0, <1>4
    <3>2. <<b, c>> \notin R /\ <<c, b>> \notin R
      BY <2>1, <3>1, RankGrows
    <3> QED
      BY <3>1, <3>2 DEF StrictOrder
  <2>2. \A b \in B : f[b] = P(b)
    OBVIOUS
  <2>3. f \in [B -> 0..(n - 1)]
    <3> HIDE DEF P, B
    <3> QED
      BY <1>5
  <2> HIDE DEF P, B, f
  <2> QED
    BY <2>1, <2>2, <2>3 DEF Injection, IsInjective
<1>7. IsFiniteSet(0..(n - 1)) /\ Cardinality(0..(n - 1)) = n
  <2>1. PICK k0 \in Int : k0 = n - 1
    OBVIOUS
  <2>2. /\ IsFiniteSet(0..k0)
        /\ Cardinality(0..k0) = IF 0 > k0 THEN 0 ELSE k0 - 0 + 1
    BY FS_Interval
  <2> HIDE DEF P, W, Q, B, f
  <2>3. Cardinality(0..k0) = n
    BY ONLY <2>1, <2>2, n \in Nat
  <2> QED
    BY ONLY <2>1, <2>2, <2>3
<1>8. Cardinality(B) <= n
  <2> HIDE DEF B, f
  <2> QED
    BY <1>6, <1>7, FS_Injection
<1> QED
  BY <1>0, <1>3, <1>8 DEF Rank

(* A range of places below one that is taken is taken as a whole.          *)
LEMMA PageIsFull ==
  ASSUME NEW S, NEW R, IsFiniteSet(S), StrictOrder(S, R), NEW v \in S, NEW o \in Nat,
         NEW n \in Nat, o + n <= Rank(S, R, v), NEW T \in SUBSET S,
         \A w \in S : o <= Rank(S, R, w) /\ Rank(S, R, w) < o + n => w \in T
  PROVE  IsFiniteSet(T) /\ n <= Cardinality(T)
<1> DEFINE P(a) == Rank(S, R, a)
           D == o..(o + n - 1)
           U == {w \in T : P(w) \in D}
           f == [w \in U |-> P(w)]
<1>0. \A w \in S : P(w) \in Nat
  BY RankType
<1>1. \A d \in D : \E w \in U : P(w) = d
  <2>1. ASSUME NEW d \in D PROVE \E w \in U : P(w) = d
    <3>1. d \in Nat /\ d <= P(v) /\ o <= d /\ d < o + n
      BY <1>0
    <3>2. PICK w \in S : P(w) = d
      BY <3>1, EveryPlaceTaken
    <3> QED
      BY <3>1, <3>2
  <2> QED
    BY <2>1
<1>2. f \in Surjection(U, D)
  <2> HIDE DEF P, D
  <2> QED
    BY <1>1 DEF Surjection
<1>3. IsFiniteSet(T)
  BY FS_Subset
<1>4. U \in SUBSET T
  OBVIOUS
<1>5. IsFiniteSet(U) /\ Cardinality(U) <= Cardinality(T)
  <2> HIDE DEF U
  <2> QED
    BY <1>3, <1>4, FS_Subset
<1>6. Cardinality(D) <= Cardinality(U)
  <2> HIDE DEF U, f, D
  <2> QED
    BY <1>2, <1>5, FS_Surjection
<1>7. Cardinality(D) = n /\ IsFiniteSet(D)
  <2>1. o \in Int /\ o + n - 1 \in Int
    OBVIOUS
  <2> QED
    BY <2>1, FS_Interval
<1>8. Cardinality(U) \in Nat /\ Cardinality(T) \in Nat
  BY <1>3, <1>5, FS_CardinalityType
<1> QED
  BY <1>3, <1>5, <1>6, <1>7, <1>8

(* ------------------------------- catalogs ------------------------------ *)

(* The records before record q in the answer to run r, and how many.       *)
Ahead(r, q) == {p \in Present : Before(place, r, <<p, updated[p]>>, <<q, updated[q]>>)}

Place(r, q) == Cardinality(Ahead(r, q))

(* The same when the API has its records in the order o.                   *)
AheadIn(o, r, q) == {p \in Present : Before(o, r, <<p, updated[p]>>, <<q, updated[q]>>)}

PlaceIn(o, r, q) == Cardinality(AheadIn(o, r, q))

Order(r) ==
  {e \in Present \X Present : Before(place, r, <<e[1], updated[e[1]]>>, <<e[2], updated[e[2]]>>)}

LEMMA PresentTyped ==
  ASSUME TypeOK
  PROVE  /\ IsFiniteSet(Present) /\ Present \subseteq Nat /\ Present \subseteq Records
         /\ \A q \in Present : updated[q] \in Nat /\ <<q, updated[q]>> \in Versions
<1>1. Present \subseteq Records
  BY DEF Present
<1> QED
  BY <1>1, FS_Subset, BronzeAssumption DEF Present, TypeOK, Versions

LEMMA OrderStrict ==
  ASSUME TypeOK, NEW r
  PROVE  /\ StrictOrder(Present, Order(r))
         /\ \A q \in Present : Rank(Present, Order(r), q) = Place(r, q) /\ Place(r, q) \in Nat
<1> DEFINE B(p, q) == Before(place, r, <<p, updated[p]>>, <<q, updated[q]>>)
<1>1. \A p \in Present : p \in Nat /\ updated[p] \in Nat
  BY PresentTyped
<1>2. \A p \in Present : \A q \in Present : <<p, q>> \in Order(r) <=> B(p, q)
  BY DEF Order
<1>a. /\ \A p \in Present : place[p] \in Nat
      /\ \A p \in Present : \A q \in Present : place[p] = place[q] => p = q
  BY PresentTyped, BronzeAssumption DEF TypeOK, Places
<1>3. \A p \in Present : \A q \in Present :
        B(p, q) <=> IF stream \notin DateScoped /\ r.since = NoCursor THEN place[p] < place[q]
                    ELSE \/ updated[p] > updated[q]
                         \/ updated[p] = updated[q] /\ place[p] < place[q]
  BY DEF Before
<1>4. StrictOrder(Present, Order(r))
  <2>1. \A p \in Present : ~B(p, p)
    BY <1>1, <1>a, <1>3
  <2>2. ASSUME NEW a \in Present, NEW b \in Present, NEW c \in Present, B(a, b), B(b, c)
        PROVE  B(a, c)
    <3>1. /\ place[a] \in Nat /\ place[b] \in Nat /\ place[c] \in Nat
          /\ updated[a] \in Nat /\ updated[b] \in Nat /\ updated[c] \in Nat
      BY <1>1, <1>a
    <3> HIDE DEF B
    <3>2. CASE stream \notin DateScoped /\ r.since = NoCursor
      BY <1>3, <2>2, <3>1, <3>2
    <3>3. CASE ~(stream \notin DateScoped /\ r.since = NoCursor)
      BY <1>3, <2>2, <3>1, <3>3
    <3> QED
      BY <3>2, <3>3
  <2>3. ASSUME NEW a \in Present, NEW b \in Present PROVE a = b \/ B(a, b) \/ B(b, a)
    <3>1. /\ place[a] \in Nat /\ place[b] \in Nat /\ (place[a] = place[b] => a = b)
          /\ updated[a] \in Nat /\ updated[b] \in Nat
      BY <1>1, <1>a
    <3> HIDE DEF B
    <3> QED
      BY <1>3, <3>1
  <2> HIDE DEF B
  <2> QED
    BY <1>2, <2>1, <2>2, <2>3 DEF StrictOrder
<1>5. ASSUME NEW q \in Present
      PROVE  Rank(Present, Order(r), q) = Place(r, q) /\ Place(r, q) \in Nat
  <2>1. Below(Present, Order(r), q) = Ahead(r, q)
    BY <1>2 DEF Below, Ahead
  <2> QED
    BY <2>1, PresentTyped, RankType DEF Rank, Place
<1> QED
  BY <1>4, <1>5

LEMMA PlaceInIs ==
  ASSUME TypeOK, NEW o, NEW r, r.all, NEW q \in Present
  PROVE  /\ <<q, updated[q]>> \in Answer(r)
         /\ Position(o, r, <<q, updated[q]>>) = PlaceIn(o, r, q) /\ PlaceIn(o, r, q) \in Nat
<1> DEFINE v == <<q, updated[q]>>
           A == {w \in Answer(r) : Before(o, r, w, v)}
           f == [p \in AheadIn(o, r, q) |-> <<p, updated[p]>>]
<1>1. Answer(r) = Versions
  BY DEF Answer
<1>2. v \in Versions
  BY DEF Versions
<1>3. f \in [AheadIn(o, r, q) -> A]
  BY <1>1 DEF AheadIn, Versions
<1>4. \A w \in A : \E p \in AheadIn(o, r, q) : f[p] = w
  BY <1>1 DEF AheadIn, Versions
<1>5. \A a, b \in AheadIn(o, r, q) : f[a] = f[b] => a = b
  OBVIOUS
<1>6. f \in Bijection(AheadIn(o, r, q), A)
  <2> HIDE DEF f, A
  <2> QED
    BY <1>3, <1>4, <1>5 DEF Bijection, Injection, Surjection, IsInjective
<1>7. IsFiniteSet(AheadIn(o, r, q))
  <2>1. AheadIn(o, r, q) \in SUBSET Present
    BY DEF AheadIn
  <2> QED
    BY <2>1, PresentTyped, FS_Subset
<1>8. Cardinality(A) = Cardinality(AheadIn(o, r, q))
  <2> HIDE DEF f, A
  <2> QED
    BY <1>6, <1>7, FS_Bijection DEF ExistsBijection
<1>9. PlaceIn(o, r, q) \in Nat
  BY <1>7, FS_CardinalityType DEF PlaceIn
<1> QED
  BY <1>1, <1>2, <1>8, <1>9 DEF Position, PlaceIn

LEMMA PlaceIs ==
  ASSUME TypeOK, NEW r, r.all, NEW q \in Present
  PROVE  /\ <<q, updated[q]>> \in Answer(r)
         /\ Position(place, r, <<q, updated[q]>>) = Place(r, q)
<1>1. PlaceIn(place, r, q) = Place(r, q)
  BY DEF PlaceIn, AheadIn, Place, Ahead
<1> QED
  BY <1>1, PlaceInIs

(* The page a run reads, and when there is nothing after it.               *)
LEMMA PageHas ==
  ASSUME TypeOK, NEW r, r.all, NEW q \in Present
  PROVE  <<q, updated[q]>> \in Page(r) <=> r.offset <= Place(r, q) /\ Place(r, q) < r.offset + PageSize
  BY PlaceIs DEF Page

LEMMA PageEnds ==
  ASSUME TypeOK, NEW r \in JobRecord, r.all, NEW q \in Present, r.offset + PageSize <= Place(r, q)
  PROVE  Page(r) # {} /\ PageSize <= Cardinality(Page(r)) /\ ~LastPage(r)
<1> DEFINE T == {p \in Present : <<p, updated[p]>> \in Page(r)}
           f == [p \in T |-> <<p, updated[p]>>]
<1>1. /\ StrictOrder(Present, Order(r)) /\ IsFiniteSet(Present)
      /\ \A p \in Present : Rank(Present, Order(r), p) = Place(r, p) /\ Place(r, p) \in Nat
  BY OrderStrict, PresentTyped
<1>2. r.offset \in Nat /\ PageSize \in Nat /\ PageSize # 0
  BY BronzeAssumption DEF JobRecord
<1>3. \A p \in Present : r.offset <= Place(r, p) /\ Place(r, p) < r.offset + PageSize => p \in T
  BY PageHas
<1>4. PageSize <= Cardinality(T) /\ IsFiniteSet(T)
  <2>1. T \in SUBSET Present
    OBVIOUS
  <2>2. r.offset + PageSize <= Rank(Present, Order(r), q)
    BY <1>1
  <2>3. \A w \in Present : r.offset <= Rank(Present, Order(r), w)
                           /\ Rank(Present, Order(r), w) < r.offset + PageSize => w \in T
    BY <1>1, <1>3
  <2> HIDE DEF T
  <2> QED
    BY <1>1, <1>2, <2>1, <2>2, <2>3, PageIsFull
<1>5. f \in Injection(T, Page(r))
  <2>1. f \in [T -> Page(r)]
    OBVIOUS
  <2>2. \A a, b \in T : f[a] = f[b] => a = b
    OBVIOUS
  <2> HIDE DEF f, T
  <2> QED
    BY <2>1, <2>2 DEF Injection, IsInjective
<1>6. IsFiniteSet(Page(r)) /\ Cardinality(T) <= Cardinality(Page(r))
  <2>1. IsFiniteSet(Page(r))
    BY VersionsTyped
  <2> HIDE DEF f, T
  <2> QED
    BY <1>5, <2>1, FS_Injection
<1>7. Cardinality(Page(r)) \in Nat /\ Cardinality(T) \in Nat
  BY <1>4, <1>6, FS_CardinalityType
<1>8. PageSize <= Cardinality(Page(r))
  <2> HIDE DEF T
  <2> QED
    BY <1>2, <1>4, <1>6, <1>7
<1>9. Page(r) # {}
  BY <1>2, <1>8, FS_EmptySet
<1>10. ~LastPage(r)
  <2>1. /\ Position(place, r, <<q, updated[q]>>) < Cardinality(Answer(r))
        /\ Position(place, r, <<q, updated[q]>>) = Place(r, q)
    BY PlaceIs, PositionBound
  <2>2. IsFiniteSet(Answer(r)) /\ Cardinality(Answer(r)) \in Nat
    BY VersionsTyped, FS_CardinalityType
  <2>3. Place(r, q) \in Nat
    BY <1>1
  <2> QED
    BY <1>2, <2>1, <2>2, <2>3 DEF LastPage
<1> QED
  BY <1>8, <1>9, <1>10

(* A change takes no record to an earlier place but the one that changes.  *)
LEMMA ChangeMovesBack ==
  ASSUME TypeOK, \A p \in Present : updated[p] <= now, NEW c \in Records, Change(c), NEW r,
         NEW q \in Present, q # c
  PROVE  q \in Present' /\ updated'[q] = updated[q] /\ Place(r, q) <= Place(r, q)'
<1>1. /\ now \in Nat /\ updated' = [updated EXCEPT ![c] = now] /\ stream' = stream
      /\ place' = place /\ updated \in [Records -> Nat \cup {Absent}] /\ q \in Records
  BY DEF Change, TypeOK, Present
<1>2. updated'[c] = now /\ \A p \in Records \ {c} : updated'[p] = updated[p]
  BY <1>1
<1>3. Present' = Present \cup {c}
  BY <1>1, <1>2 DEF Present, Absent
<1>4. IsFiniteSet(Present') /\ Present' \subseteq Nat
  BY <1>3, PresentTyped, FS_AddElement, BronzeAssumption
<1>5. \A v, w : Before(place, r, v, w)' = Before(place, r, v, w)
  BY <1>1 DEF Before
<1>6. ASSUME NEW p \in Ahead(r, q) PROVE p \in Ahead(r, q)'
  <2>1. p \in Present /\ p \in Nat /\ q \in Nat /\ updated[p] \in Nat /\ updated[q] \in Nat
    BY PresentTyped DEF Ahead
  <2>2. updated'[q] = updated[q]
    BY <1>1, <1>2
  <2>3. Before(place, r, <<p, updated[p]>>, <<q, updated[q]>>)
    BY DEF Ahead
  <2>4. CASE p # c
    <3>1. updated'[p] = updated[p]
      BY <1>2, <2>1, <2>4, PresentTyped
    <3> QED
      BY <1>3, <1>5, <2>1, <2>2, <2>3, <3>1 DEF Ahead
  <2>5. CASE p = c
    <3>1. Before(place, r, <<p, now>>, <<q, updated[q]>>)
      <4>1. updated[p] <= now
        BY <2>1
      <4> QED
        BY <1>1, <2>1, <2>3, <4>1 DEF Before
    <3> QED
      BY <1>2, <1>3, <1>5, <2>1, <2>2, <2>5, <3>1 DEF Ahead
  <2> QED
    BY <2>4, <2>5
<1>7. Ahead(r, q)' \in SUBSET Present'
  BY DEF Ahead
<1>8. IsFiniteSet(Ahead(r, q)')
  BY <1>4, <1>7, FS_Subset
<1>9. Ahead(r, q) \in SUBSET (Ahead(r, q)')
  BY <1>6
<1> QED
  BY <1>1, <1>2, <1>3, <1>8, <1>9, FS_Subset DEF Place

(* What a run has read past.                                               *)
Past(r, q) == r.done \/ Place(r, q) < r.offset

(* A snapshot has all it has read past, of the records seen at its start   *)
(* some version, and the last one unless that slipped in behind it.        *)
SnapInv(r, seen, lost) ==
  /\ \A q \in seen : Past(r, q) => \E v \in Gathered(r) : v[1] = q
  /\ \A q \in Present \ lost : Past(r, q) => <<q, updated[q]>> \in Gathered(r)

(* A delta has all it has read past, from the cursor it began with up to   *)
(* the one it would end with now.                                          *)
DeltaInv(r, lost) ==
  \A q \in Present \ lost :
    /\ Past(r, q) /\ r.top # NoTick
    /\ r.since < Second(updated[q]) /\ Second(updated[q]) <= Second(r.top)
    => <<q, updated[q]>> \in Gathered(r)

(* What a run is after a page.                                             *)
LEMMA FetchedIs ==
  ASSUME TypeOK, NEW r \in JobRecord, NEW rows, NEW done, NEW step, NEW n,
         n = Fetched(r, rows, done, step)
  PROVE  /\ n.all = r.all /\ n.dt = r.dt /\ n.last = r.last /\ n.since = r.since /\ n.run = r.run
         /\ n.files = r.files /\ n.batch = r.batch \cup rows /\ n.done = done /\ n.step = step
         /\ n.offset = r.offset + PageSize /\ n.top = Latest(r.top, rows)
         /\ \A q : Place(n, q) = Place(r, q)
         /\ Gathered(n) = Gathered(r) \cup rows
<1>1. /\ n.all = r.all /\ n.dt = r.dt /\ n.last = r.last /\ n.since = r.since /\ n.run = r.run
      /\ n.files = r.files /\ n.batch = r.batch \cup rows /\ n.done = done /\ n.step = step
      /\ n.offset = r.offset + PageSize /\ n.top = Latest(r.top, rows)
  BY DEF Fetched
<1>2. \A v, w : Before(place, n, v, w) = Before(place, r, v, w)
  BY <1>1 DEF Before
<1>3. \A q : Ahead(n, q) = Ahead(r, q)
  BY <1>2 DEF Ahead
<1>4. \A q : Place(n, q) = Place(r, q)
  BY <1>3 DEF Place
<1>5. Gathered(n) = Gathered(r) \cup rows
  BY <1>1 DEF Gathered
<1> QED
  BY <1>1, <1>4, <1>5

(* A page of a snapshot.                                                   *)
LEMMA SnapPage ==
  ASSUME TypeOK, NEW r \in JobRecord, r.all, ~r.done, NEW seen \in SUBSET Present, NEW lost,
         SnapInv(r, seen, lost), NEW done, NEW step, NEW n,
         n = Fetched(r, Page(r), done, step),
         done => LastPage(r) \/ Cardinality(Page(r)) < PageSize
  PROVE  SnapInv(n, seen, lost)
<1>1. /\ n.done = done /\ n.offset = r.offset + PageSize
      /\ \A q : Place(n, q) = Place(r, q)
      /\ Gathered(n) = Gathered(r) \cup Page(r)
  BY FetchedIs
<1>2. r.offset \in Nat /\ PageSize \in Nat /\ \A q \in Present : Place(r, q) \in Nat
  BY OrderStrict, BronzeAssumption DEF JobRecord
<1>3. Cardinality(Page(r)) \in Nat
  BY VersionsTyped, FS_CardinalityType
<1>4. ASSUME NEW q \in Present, Past(n, q)
      PROVE  Past(r, q) \/ <<q, updated[q]>> \in Page(r)
  <2>1. Place(r, q) < r.offset + PageSize
    <3>1. ~(r.offset + PageSize <= Place(r, q)) \/ ~done
      BY <1>2, <1>3, PageEnds
    <3> QED
      BY <1>1, <1>2, <1>4, <3>1 DEF Past
  <2> QED
    BY <1>2, <2>1, PageHas DEF Past
<1>5. ASSUME NEW q \in seen, Past(n, q) PROVE \E v \in Gathered(n) : v[1] = q
  <2>1. q \in Present /\ <<q, updated[q]>>[1] = q
    OBVIOUS
  <2>2. CASE Past(r, q)
    BY <1>1, <2>2 DEF SnapInv
  <2>3. CASE <<q, updated[q]>> \in Page(r)
    BY <1>1, <2>1, <2>3
  <2> QED
    BY <1>4, <1>5, <2>1, <2>2, <2>3
<1>6. ASSUME NEW q \in Present \ lost, Past(n, q) PROVE <<q, updated[q]>> \in Gathered(n)
  BY <1>1, <1>4, <1>6 DEF SnapInv
<1> QED
  BY <1>5, <1>6 DEF SnapInv

(* A page of a delta: what it raises the cursor to is behind what it had   *)
(* no chance to read, or that is lost.                                     *)
LEMMA DeltaPage ==
  ASSUME TypeOK, NEW r \in JobRecord, r.all, ~r.done, r.since # NoCursor, NEW lost,
         DeltaInv(r, lost), NEW new, new = {v \in Page(r) : NewerThan(r, v)},
         NEW done, done => Page(r) = {} \/ new # Page(r), NEW step, NEW n,
         n = Fetched(r, new, done, step), r.top \in Nat \cup {NoTick}
  PROVE  DeltaInv(n, lost \cup Overtaken(r, new))
<1>1. /\ n.done = done /\ n.offset = r.offset + PageSize /\ n.since = r.since
      /\ n.top = Latest(r.top, new)
      /\ \A q : Place(n, q) = Place(r, q)
      /\ Gathered(n) = Gathered(r) \cup new
  BY FetchedIs
<1>2. r.offset \in Nat /\ PageSize \in Nat /\ \A q \in Present : Place(r, q) \in Nat
  BY OrderStrict, BronzeAssumption DEF JobRecord
<1>3. new \in SUBSET VersionSet /\ IsFiniteSet(new) /\ r.top \in Int /\ r.since \in Int
  <2>1. new \in SUBSET Page(r)
    OBVIOUS
  <2> QED
    BY <2>1, VersionsTyped, FS_Subset DEF JobRecord
<1>4. \A q \in Present : updated[q] \in Nat /\ Second(updated[q]) \in Int
  BY PresentTyped, Clock
<1>5. SUFFICES ASSUME NEW q \in Present, q \notin lost, q \notin Overtaken(r, new), Past(n, q),
                      n.top # NoTick, r.since < Second(updated[q]),
                      Second(updated[q]) <= Second(n.top), <<q, updated[q]>> \notin new
               PROVE  <<q, updated[q]>> \in Gathered(r)
  BY <1>1 DEF DeltaInv
<1> DEFINE v == <<q, updated[q]>>
<1>a. NewerThan(r, v)
  BY <1>5 DEF NewerThan
<1>b. v \notin Page(r)
  BY <1>5, <1>a
(* The version w of a record p of this page is not before one that is      *)
(* before the page, and not behind one that is behind it.                  *)
<1>c. ASSUME NEW w \in Page(r)
      PROVE  \E p \in Present : w = <<p, updated[p]>> /\ r.offset <= Place(r, p)
                                /\ Place(r, p) < r.offset + PageSize
  <2>1. w \in Versions
    BY VersionsTyped
  <2>2. PICK p \in Present : w = <<p, updated[p]>>
    BY <2>1 DEF Versions
  <2> QED
    BY <2>2, PageHas
<1>d. ASSUME NEW p \in Present, NEW o \in Present, Place(r, p) < Place(r, o)
      PROVE  updated[o] <= updated[p]
  <2>1. /\ StrictOrder(Present, Order(r)) /\ IsFiniteSet(Present)
        /\ \A x \in Present : Rank(Present, Order(r), x) = Place(r, x) /\ Place(r, x) \in Nat
    BY OrderStrict, PresentTyped
  <2>2. <<o, p>> \notin Order(r)
    <3>1. ASSUME <<o, p>> \in Order(r) PROVE Place(r, o) < Place(r, p)
      BY <2>1, <3>1, RankGrows
    <3> QED
      BY <1>d, <2>1, <3>1
  <2>3. ~Before(place, r, <<o, updated[o]>>, <<p, updated[p]>>)
    BY <2>2 DEF Order
  <2> QED
    BY <1>4, <2>3 DEF Before
<1>6. CASE Place(r, q) < r.offset
  <2>1. n.top = r.top
    <3>1. ASSUME n.top # r.top PROVE FALSE
      <4>1. PICK w \in new : n.top = w[2]
        BY <1>1, <1>3, <3>1, LatestIs
      <4>2. PICK p \in Present : w = <<p, updated[p]>> /\ r.offset <= Place(r, p)
        BY <1>c, <4>1
      <4>3. updated[p] <= updated[q]
        BY <1>2, <1>6, <1>d, <4>2
      <4>4. Second(n.top) <= Second(updated[q])
        BY <1>4, <4>1, <4>2, <4>3, SecondsGrow
      <4>5. Second(updated[q]) = Second(n.top)
        <5>1. n.top \in Int /\ Second(n.top) \in Int
          BY <1>4, <4>1, <4>2
        <5> QED
          BY <1>4, <1>5, <4>4, <5>1
      <4>6. Position(place, r, v) < r.offset
        BY <1>6, PlaceIs
      <4> QED
        BY <1>1, <1>5, <3>1, <4>5, <4>6 DEF Overtaken
    <3> QED
      BY <3>1
  <2> QED
    BY <1>1, <1>5, <1>6, <2>1 DEF DeltaInv, Past
<1>7. CASE r.offset <= Place(r, q) /\ Place(r, q) < r.offset + PageSize
  BY <1>7, <1>b, PageHas
<1>8. CASE r.offset + PageSize <= Place(r, q)
  <2>1. done /\ Page(r) # {}
    BY <1>1, <1>2, <1>5, <1>8, PageEnds DEF Past
  <2>2. PICK w \in Page(r) : ~NewerThan(r, w)
    BY <2>1
  <2>3. PICK p \in Present : w = <<p, updated[p]>> /\ Place(r, p) < r.offset + PageSize
    BY <1>c, <2>2
  <2>4. updated[q] <= updated[p]
    BY <1>2, <1>8, <1>d, <2>3
  <2>5. Second(updated[q]) <= Second(updated[p]) /\ Second(updated[p]) \in Int
    BY <1>4, <2>4, SecondsGrow
  <2>6. ~(Second(updated[p]) > r.since)
    BY <2>2, <2>3 DEF NewerThan
  <2> QED
    BY <1>3, <1>4, <1>5, <2>5, <2>6
<1> QED
  BY <1>2, <1>6, <1>7, <1>8

JobInv(r) ==
  /\ r.all /\ r.dt = r.last
  /\ r.step = "page" => ~r.done
  /\ r.step = "publish" => r.done /\ r.batch = {}
  /\ r.top = NoTick \/ (r.top \in Nat /\ r.top <= now)
  /\ r.since = NoCursor => SnapInv(r, known[r.run], slipped)
  /\ r.since # NoCursor => /\ stream \in Incremental /\ DeltaInv(r, slipped)
                           /\ \E m \in manifests : m.cursor = r.since

(* What a manifest promises.                                               *)
ManifestInv(m) ==
  /\ m.run \in 1..runs
  /\ m.cursor <= Second(now)
  /\ stream \notin Incremental => m.cursor = NoCursor
  /\ \A q \in Present \ slipped : Second(updated[q]) <= m.cursor => <<q, updated[q]>> \in Stored
  /\ m.kind = "snapshot" => \A q \in known[m.run] : \E v \in RowsOf(m) : v[1] = q

RunsApart ==
  \A j \in Jobs : job[j].step \in Fetching =>
    /\ job[j].run \in 1..runs
    /\ \A m \in manifests : m.run # job[j].run
    /\ \A i \in Jobs \ {j} : job[i].step \in Fetching => job[i].run # job[j].run

CatalogInv ==
  /\ \A q \in Present : updated[q] <= now
  /\ \A n \in 1..MaxRuns : known[n] \subseteq Present
  /\ \A m \in manifests : ManifestInv(m)
  /\ \A r \in Doing : r.step \in Fetching => JobInv(r)
  /\ RunsApart

LEMMA SamePlace ==
  ASSUME updated' = updated, stream' = stream, place' = place, NEW r
  PROVE  Present' = Present /\ \A q : Place(r, q)' = Place(r, q)
<1>1. Present' = Present
  BY DEF Present
<1>2. \A v, w : Before(place, r, v, w)' = Before(place, r, v, w)
  BY DEF Before
<1>3. \A q : Ahead(r, q)' = Ahead(r, q)
  BY <1>1, <1>2 DEF Ahead
<1> QED
  BY <1>1, <1>3 DEF Place

LEMMA RowsGrow ==
  ASSUME parts \subseteq parts', NEW m
  PROVE  RowsOf(m) \subseteq RowsOf(m)'
  BY DEF RowsOf

(* What the others do leaves a run and a manifest what they were.          *)
LEMMA JobKept ==
  ASSUME UNCHANGED <<stream, updated, place>>, now \in Int, now' \in Int, now <= now',
         parts \subseteq parts',
         manifests \subseteq manifests', slipped \subseteq slipped', NEW r,
         known'[r.run] = known[r.run], JobInv(r)
  PROVE  JobInv(r)'
<1>1. Gathered(r) \subseteq Gathered(r)'
  BY GatheredGrows
<1>2. Present' = Present /\ \A q : Place(r, q)' = Place(r, q)
  BY SamePlace
<1>3. \A q : Past(r, q)' <=> Past(r, q)
  BY <1>2 DEF Past
<1>4. \A t : Second(t)' = Second(t)
  BY DEF Second
<1>5. SnapInv(r, known[r.run], slipped) => SnapInv(r, known[r.run], slipped)'
  BY <1>1, <1>2, <1>3 DEF SnapInv
<1>6. DeltaInv(r, slipped) => DeltaInv(r, slipped)'
  BY <1>1, <1>2, <1>3, <1>4 DEF DeltaInv
<1>7. r.top = NoTick \/ (r.top \in Nat /\ r.top <= now')
  BY DEF JobInv
<1> QED
  BY <1>5, <1>6, <1>7 DEF JobInv

LEMMA ManifestKept ==
  ASSUME TypeOK, UNCHANGED <<stream, updated>>, now' \in Nat, now <= now', parts \subseteq parts',
         manifests \subseteq manifests', slipped \subseteq slipped', runs' \in Nat, runs <= runs',
         NEW m \in manifests, known'[m.run] \subseteq known[m.run], ManifestInv(m)
  PROVE  ManifestInv(m)'
<1>1. Stored \subseteq Stored' /\ RowsOf(m) \subseteq RowsOf(m)'
  BY StoredGrows, RowsGrow
<1>2. Present' = Present
  BY DEF Present
<1>3. \A q : Second(updated[q])' = Second(updated[q])
  BY DEF Second
<1>4. m.cursor <= Second(now')
  <2>1. Second(now) <= Second(now') /\ Second(now) \in Nat /\ Second(now') \in Nat
    BY SecondsGrow DEF TypeOK
  <2>2. m.cursor \in Int
    BY DEF TypeOK, ManifestRecord
  <2> QED
    BY <2>1, <2>2 DEF ManifestInv
<1>5. Second(now)' = Second(now')
  BY DEF Second
<1>6. m.run \in 1..runs'
  BY DEF ManifestInv, TypeOK
<1> QED
  BY <1>1, <1>2, <1>3, <1>4, <1>5, <1>6 DEF ManifestInv

(* A step of job j.                                                        *)
LEMMA JobStep ==
  ASSUME TypeInv, CatalogInv, stream \notin DateScoped, NEW j \in Jobs, NEW n, n = job'[j],
         \A i \in Jobs \ {j} : job'[i] = job[i], UNCHANGED <<stream, api>>,
         parts \subseteq parts', manifests \subseteq manifests', slipped \subseteq slipped',
         runs' \in Nat, runs <= runs',
         n.step \in Fetching => JobInv(n)',
         \A m \in manifests' \ manifests :
           ManifestInv(m)' /\ m.run = job[j].run /\ job[j].step \in Fetching,
         \/ n.step \notin Fetching /\ known' = known
         \/ /\ n.run = runs' /\ runs' = runs + 1 /\ known' = known /\ manifests' = manifests
         \/ /\ job[j].step \in Fetching /\ n.run = job[j].run /\ manifests' = manifests
            /\ \A k \in 1..MaxRuns : known'[k] \subseteq Present
                                     /\ (k # n.run => known'[k] = known[k])
  PROVE  CatalogInv'
<1>0. /\ TypeOK /\ now \in Nat /\ now' = now /\ updated' = updated /\ place' = place
      /\ runs \in 0..MaxRuns
      /\ MaxRuns \in Nat
  BY BronzeAssumption DEF TypeInv, TypeOK, api
<1>1. \A i \in Jobs : job[i].step \in Fetching =>
        /\ job[i].run \in 1..runs /\ job[i].run \in 1..MaxRuns
        /\ \A m \in manifests : m.run # job[i].run
        /\ \A l \in Jobs \ {i} : job[l].step \in Fetching => job[l].run # job[i].run
  BY <1>0 DEF CatalogInv, RunsApart
<1>2. \A m \in manifests : m.run \in 1..runs /\ m.run \in 1..MaxRuns
  BY <1>0 DEF CatalogInv, ManifestInv
<1>3. \A m \in manifests : known'[m.run] = known[m.run]
  BY <1>0, <1>1, <1>2
<1>4. \A i \in Jobs \ {j} : job[i].step \in Fetching => known'[job[i].run] = known[job[i].run]
  BY <1>0, <1>1
<1>5. Present' = Present
  BY <1>0 DEF Present
<1>6. \A m \in manifests' : ManifestInv(m)'
  <2>1. ASSUME NEW m \in manifests PROVE ManifestInv(m)'
    BY <1>0, <1>3, ManifestKept DEF CatalogInv
  <2> QED
    BY <2>1
<1>7. \A r \in Doing' : r.step \in Fetching => JobInv(r)'
  <2>1. ASSUME NEW i \in Jobs \ {j}, NEW r, r = job[i], r.step \in Fetching PROVE JobInv(r)'
    <3>1. r \in Doing
      BY <2>1 DEF Doing
    <3>2. JobInv(r) /\ known'[r.run] = known[r.run]
      BY <1>4, <2>1, <3>1 DEF CatalogInv
    <3> QED
      BY <1>0, <3>2, JobKept
  <2>2. ASSUME NEW r \in Doing', r.step \in Fetching PROVE JobInv(r)'
    <3>1. PICK i \in Jobs : r = job'[i]
      BY DEF Doing
    <3> QED
      BY <2>1, <2>2, <3>1
  <2> QED
    BY <2>2
<1>8. \A k \in 1..MaxRuns : known'[k] \subseteq Present
  BY DEF CatalogInv
<1>9. RunsApart'
  <2> SUFFICES ASSUME NEW i \in Jobs, job'[i].step \in Fetching
               PROVE  /\ job'[i].run \in 1..runs'
                      /\ \A m \in manifests' : m.run # job'[i].run
                      /\ \A l \in Jobs \ {i} :
                           job'[l].step \in Fetching => job'[l].run # job'[i].run
    BY DEF RunsApart
  <2>1. CASE n.step \notin Fetching
    <3>1. i # j /\ job'[i] = job[i] /\ job[i].run \in 1..runs'
      BY <1>0, <1>1, <2>1
    <3>2. \A m \in manifests' : m.run # job[i].run
      BY <1>1, <3>1
    <3> QED
      BY <1>1, <2>1, <3>1, <3>2
  <2>2. CASE n.run = runs' /\ runs' = runs + 1 /\ manifests' = manifests
    BY <1>0, <1>1, <1>2, <2>2
  <2>3. CASE job[j].step \in Fetching /\ n.run = job[j].run /\ manifests' = manifests
    BY <1>0, <1>1, <1>2, <2>3
  <2> QED
    BY <2>1, <2>2, <2>3
<1> QED
  BY <1>0, <1>5, <1>6, <1>7, <1>8, <1>9 DEF CatalogInv

LEMMA TickCatalog ==
  ASSUME TypeInv, CatalogInv, stream \notin DateScoped, Tick
  PROVE  CatalogInv'
<1>1. /\ TypeOK /\ now \in Nat /\ now' = now + 1 /\ updated' = updated /\ stream' = stream
      /\ place' = place /\ parts' = parts /\ manifests' = manifests /\ runs' = runs /\ runs \in Nat
      /\ slipped' = slipped /\ known' = known /\ job' = job
  BY BronzeAssumption DEF Tick, TypeInv, TypeOK, bronze, history
<1>2. \A m \in manifests : ManifestInv(m)'
  BY <1>1, ManifestKept DEF CatalogInv
<1>3. \A r \in Doing : r.step \in Fetching => JobInv(r)'
  BY <1>1, JobKept DEF CatalogInv
<1>4. Doing' = Doing /\ Present' = Present
  BY <1>1 DEF Doing, Present
<1>5. RunsApart'
  BY <1>1 DEF RunsApart, CatalogInv
<1>6. ASSUME NEW q \in Present PROVE updated[q] <= now'
  <2>1. updated[q] \in Nat /\ updated[q] <= now
    BY <1>1, PresentTyped DEF CatalogInv
  <2> QED
    BY <1>1, <2>1
<1> QED
  BY <1>1, <1>2, <1>3, <1>4, <1>5, <1>6 DEF CatalogInv

(* A record that appears or changes, seen from a run.                      *)
LEMMA ChangeJob ==
  ASSUME TypeInv, CatalogInv, stream \notin DateScoped, NEW c \in Records, Change(c),
         NEW j \in Jobs, NEW r, r = job[j], r.step \in Fetching
  PROVE  JobInv(r)'
<1>1. /\ TypeOK /\ now \in Nat /\ now' = now /\ updated' = [updated EXCEPT ![c] = now]
      /\ stream' = stream /\ parts' = parts /\ manifests' = manifests /\ known' = known
      /\ job' = job /\ place' = place /\ updated \in [Records -> Nat \cup {Absent}]
  BY DEF Change, TypeInv, TypeOK, bronze, api
<1>2. r \in JobRecord /\ JobInv(r) /\ r.run \in 1..MaxRuns /\ known[r.run] \subseteq Present
  <2>1. r \in Doing
    BY DEF Doing
  <2>2. r.run \in 1..MaxRuns
    BY BronzeAssumption DEF CatalogInv, RunsApart, TypeInv, TypeOK
  <2> QED
    BY <2>1, <2>2 DEF CatalogInv, TypeInv, RunOK
<1>3. /\ updated'[c] = now /\ Present' = Present \cup {c}
      /\ \A q \in Present \ {c} : updated'[q] = updated[q]
  BY <1>1 DEF Present, Absent
<1>4. Gathered(r)' = Gathered(r)
  BY <1>1 DEF Gathered
<1>5. \A q \in Present \ {c} : Past(r, q)' => Past(r, q)
  <2>1. ASSUME NEW q \in Present \ {c} PROVE Place(r, q) <= Place(r, q)'
    BY <1>1, <2>1, ChangeMovesBack DEF CatalogInv
  <2>2. /\ \A q \in Present : Place(r, q) \in Nat
        /\ \A q \in Present' : Place(r, q)' \in Nat
    <3>1. ASSUME NEW q \in Present' PROVE Place(r, q)' \in Nat
      <4>1. IsFiniteSet(Present')
        BY <1>3, PresentTyped, <1>1, FS_AddElement
      <4>2. Ahead(r, q)' \in SUBSET Present'
        BY DEF Ahead
      <4> QED
        BY <4>1, <4>2, FS_Subset, FS_CardinalityType DEF Place
    <3> QED
      BY <1>1, <3>1, OrderStrict
  <2>3. r.offset \in Nat
    BY <1>2 DEF JobRecord
  <2> QED
    BY <1>3, <2>1, <2>2, <2>3 DEF Past
<1>6. \A q \in Present' \ slipped' : q # c => q \in Present \ slipped
  BY <1>3 DEF Change
<1>7. \A t : Second(t)' = Second(t)
  BY DEF Second
<1>8. ASSUME c \notin slipped'
      PROVE  ~SecondTaken /\ ~ReadPast(j, c)
  BY <1>8 DEF Change
<1>9. ASSUME r.since = NoCursor PROVE SnapInv(r, known[r.run], slipped)'
  <2>1. \A q : Ahead(r, q) = {p \in Present : place[p] < place[q]} /\ Ahead(r, q)' = {p \in Present' : place[p] < place[q]}
    BY <1>1, <1>9 DEF Ahead, Before
  <2>2. {p \in Present' : place[p] < place[c]} = {p \in Present : place[p] < place[c]}
    <3>1. place[c] \in Nat
      BY <1>1, BronzeAssumption DEF TypeOK, Places
    <3>2. ~(place[c] < place[c])
      BY <3>1
    <3> QED
      BY <1>3, <3>2
  <2>3. Place(r, c)' = Place(r, c) /\ Place(r, c) = Cardinality({q \in Present : place[q] < place[c]})
    BY <2>1, <2>2 DEF Place
  <2>4. \A q \in Present : Past(r, q)' => Past(r, q)
    BY <1>5, <2>3 DEF Past
  <2>5. SnapInv(r, known[r.run], slipped)
    BY <1>2, <1>9 DEF JobInv
  <2>6. \A q \in known[r.run] : Past(r, q)' => \E v \in Gathered(r)' : v[1] = q
    BY <1>2, <1>4, <2>4, <2>5 DEF SnapInv
  <2>7. ASSUME NEW q \in Present' \ slipped', Past(r, q)' PROVE <<q, updated'[q]>> \in Gathered(r)'
    <3>1. CASE q = c
      <4>1. ~ReadPast(j, c)
        BY <1>8, <3>1
      <4>2. ~r.done /\ ~(Cardinality({p \in Present : place[p] < place[c]}) < r.offset)
        BY <1>9, <4>1 DEF ReadPast, Fetching
      <4> QED
        BY <2>3, <2>7, <3>1, <4>2 DEF Past
    <3>2. CASE q # c
      BY <1>3, <1>4, <1>6, <2>4, <2>5, <2>7, <3>2 DEF SnapInv
    <3> QED
      BY <3>1, <3>2
  <2> QED
    BY <1>1, <2>6, <2>7 DEF SnapInv
<1>10. ASSUME DeltaInv(r, slipped) PROVE DeltaInv(r, slipped)'
  <2> SUFFICES ASSUME NEW q \in Present' \ slipped', Past(r, q)', r.top # NoTick,
                      r.since < Second(updated'[q]), Second(updated'[q]) <= Second(r.top)
               PROVE  <<q, updated'[q]>> \in Gathered(r)'
    BY <1>7 DEF DeltaInv
  <2>1. CASE q = c
    <3>1. Second(r.top) # Second(now)
      BY <1>8, <2>1 DEF SecondTaken
    <3>2. r.top \in Nat /\ r.top <= now
      BY <1>2 DEF JobInv
    <3>3. Second(r.top) <= Second(now) /\ Second(r.top) \in Nat /\ Second(now) \in Nat
      BY <1>1, <3>2, SecondsGrow
    <3> QED
      BY <1>3, <2>1, <3>1, <3>3
  <2>2. CASE q # c
    BY <1>3, <1>4, <1>5, <1>6, <1>10, <2>2 DEF DeltaInv
  <2> QED
    BY <2>1, <2>2
<1> QED
  BY <1>1, <1>2, <1>9, <1>10 DEF JobInv

LEMMA ChangeCatalog ==
  ASSUME TypeInv, CatalogInv, stream \notin DateScoped, NEW c \in Records, Change(c)
  PROVE  CatalogInv'
<1>1. /\ TypeOK /\ now \in Nat /\ now' = now /\ updated' = [updated EXCEPT ![c] = now]
      /\ stream' = stream /\ parts' = parts /\ manifests' = manifests /\ known' = known
      /\ job' = job /\ updated \in [Records -> Nat \cup {Absent}] /\ runs' = runs
  BY DEF Change, TypeInv, TypeOK, bronze, api
<1>3. /\ updated'[c] = now /\ Present' = Present \cup {c}
      /\ \A q \in Present \ {c} : updated'[q] = updated[q]
  BY <1>1 DEF Present, Absent
<1>4. \A t : Second(t)' = Second(t)
  BY DEF Second
<1>5. \A m \in manifests' : ManifestInv(m)'
  <2> SUFFICES ASSUME NEW m \in manifests PROVE ManifestInv(m)'
    BY <1>1
  <2>1. ManifestInv(m) /\ m.cursor \in Int
    BY DEF CatalogInv, TypeInv, TypeOK, ManifestRecord
  <2>2. RowsOf(m)' = RowsOf(m) /\ Stored' = Stored
    BY <1>1 DEF RowsOf, Stored
  <2>3. ASSUME NEW q \in Present' \ slipped', Second(updated'[q]) <= m.cursor
        PROVE  <<q, updated'[q]>> \in Stored
    <3>1. CASE q = c
      <4>1. m.cursor # Second(now)
        BY <2>3, <3>1 DEF Change, SecondTaken
      <4>2. Second(now) \in Nat
        BY <1>1, Clock
      <4> QED
        BY <1>3, <2>1, <2>3, <3>1, <4>1, <4>2 DEF ManifestInv
    <3>2. CASE q # c
      <4>1. q \in Present \ slipped /\ updated'[q] = updated[q]
        BY <1>3, <2>3, <3>2 DEF Change
      <4> QED
        BY <2>1, <2>3, <4>1 DEF ManifestInv
    <3> QED
      BY <3>1, <3>2
  <2> QED
    BY <1>1, <1>4, <2>1, <2>2, <2>3 DEF ManifestInv
<1>6. \A r \in Doing' : r.step \in Fetching => JobInv(r)'
  <2> SUFFICES ASSUME NEW r \in Doing', r.step \in Fetching PROVE JobInv(r)'
    OBVIOUS
  <2>1. PICK j \in Jobs : r = job[j]
    BY <1>1 DEF Doing
  <2> QED
    BY <2>1, ChangeJob
<1>7. RunsApart'
  BY <1>1 DEF RunsApart, CatalogInv
<1>8. \A q \in Present' : updated'[q] <= now'
  BY <1>1, <1>3 DEF CatalogInv
<1> QED
  BY <1>1, <1>3, <1>5, <1>6, <1>7, <1>8 DEF CatalogInv

(* The API goes over to another order: what a run is then past it was past *)
(* before, unless the record jumped.                                       *)
LEMMA RearrangeJob ==
  ASSUME TypeInv, CatalogInv, Rearrange, NEW j \in Jobs, NEW r, r = job[j], r.step \in Fetching
  PROVE  JobInv(r)'
<1>1. PICK o \in Places : place' = o /\ o # place /\ Rearrange
  BY DEF Rearrange
<1>2. /\ TypeOK /\ stream' = stream /\ now' = now /\ updated' = updated /\ parts' = parts
      /\ manifests' = manifests /\ stream \notin DateScoped
  BY <1>1, StreamsApart DEF Rearrange, TypeInv, bronze
<1>3. r \in JobRecord /\ JobInv(r) /\ r.run \in 1..MaxRuns /\ known[r.run] \subseteq Present
  <2>1. r \in Doing
    BY DEF Doing
  <2>2. r.run \in 1..MaxRuns
    BY BronzeAssumption DEF CatalogInv, RunsApart, TypeInv, TypeOK
  <2> QED
    BY <2>1, <2>2 DEF CatalogInv, TypeInv, RunOK
<1>4. Jumped(o, r) \subseteq slipped' /\ slipped \subseteq slipped'
  BY <1>1 DEF Rearrange
<1>5. known'[r.run] \subseteq known[r.run] \ Jumped(o, r)
  BY <1>1, <1>3 DEF Rearrange
<1>6. Present' = Present /\ Gathered(r)' = Gathered(r) /\ \A t : Second(t)' = Second(t)
  BY <1>2 DEF Present, Gathered, Second
<1>7. \A q : Place(r, q)' = PlaceIn(o, r, q)
  <2>1. \A v, w : Before(place, r, v, w)' = Before(o, r, v, w)
    BY <1>1, <1>2 DEF Before
  <2>2. \A q : Ahead(r, q)' = AheadIn(o, r, q)
    BY <1>2, <1>6, <2>1 DEF Ahead, AheadIn
  <2> QED
    BY <2>2 DEF Place, PlaceIn
<1>8. ASSUME NEW q \in Present, q \notin Jumped(o, r), Past(r, q)' PROVE Past(r, q)
  <2>1. /\ Position(place, r, <<q, updated[q]>>) = Place(r, q) /\ Place(r, q) \in Nat
        /\ Position(o, r, <<q, updated[q]>>) = PlaceIn(o, r, q)
    BY <1>2, <1>3, PlaceIs, PlaceInIs, OrderStrict DEF JobInv
  <2>2. r.offset \in Nat
    BY <1>3 DEF JobRecord
  <2>3. r.done \/ PlaceIn(o, r, q) < r.offset
    BY <1>7, <1>8 DEF Past
  <2>4. r.done \/ ~(r.offset <= Place(r, q)) \/ ~(PlaceIn(o, r, q) < r.offset)
    BY <1>8, <2>1 DEF Jumped
  <2> QED
    BY <2>1, <2>2, <2>3, <2>4 DEF Past
<1>9. SnapInv(r, known[r.run], slipped) => SnapInv(r, known[r.run], slipped)'
  <2> SUFFICES ASSUME SnapInv(r, known[r.run], slipped) PROVE SnapInv(r, known[r.run], slipped)'
    OBVIOUS
  <2>1. \A q \in known'[r.run] : Past(r, q)' => \E v \in Gathered(r) : v[1] = q
    BY <1>3, <1>5, <1>8 DEF SnapInv
  <2>2. \A q \in Present \ slipped' : Past(r, q)' => <<q, updated[q]>> \in Gathered(r)
    BY <1>4, <1>8 DEF SnapInv
  <2> QED
    BY <1>2, <1>6, <2>1, <2>2 DEF SnapInv
<1>10. DeltaInv(r, slipped) => DeltaInv(r, slipped)'
  BY <1>2, <1>4, <1>6, <1>8 DEF DeltaInv
<1> QED
  BY <1>2, <1>3, <1>9, <1>10 DEF JobInv

LEMMA RearrangeCatalog ==
  ASSUME TypeInv, CatalogInv, Rearrange
  PROVE  CatalogInv'
<1>1. /\ TypeOK /\ now \in Nat /\ now' = now /\ updated' = updated /\ stream' = stream
      /\ parts' = parts /\ manifests' = manifests /\ runs' = runs /\ runs \in 0..MaxRuns
      /\ MaxRuns \in Nat /\ job' = job /\ slipped \subseteq slipped'
  BY BronzeAssumption DEF Rearrange, TypeInv, TypeOK, bronze
<1>2. \A n \in 1..MaxRuns : known'[n] \subseteq known[n]
  BY DEF Rearrange
<1>3. \A m \in manifests : ManifestInv(m)'
  <2>1. ASSUME NEW m \in manifests PROVE ManifestInv(m) /\ m.run \in 1..MaxRuns
    BY <1>1 DEF CatalogInv, ManifestInv
  <2> QED
    BY <1>1, <1>2, <2>1, ManifestKept
<1>4. \A r \in Doing' : r.step \in Fetching => JobInv(r)'
  <2> SUFFICES ASSUME NEW r \in Doing', r.step \in Fetching PROVE JobInv(r)'
    OBVIOUS
  <2>1. PICK j \in Jobs : r = job[j]
    BY <1>1 DEF Doing
  <2> QED
    BY <2>1, RearrangeJob
<1>5. Present' = Present
  BY <1>1 DEF Present
<1>6. RunsApart'
  BY <1>1 DEF RunsApart, CatalogInv
<1>7. \A n \in 1..MaxRuns : known'[n] \subseteq Present
  BY <1>2 DEF CatalogInv
<1> QED
  BY <1>1, <1>3, <1>4, <1>5, <1>6, <1>7 DEF CatalogInv

(* A run that begins has read nothing yet.                                 *)
LEMMA FreshCatalog ==
  ASSUME TypeInv, CatalogInv, stream \notin DateScoped, NEW j \in Jobs, NEW command,
         NEW dt, NEW since, Begin(j, Ingest(command, dt, dt, since, TRUE)),
         since # NoCursor => \E m \in manifests : m.cursor = since,
         UNCHANGED <<stream, api, parts, manifests, slipped, known>>
  PROVE  CatalogInv'
<1>1. PICK n : n = Ingest(command, dt, dt, since, TRUE)
  OBVIOUS
<1>2. /\ job' = [job EXCEPT ![j] = n] /\ runs' = runs + 1 /\ job \in [Jobs -> JobRecord]
      /\ TypeOK /\ runs \in Nat
  BY <1>1, BronzeAssumption DEF Begin, TypeInv, TypeOK
<1>3. n = job'[j] /\ \A i \in Jobs \ {j} : job'[i] = job[i]
  BY <1>2
<1>4. /\ n.step = "page" /\ n.all /\ n.dt = n.last /\ n.since = since /\ n.run = runs + 1
      /\ n.offset = 0 /\ n.top = NoTick /\ ~n.done
  BY <1>1 DEF Ingest
<1>5. \A q \in Present : ~Past(n, q)
  BY <1>2, <1>4, OrderStrict DEF Past
<1>6. /\ updated' = updated /\ Present' = Present /\ \A q : Past(n, q)' <=> Past(n, q)
  BY SamePlace DEF api, Past
<1>7. SnapInv(n, known[n.run], slipped)'
  <2>1. n.run \in 1..MaxRuns
    BY <1>2, <1>4, BronzeAssumption DEF Begin
  <2>2. known[n.run] \subseteq Present
    BY <2>1 DEF CatalogInv
  <2> QED
    BY <1>5, <1>6, <2>2 DEF SnapInv
<1>8. DeltaInv(n, slipped)'
  BY <1>5, <1>6 DEF DeltaInv
<1>9. since # NoCursor => stream \in Incremental
  BY DEF CatalogInv, ManifestInv
<1>10. JobInv(n)'
  BY <1>4, <1>7, <1>8, <1>9 DEF JobInv
<1> QED
  BY <1>2, <1>3, <1>4, <1>10, JobStep DEF Fetching

(* A process that is not fetching when it has made its step.               *)
LEMMA QuietCatalog ==
  ASSUME TypeInv, CatalogInv, stream \notin DateScoped, NEW j \in Jobs, NEW n, n = job'[j],
         \A i \in Jobs \ {j} : job'[i] = job[i], n.step \notin Fetching, runs' = runs,
         UNCHANGED <<stream, api, parts, manifests, slipped, known>>
  PROVE  CatalogInv'
<1>1. runs \in Nat
  BY BronzeAssumption DEF TypeInv, TypeOK
<1> QED
  BY <1>1, JobStep

LEMMA CommandCatalog ==
  ASSUME TypeInv, CatalogInv, stream \notin DateScoped, NEW j \in Jobs, Command(j) \/ Plan(j)
  PROVE  CatalogInv'
<1>0. job \in [Jobs -> JobRecord] /\ IdleJob.step \notin Fetching
  BY IdleTyped DEF TypeInv, TypeOK, Fetching
<1>1. UNCHANGED <<stream, api, parts, manifests, slipped, known>>
  BY DEF Command, Plan, StartCatchup, BackfillRun, IngestCommand, CatchupDays, CatchupFull,
         CatchupCatalog, FindSource, bronze, history
<1>2. ASSUME job' = [job EXCEPT ![j] = IdleJob], runs' = runs PROVE CatalogInv'
  BY <1>0, <1>1, <1>2, QuietCatalog
<1>3. ASSUME NEW c, Begin(j, Snapshot(c)) PROVE CatalogInv'
  BY <1>1, <1>3, FreshCatalog DEF Snapshot
<1>4. ASSUME NEW c, StartCatchup(j, c) PROVE CatalogInv'
  <2>1. /\ job' = [job EXCEPT ![j] = [IdleJob EXCEPT !.step = "partition", !.command = c,
                                                    !.last = DayOf(now)]]
        /\ runs' = runs
    BY <1>4 DEF StartCatchup, bronze
  <2>2. [IdleJob EXCEPT !.step = "partition", !.command = c, !.last = DayOf(now)].step = "partition"
    BY DEF IdleJob
  <2> QED
    BY <1>0, <1>1, <2>1, <2>2, QuietCatalog DEF Fetching
<1>5. ASSUME NEW from, NEW last, BackfillRun(j, from, last) PROVE CatalogInv'
  BY <1>3, <1>5 DEF BackfillRun
<1>6. ASSUME NEW dt, IngestCommand(j, dt) PROVE CatalogInv'
  <2>1. Begin(j, Ingest("ingest", dt, dt, NoCursor, TRUE))
    BY <1>6 DEF IngestCommand, IngestPolymarketCatalog, IngestKalshiCatalog, IngestKalshiTrades,
                FullIngest
  <2> QED
    BY <1>1, <2>1, FreshCatalog
<1>7. CASE CatchupFull(j)
  BY <1>2, <1>3, <1>7 DEF CatchupFull, Stop
<1>8. CASE CatchupCatalog(j)
  <2>1. CASE Begin(j, Snapshot("catchup"))
    BY <1>3, <2>1
  <2>2. ASSUME NEW latest, job' = [job EXCEPT ![j].step = "source", ![j].dt = latest], runs' = runs
        PROVE  CatalogInv'
    <3>1. job'[j].step = "source" /\ \A i \in Jobs \ {j} : job'[i] = job[i]
      BY <1>0, <2>2 DEF JobRecord
    <3> QED
      BY <1>1, <2>2, <3>1, QuietCatalog DEF Fetching
  <2> QED
    BY <1>8, <2>1, <2>2 DEF CatchupCatalog
<1>9. CASE FindSource(j)
  <2>1. ASSUME NEW m \in manifests, Begin(j, Ingest("catchup", job[j].last, job[j].last, m.cursor, TRUE))
        PROVE  CatalogInv'
    BY <1>1, <2>1, FreshCatalog
  <2> QED
    BY <1>3, <1>9, <2>1 DEF FindSource, NewestIn
<1>10. ~CatchupDays(j)
  BY DEF CatchupDays
<1> QED
  BY <1>4, <1>5, <1>6, <1>7, <1>8, <1>9, <1>10 DEF Command, Plan

(* The first look at the catalog comes before anything is read.            *)
LEMMA LookedFirst ==
  ASSUME TypeOK, NEW r \in JobRecord, ~r.done, FirstLook(r), r.run \in 1..MaxRuns,
         known[r.run] \subseteq Present, NEW lost
  PROVE  /\ known'[r.run] \subseteq Present
         /\ \A k \in 1..MaxRuns : k # r.run => known'[k] = known[k]
         /\ SnapInv(r, known[r.run], lost) => SnapInv(r, known'[r.run], lost)
<1>1. known \in [1..MaxRuns -> SUBSET Records]
  BY DEF TypeOK
<1>2. CASE r.offset = 0 /\ r.attempt = 0
  <2>1. known' = [known EXCEPT ![r.run] = Present]
    BY <1>2 DEF FirstLook
  <2>2. known'[r.run] = Present /\ \A k \in 1..MaxRuns : k # r.run => known'[k] = known[k]
    BY <1>1, <2>1
  <2>3. \A q \in Present : ~Past(r, q)
    BY <1>2, OrderStrict DEF Past
  <2> QED
    BY <2>2, <2>3 DEF SnapInv
<1>3. CASE ~(r.offset = 0 /\ r.attempt = 0)
  <2>1. known' = known
    BY <1>3 DEF FirstLook
  <2> QED
    BY <2>1
<1> QED
  BY <1>2, <1>3

(* What is known of a process that fetches.                                *)
LEMMA FetchingJob ==
  ASSUME TypeInv, CatalogInv, NEW j \in Jobs, NEW r, r = job[j], r.step \in Fetching
  PROVE  /\ TypeOK /\ r \in JobRecord /\ JobInv(r) /\ r.run \in 1..runs /\ r.run \in 1..MaxRuns
         /\ known[r.run] \subseteq Present /\ job \in [Jobs -> JobRecord]
         /\ runs \in Nat
<1>1. r \in Doing
  BY DEF Doing
<1>2. r.run \in 1..runs /\ r.run \in 1..MaxRuns
  BY BronzeAssumption DEF CatalogInv, RunsApart, TypeInv, TypeOK
<1> QED
  BY <1>1, <1>2, BronzeAssumption DEF CatalogInv, TypeInv, TypeOK, RunOK

LEMMA TakeCatalog ==
  ASSUME TypeInv, CatalogInv, stream \notin DateScoped, NEW j \in Jobs, NEW r, r = job[j],
         NEW rows \in SUBSET Page(r), NEW done, NEW step, Take(j, rows, done, step),
         step \in Fetching, step = "page" => ~done,
         step = "publish" => done /\ r.batch \cup rows = {},
         r.since = NoCursor =>
           rows = Page(r) /\ (done => LastPage(r) \/ Cardinality(Page(r)) < PageSize),
         r.since # NoCursor =>
           rows = {v \in Page(r) : NewerThan(r, v)} /\ (done => Page(r) = {} \/ rows # Page(r))
  PROVE  CatalogInv'
<1>1. /\ r.step = "page" /\ FirstLook(r) /\ job' = [job EXCEPT ![j] = Fetched(r, rows, done, step)]
      /\ slipped' = slipped \cup Overtaken(r, rows) /\ UNCHANGED <<stream, api, bronze>>
  BY DEF Take
<1>2. /\ TypeOK /\ r \in JobRecord /\ JobInv(r) /\ r.run \in 1..runs /\ r.run \in 1..MaxRuns
      /\ known[r.run] \subseteq Present /\ job \in [Jobs -> JobRecord] /\ runs \in Nat
  BY <1>1, FetchingJob DEF Fetching
<1>3. PICK n : n = Fetched(r, rows, done, step)
  OBVIOUS
<1>4. n = job'[j] /\ \A i \in Jobs \ {j} : job'[i] = job[i]
  BY <1>1, <1>2, <1>3
<1>5. /\ n.all = r.all /\ n.dt = r.dt /\ n.last = r.last /\ n.since = r.since /\ n.run = r.run
      /\ n.batch = r.batch \cup rows /\ n.done = done /\ n.step = step
      /\ n.top = Latest(r.top, rows)
  BY <1>2, <1>3, FetchedIs
<1>6. PICK lost, seen : lost = slipped' /\ seen = known'[r.run]
  OBVIOUS
<1>7. ~r.done /\ r.all /\ (r.top = NoTick \/ (r.top \in Nat /\ r.top <= now))
  BY <1>1, <1>2 DEF JobInv
<1>8. /\ seen \subseteq Present
      /\ \A k \in 1..MaxRuns : k # r.run => known'[k] = known[k]
      /\ SnapInv(r, known[r.run], slipped) => SnapInv(r, seen, slipped)
  BY <1>1, <1>2, <1>6, <1>7, LookedFirst
<1>9. /\ updated' = updated /\ Present' = Present /\ Gathered(n)' = Gathered(n)
      /\ \A q : Past(n, q)' <=> Past(n, q)
  <2>1. updated' = updated /\ stream' = stream /\ parts' = parts /\ place' = place
    BY <1>1 DEF api, bronze
  <2> QED
    BY <2>1, SamePlace DEF Past, Gathered
<1>10. \A t : Second(t)' = Second(t)
  BY DEF Second
<1>11. ASSUME r.since = NoCursor PROVE SnapInv(n, known[n.run], slipped)'
  <2>1. SnapInv(r, seen, slipped)
    BY <1>2, <1>8, <1>11 DEF JobInv
  <2>2. SnapInv(n, seen, slipped)
    BY <1>2, <1>3, <1>7, <1>8, <1>11, <2>1, SnapPage
  <2>3. seen = known'[n.run] /\ slipped \subseteq slipped'
    BY <1>1, <1>5, <1>6
  <2> QED
    BY <1>9, <2>2, <2>3 DEF SnapInv
<1>12. ASSUME r.since # NoCursor PROVE DeltaInv(n, slipped)'
  <2>1. DeltaInv(r, slipped)
    BY <1>2, <1>12 DEF JobInv
  <2>2. r.top \in Nat \cup {NoTick}
    BY <1>7
  <2>3. DeltaInv(n, slipped \cup Overtaken(r, rows))
    BY <1>2, <1>3, <1>7, <1>12, <2>1, <2>2, DeltaPage
  <2>4. DeltaInv(n, lost)
    BY <1>1, <1>6, <2>3
  <2> QED
    BY <1>6, <1>9, <1>10, <2>4 DEF DeltaInv
<1>13. n.top = NoTick \/ (n.top \in Nat /\ n.top <= now)
  <2>1. rows \in SUBSET VersionSet /\ IsFiniteSet(rows) /\ r.top \in Int
    BY <1>2, VersionsTyped, FS_Subset DEF JobRecord
  <2>2. n.top = r.top \/ \E v \in rows : n.top = v[2]
    BY <1>5, <2>1, LatestIs
  <2>3. \A v \in rows : v[2] \in Nat /\ v[2] <= now
    <3>1. ASSUME NEW v \in rows PROVE v[2] \in Nat /\ v[2] <= now
      <4>1. v \in Versions
        BY <1>2, VersionsTyped
      <4>2. PICK q \in Present : v = <<q, updated[q]>>
        BY <4>1 DEF Versions
      <4> QED
        BY <1>2, <4>2, PresentTyped DEF CatalogInv
    <3> QED
      BY <3>1
  <2> QED
    BY <1>7, <2>2, <2>3
<1>14. now' = now /\ manifests' = manifests /\ runs' = runs /\ parts' = parts
  BY <1>1 DEF api, bronze
<1>15. JobInv(n)'
  BY <1>1, <1>2, <1>5, <1>11, <1>12, <1>13, <1>14 DEF JobInv
<1>16. \A k \in 1..MaxRuns : known'[k] \subseteq Present /\ (k # n.run => known'[k] = known[k])
  BY <1>5, <1>6, <1>8 DEF CatalogInv
<1> QED
  BY <1>1, <1>2, <1>4, <1>5, <1>14, <1>15, <1>16, JobStep DEF Fetching

LEMMA FetchCatalog ==
  ASSUME TypeInv, CatalogInv, stream \notin DateScoped, NEW j \in Jobs, Fetch(j)
  PROVE  CatalogInv'
<1>1. PICK r : r = job[j]
  OBVIOUS
<1>2. /\ r.step = "page"
  BY <1>1 DEF Fetch, StreamMarkets, StreamEvents, FetchMarketsIncremental, FetchEventsIncremental,
     FetchClobTrades, FetchKalshiTrades, FetchKalshiMarkets, FetchKalshiEvents,
     StreamPage, IncrementalPage, CursorPage, Take, Retry
<1>3. /\ TypeOK /\ r \in JobRecord /\ JobInv(r) /\ r.run \in 1..runs /\ r.run \in 1..MaxRuns
      /\ known[r.run] \subseteq Present /\ job \in [Jobs -> JobRecord] /\ runs \in Nat
  BY <1>1, <1>2, FetchingJob DEF Fetching
<1>4. Page(r) \subseteq VersionSet /\ IsFiniteSet(Page(r))
  BY <1>3, VersionsTyped
<1>5. CASE StreamPage(j)
  <2> DEFINE done == Cardinality(Page(r)) < PageSize
             step == StreamStep(r.batch \cup Page(r), done)
  <2>1. Take(j, Page(r), done, step) /\ r.since = NoCursor
    BY <1>1, <1>5 DEF StreamPage
  <2>2. /\ step \in Fetching
        /\ step = "page" => ~done
        /\ step = "publish" => done /\ r.batch \cup Page(r) = {}
    BY DEF StreamStep, Fetching
  <2>3. Page(r) \in SUBSET Page(r) /\ (done => Cardinality(Page(r)) < PageSize)
    OBVIOUS
  <2> HIDE DEF step, done
  <2> QED
    BY <1>1, <2>1, <2>2, <2>3, TakeCatalog
<1>6. CASE IncrementalPage(j)
  <2> DEFINE new == {v \in Page(r) : NewerThan(r, v)}
             done == Page(r) = {} \/ new # Page(r)
             step == IF done THEN "put" ELSE "page"
  <2>1. Take(j, new, done, step) /\ r.since # NoCursor
    BY <1>1, <1>6 DEF IncrementalPage
  <2>2. step \in Fetching /\ (step = "page" => ~done) /\ step # "publish" /\ new \in SUBSET Page(r)
    BY DEF Fetching
  <2>3. new = {v \in Page(r) : NewerThan(r, v)} /\ (done => Page(r) = {} \/ new # Page(r))
    OBVIOUS
  <2> HIDE DEF step, new, done
  <2> QED
    BY <1>1, <2>1, <2>2, <2>3, TakeCatalog
<1>7. ASSUME CursorPage(j), stream \notin Incremental PROVE CatalogInv'
  <2> DEFINE step == IF LastPage(r) THEN "put" ELSE "page"
  <2>1. Take(j, Page(r), LastPage(r), step)
    BY <1>1, <1>7 DEF CursorPage
  <2>2. r.since = NoCursor
    BY <1>3, <1>7 DEF JobInv
  <2>3. step \in Fetching /\ (step = "page" => ~LastPage(r)) /\ step # "publish"
    BY DEF Fetching
  <2> HIDE DEF step
  <2> QED
    BY <1>1, <2>1, <2>2, <2>3, TakeCatalog
<1>8. CASE Retry(j)
  <2>1. /\ FirstLook(r) /\ job' = [job EXCEPT ![j] = [r EXCEPT !.attempt = r.attempt + 1]]
        /\ UNCHANGED <<stream, api, bronze, slipped>>
    BY <1>1, <1>3, <1>8 DEF Retry
  <2>2. PICK n : n = [r EXCEPT !.attempt = r.attempt + 1]
    OBVIOUS
  <2>3. n = job'[j] /\ \A i \in Jobs \ {j} : job'[i] = job[i]
    BY <1>3, <2>1, <2>2
  <2>4. /\ n.all = r.all /\ n.dt = r.dt /\ n.last = r.last /\ n.since = r.since /\ n.run = r.run
        /\ n.batch = r.batch /\ n.done = r.done /\ n.step = r.step /\ n.offset = r.offset
        /\ n.top = r.top /\ n.files = r.files
    BY <1>3, <2>2 DEF JobRecord
  <2>5. ~r.done
    BY <1>2, <1>3 DEF JobInv
  <2>6. PICK seen : seen = known'[r.run]
    OBVIOUS
  <2>7. /\ seen \subseteq Present
        /\ \A k \in 1..MaxRuns : k # r.run => known'[k] = known[k]
        /\ SnapInv(r, known[r.run], slipped) => SnapInv(r, seen, slipped)
    BY <1>3, <2>1, <2>5, <2>6, LookedFirst
  <2>8. /\ updated' = updated /\ Present' = Present /\ Gathered(n)' = Gathered(r)
        /\ \A q : Past(n, q)' <=> Past(r, q)
    <3>1. updated' = updated /\ stream' = stream /\ parts' = parts /\ place' = place
      BY <2>1 DEF api, bronze
    <3>2. Gathered(n)' = Gathered(r)
      BY <2>4, <3>1 DEF Gathered
    <3>3. \A v, w : Before(place, n, v, w)' = Before(place, r, v, w)
      BY <2>4, <3>1 DEF Before
    <3>4. Present' = Present
      BY <3>1 DEF Present
    <3>5. \A q : Ahead(n, q)' = Ahead(r, q)
      BY <3>1, <3>3, <3>4 DEF Ahead
    <3>6. \A q : Place(n, q)' = Place(r, q)
      BY <3>5 DEF Place
    <3> QED
      BY <2>4, <3>1, <3>2, <3>4, <3>6 DEF Past
  <2>9. r.since = NoCursor => SnapInv(n, known[n.run], slipped)'
    <3>1. r.since = NoCursor => SnapInv(r, seen, slipped)
      BY <1>3, <2>7 DEF JobInv
    <3>2. seen = known'[n.run] /\ slipped' = slipped
      BY <2>1, <2>4, <2>6
    <3> QED
      BY <2>8, <3>1, <3>2 DEF SnapInv
  <2>10. DeltaInv(r, slipped) => DeltaInv(n, slipped)'
    <3>1. \A t : Second(t)' = Second(t)
      BY DEF Second
    <3> QED
      BY <2>1, <2>4, <2>8, <3>1 DEF DeltaInv
  <2>11. now' = now /\ manifests' = manifests /\ runs' = runs /\ parts' = parts
    BY <2>1 DEF api, bronze
  <2>12. JobInv(n)'
    BY <1>3, <2>1, <2>4, <2>9, <2>10, <2>11 DEF JobInv
  <2>13. ASSUME NEW k \in 1..MaxRuns
         PROVE  known'[k] \subseteq Present /\ (k # n.run => known'[k] = known[k])
    <3>1. CASE k = n.run
      BY <2>4, <2>6, <2>7, <3>1
    <3>2. CASE k # n.run
      BY <2>4, <2>7, <3>2 DEF CatalogInv
    <3> QED
      BY <3>1, <3>2
  <2> QED
    <3>1. UNCHANGED <<stream, api>> /\ slipped' = slipped
      BY <2>1
    <3>2. r.step \in Fetching /\ r.step = job[j].step /\ n.run = job[j].run
      BY <1>1, <1>2, <2>4 DEF Fetching
    <3> QED
      BY <1>3, <2>3, <2>11, <2>12, <2>13, <3>1, <3>2, JobStep
<1> QED
  BY <1>5, <1>6, <1>7, <1>8
  DEF Fetch, StreamMarkets, StreamEvents, FetchMarketsIncremental, FetchEventsIncremental,
      FetchClobTrades, FetchKalshiTrades, FetchKalshiMarkets, FetchKalshiEvents, DateScoped,
      Incremental

LEMMA UploadCatalog ==
  ASSUME TypeInv, CatalogInv, stream \notin DateScoped, NEW j \in Jobs, UploadPart(j)
  PROVE  CatalogInv'
<1>1. PICK r : r = job[j]
  OBVIOUS
<1>2. /\ r.step = "put" /\ parts' = parts \cup {PartOf(r)}
      /\ job' = [job EXCEPT ![j] = [r EXCEPT !.batch = {}, !.files = r.files + 1,
                                             !.step = IF r.done THEN "publish" ELSE "page"]]
      /\ UNCHANGED <<stream, api, manifests, runs, history>>
  BY <1>1 DEF UploadPart
<1>3. /\ TypeOK /\ r \in JobRecord /\ JobInv(r) /\ r.run \in 1..runs /\ r.run \in 1..MaxRuns
      /\ known[r.run] \subseteq Present /\ job \in [Jobs -> JobRecord] /\ runs \in Nat
  BY <1>1, <1>2, FetchingJob DEF Fetching
<1>4. PICK step \in {"publish", "page"} : step = IF r.done THEN "publish" ELSE "page"
  OBVIOUS
<1>5. PICK n : n = [r EXCEPT !.batch = {}, !.files = r.files + 1, !.step = step]
  OBVIOUS
<1>6. n = job'[j] /\ \A i \in Jobs \ {j} : job'[i] = job[i]
  BY <1>2, <1>3, <1>4, <1>5
<1>7. /\ n.all = r.all /\ n.dt = r.dt /\ n.last = r.last /\ n.since = r.since /\ n.run = r.run
      /\ n.batch = {} /\ n.done = r.done /\ n.step = step /\ n.offset = r.offset
      /\ n.top = r.top /\ n.files = r.files + 1
  BY <1>3, <1>5 DEF JobRecord
<1>8. Gathered(r) \subseteq Gathered(n)'
  BY <1>2, <1>3, <1>7, UploadGathers
<1>9. /\ updated' = updated /\ Present' = Present /\ known' = known /\ slipped' = slipped
      /\ now' = now /\ \A q : Past(n, q)' <=> Past(r, q)
  <2>1. /\ updated' = updated /\ stream' = stream /\ known' = known /\ slipped' = slipped
        /\ now' = now /\ place' = place
    BY <1>2 DEF api, history
  <2>2. \A v, w : Before(place, n, v, w)' = Before(place, r, v, w)
    BY <1>7, <2>1 DEF Before
  <2>3. Present' = Present
    BY <2>1 DEF Present
  <2>4. \A q : Ahead(n, q)' = Ahead(r, q)
    BY <2>1, <2>2, <2>3 DEF Ahead
  <2>5. \A q : Place(n, q)' = Place(r, q)
    BY <2>4 DEF Place
  <2> QED
    BY <1>7, <2>1, <2>3, <2>5 DEF Past
<1>10. SnapInv(r, known[r.run], slipped) => SnapInv(n, known[n.run], slipped)'
  BY <1>7, <1>8, <1>9 DEF SnapInv
<1>11. DeltaInv(r, slipped) => DeltaInv(n, slipped)'
  <2>1. \A t : Second(t)' = Second(t)
    BY DEF Second
  <2> QED
    BY <1>7, <1>8, <1>9, <2>1 DEF DeltaInv
<1>12. JobInv(n)'
  BY <1>2, <1>3, <1>4, <1>7, <1>9, <1>10, <1>11 DEF JobInv
<1>13. \A k \in 1..MaxRuns : known'[k] \subseteq Present /\ (k # n.run => known'[k] = known[k])
  <2>1. \A k \in 1..MaxRuns : known[k] \subseteq Present
    BY DEF CatalogInv
  <2> QED
    BY <1>9, <2>1
<1> QED
  <2>1. UNCHANGED <<stream, api, manifests, runs>> /\ parts \subseteq parts'
    BY <1>2
  <2>2. r.step \in Fetching /\ r.step = job[j].step /\ n.run = job[j].run
    BY <1>1, <1>2, <1>7 DEF Fetching
  <2> QED
    BY <1>3, <1>6, <1>9, <1>12, <1>13, <2>1, <2>2, JobStep

LEMMA PublishCatalog ==
  ASSUME TypeInv, CatalogInv, stream \notin DateScoped, NEW j \in Jobs, Publish(j)
  PROVE  CatalogInv'
<1>1. PICK r : r = job[j]
  OBVIOUS
<1>2. /\ r.step = "publish" /\ manifests' = manifests \cup {ManifestOf(r)} /\ NextDay(j)
      /\ UNCHANGED <<stream, api, parts, history>>
  BY <1>1 DEF Publish
<1>3. /\ TypeOK /\ r \in JobRecord /\ JobInv(r) /\ r.run \in 1..runs /\ r.run \in 1..MaxRuns
      /\ known[r.run] \subseteq Present /\ job \in [Jobs -> JobRecord] /\ runs \in Nat
  BY <1>1, <1>2, FetchingJob DEF Fetching
<1>4. r.done /\ r.batch = {} /\ r.dt = r.last /\ ~(r.dt < r.last)
  BY <1>2, <1>3 DEF JobInv, JobRecord
<1>5. job' = [job EXCEPT ![j] = IdleJob] /\ runs' = runs
  BY <1>1, <1>2, <1>4 DEF NextDay
<1>6. PICK n : n = job'[j]
  OBVIOUS
<1>7. n.step \notin Fetching /\ \A i \in Jobs \ {j} : job'[i] = job[i]
  BY <1>3, <1>5, <1>6, IdleTyped DEF Fetching
<1>8. PICK m : m = ManifestOf(r)
  OBVIOUS
<1>9. /\ m.run = r.run /\ m.files = r.files /\ m.cursor = CursorOf(r)
      /\ m.kind = "snapshot" => r.since = NoCursor
  BY <1>8 DEF ManifestOf
<1>10. Gathered(r) \subseteq RowsOf(m)' /\ Gathered(r) \subseteq Stored' /\ Stored \subseteq Stored'
  <2>1. Gathered(r) \subseteq RowsOf(m)
    BY <1>4, <1>9 DEF Gathered, RowsOf
  <2>2. RowsOf(m)' = RowsOf(m)
    BY <1>2 DEF RowsOf
  <2>3. RowsOf(m)' \subseteq Stored'
    BY <1>2, <1>8 DEF Stored
  <2> QED
    BY <1>2, <2>1, <2>2, <2>3, StoredGrows
<1>11. now \in Nat /\ Second(now) \in Nat /\ \A t \in Int : Second(t) \in Int
  BY <1>3, Clock DEF TypeOK
<1>12. \A q \in Present : Past(r, q)
  BY <1>4 DEF Past
<1>13. CursorOf(r) \in Int /\ CursorOf(r) <= Second(now)
  <2>1. CASE stream \notin Incremental \/ (r.since = NoCursor /\ r.top = NoTick)
    BY <1>11, <2>1 DEF CursorOf, NoCursor
  <2>2. CASE r.top # NoTick
    <3>1. r.top \in Nat /\ r.top <= now
      BY <1>3, <2>2 DEF JobInv
    <3>2. Second(r.top) <= Second(now) /\ Second(r.top) \in Nat
      BY <1>11, <3>1, SecondsGrow
    <3> QED
      BY <1>11, <2>2, <3>2 DEF CursorOf, NoCursor
  <2>3. CASE stream \in Incremental /\ r.since # NoCursor /\ r.top = NoTick
    <3>1. PICK o \in manifests : o.cursor = r.since
      BY <1>3, <2>3 DEF JobInv
    <3>2. o.cursor <= Second(now) /\ o.cursor \in Int
      BY <1>3, <3>1 DEF CatalogInv, ManifestInv, TypeOK, ManifestRecord
    <3> QED
      BY <2>3, <3>1, <3>2 DEF CursorOf
  <2> QED
    BY <2>1, <2>2, <2>3
<1>14. ASSUME NEW q \in Present \ slipped, Second(updated[q]) <= CursorOf(r)
       PROVE  <<q, updated[q]>> \in Stored'
  <2>1. updated[q] \in Nat /\ Second(updated[q]) \in Nat
    <3>1. PICK t \in Nat : t = updated[q]
      BY <1>3, PresentTyped
    <3>2. t <= t
      OBVIOUS
    <3> QED
      BY <3>1, <3>2, SecondsGrow
  <2>2. stream \in Incremental
    BY <1>14, <2>1 DEF CursorOf, NoCursor
  <2>3. CASE r.since = NoCursor
    BY <1>3, <1>10, <1>12, <2>3 DEF JobInv, SnapInv
  <2>4. CASE r.since # NoCursor
    <3>1. PICK o \in manifests : o.cursor = r.since
      BY <1>3, <2>4 DEF JobInv
    <3>2. r.since \in Int
      BY <1>3 DEF JobRecord
    <3>3. CASE Second(updated[q]) <= r.since
      BY <1>10, <3>1, <3>3 DEF CatalogInv, ManifestInv
    <3>4. CASE r.since < Second(updated[q])
      <4>1. r.top # NoTick
        BY <1>14, <2>1, <2>2, <3>2, <3>4 DEF CursorOf
      <4>2. Second(updated[q]) <= Second(r.top)
        BY <1>14, <2>2, <4>1 DEF CursorOf
      <4> QED
        BY <1>3, <1>10, <1>12, <2>4, <3>4, <4>1, <4>2 DEF JobInv, DeltaInv
    <3> QED
      BY <2>1, <3>2, <3>3, <3>4
  <2> QED
    BY <2>3, <2>4
<1>15. ASSUME r.since = NoCursor, NEW q \in known[r.run]
       PROVE  \E v \in RowsOf(m)' : v[1] = q
  BY <1>3, <1>10, <1>12, <1>15 DEF JobInv, SnapInv
<1>16. /\ updated' = updated /\ Present' = Present /\ known' = known /\ slipped' = slipped
       /\ now' = now /\ \A t : Second(t)' = Second(t)
  BY <1>2 DEF api, history, Present, Second
<1>17. ManifestInv(m)'
  <2>1. m.run \in 1..runs' /\ m.cursor <= Second(now)'
    BY <1>3, <1>5, <1>9, <1>13, <1>16
  <2>2. stream' \notin Incremental => m.cursor = NoCursor
    BY <1>2, <1>9 DEF CursorOf
  <2>3. \A q \in Present' \ slipped' : Second(updated[q])' <= m.cursor => <<q, updated'[q]>> \in Stored'
    BY <1>9, <1>14, <1>16
  <2>4. m.kind = "snapshot" => \A q \in known'[m.run] : \E v \in RowsOf(m)' : v[1] = q
    BY <1>9, <1>15, <1>16
  <2> QED
    BY <2>1, <2>2, <2>3, <2>4 DEF ManifestInv
<1>18. \A o \in manifests' \ manifests :
         ManifestInv(o)' /\ o.run = job[j].run /\ job[j].step \in Fetching
  BY <1>1, <1>2, <1>8, <1>9, <1>17 DEF Fetching
<1> QED
  BY <1>2, <1>3, <1>5, <1>6, <1>7, <1>16, <1>18, JobStep

LEMMA EndCatalog ==
  ASSUME TypeInv, CatalogInv, stream \notin DateScoped, NEW j \in Jobs, Fail(j) \/ Crash(j)
  PROVE  CatalogInv'
<1>1. job' = [job EXCEPT ![j] = IdleJob] /\ runs' = runs
  <2>1. CASE job[j].step \in Fetching
    <3>1. ~(job[j].dt < job[j].last)
      BY <2>1, FetchingJob DEF JobInv, JobRecord
    <3> QED
      BY <2>1, <3>1 DEF Fail, Crash, NextDay, Fetching, bronze
  <2>2. CASE job[j].step \notin Fetching
    BY <2>2 DEF Fail, Crash, Stop, Fetching, bronze
  <2> QED
    BY <2>1, <2>2
<1>2. UNCHANGED <<stream, api, parts, manifests, slipped, known>>
  BY DEF Fail, Crash, bronze
<1>3. job \in [Jobs -> JobRecord] /\ IdleJob.step \notin Fetching
  BY IdleTyped DEF TypeInv, TypeOK, Fetching
<1> QED
  BY <1>1, <1>2, <1>3, QuietCatalog

(* What holds of a catalog, kept by every step of the ingestion.           *)
CatalogHolds == stream \notin DateScoped => CatalogInv

LEMMA StepCatalog == TypeInv /\ CatalogHolds /\ [Next]_vars => CatalogHolds'
<1> SUFFICES ASSUME TypeInv, CatalogHolds, [Next]_vars, stream' \notin DateScoped
             PROVE  CatalogInv'
  BY DEF CatalogHolds
<1>1. stream' = stream
  BY StreamStays
<1>2. stream \notin DateScoped /\ CatalogInv
  BY <1>1 DEF CatalogHolds
<1>3. CASE Tick
  BY <1>2, <1>3, TickCatalog
<1>4. ASSUME NEW c \in Records, Change(c) PROVE CatalogInv'
  BY <1>2, <1>4, ChangeCatalog
<1>r. CASE Rearrange
  BY <1>2, <1>r, RearrangeCatalog
<1>5. ASSUME NEW j \in Jobs, Command(j) \/ Plan(j) PROVE CatalogInv'
  BY <1>2, <1>5, CommandCatalog
<1>6. ASSUME NEW j \in Jobs, Fetch(j) PROVE CatalogInv'
  BY <1>2, <1>6, FetchCatalog
<1>7. ASSUME NEW j \in Jobs, Store(j) PROVE CatalogInv'
  BY <1>2, <1>7, StoreIs, UploadCatalog, PublishCatalog
<1>8. ASSUME NEW j \in Jobs, Fail(j) \/ Crash(j) PROVE CatalogInv'
  BY <1>2, <1>8, EndCatalog
<1>9. CASE UNCHANGED vars
  <2>1. /\ UNCHANGED <<stream, now, updated, place, parts, manifests, runs, job, slipped, known>>
    BY <1>9 DEF vars, api, bronze, history
  <2>2. TypeOK /\ now \in Nat /\ runs \in Nat
    BY BronzeAssumption DEF TypeInv, TypeOK
  <2>3. \A m \in manifests : ManifestInv(m)'
    BY <1>2, <2>1, <2>2, ManifestKept DEF CatalogInv
  <2>4. \A r \in Doing : r.step \in Fetching => JobInv(r)'
    BY <1>2, <2>1, <2>2, JobKept DEF CatalogInv
  <2>5. Doing' = Doing /\ Present' = Present
    BY <2>1 DEF Doing, Present
  <2>6. RunsApart'
    BY <1>2, <2>1 DEF RunsApart, CatalogInv
  <2> QED
    BY <1>2, <2>1, <2>3, <2>4, <2>5, <2>6 DEF CatalogInv
<1> QED
  BY <1>3, <1>4, <1>r, <1>5, <1>6, <1>7, <1>8, <1>9 DEF Next

LEMMA CatalogsHold == Spec => []CatalogHolds
<1>1. Init => CatalogHolds
  <2> SUFFICES ASSUME Init PROVE CatalogInv
    BY DEF CatalogHolds
  <2>1. Present = {} /\ manifests = {} /\ \A n \in 1..MaxRuns : known[n] = {}
    BY DEF Init, Present
  <2>2. \A j \in Jobs : job[j].step \notin Fetching
    BY IdleTyped DEF Init, Fetching
  <2> QED
    BY <2>1, <2>2 DEF CatalogInv, Doing, RunsApart
<1> QED
  BY <1>1, StepCatalog, TypesHold, PTL DEF Spec

(* A cursor is given by the platforms whose catalogs have one.             *)
CursorsGiven == stream \notin Incremental => \A m \in manifests : m.cursor = NoCursor

LEMMA CursorsHold == Spec => []CursorsGiven
<1>1. Init => CursorsGiven
  BY DEF Init, CursorsGiven
<1>2. CursorsGiven /\ [Next]_vars => CursorsGiven'
  <2> SUFFICES ASSUME CursorsGiven, [Next]_vars PROVE CursorsGiven'
    OBVIOUS
  <2>1. stream' = stream
    BY StreamStays
  <2>2. ASSUME NEW j, Publish(j) PROVE CursorsGiven'
    BY <2>1, <2>2 DEF CursorsGiven, Publish, ManifestOf, CursorOf
  <2>3. (\E j : Publish(j)) \/ manifests' = manifests
    BY StoreIs DEF Next, Tick, Change, Rearrange, Command, StartCatchup, BackfillRun, IngestCommand, Plan,
       CatchupDays, CatchupFull, CatchupCatalog, FindSource, Fetch, StreamMarkets, StreamEvents,
       FetchMarketsIncremental, FetchEventsIncremental, FetchClobTrades, FetchKalshiTrades,
       FetchKalshiMarkets, FetchKalshiEvents, StreamPage, IncrementalPage, CursorPage, Take,
       Retry, UploadPart, Fail, Crash, vars, bronze
  <2> QED
    BY <2>1, <2>2, <2>3 DEF CursorsGiven
<1> QED
  BY <1>1, <1>2, PTL DEF Spec

(* Every change up to the cursor of the newest manifest is stored, in      *)
(* spite of crashes, failed calls and overlapping runs, except those that  *)
(* slipped in behind a run or that the API moved there.                    *)
THEOREM CursorsAreHonest == Spec => []CursorCovers
<1>1. TypeInv /\ CatalogHolds /\ CursorsGiven => CursorCovers
  <2> SUFFICES ASSUME TypeInv, CatalogHolds, CursorsGiven, NEW m \in manifests,
                      NEW q \in Present \ slipped, Second(updated[q]) <= m.cursor
               PROVE  <<q, updated[q]>> \in Stored
    <3>1. \A d : NewestIn(d) \subseteq manifests
      BY DEF NewestIn
    <3> QED
      BY <3>1 DEF CursorCovers
  <2>1. Second(updated[q]) \in Nat
    <3>1. PICK t \in Nat : t = updated[q]
      BY PresentTyped DEF TypeInv
    <3>2. t <= t
      OBVIOUS
    <3> QED
      BY <3>1, <3>2, SecondsGrow
  <2>2. stream \notin DateScoped
    BY <2>1, StreamsApart DEF CursorsGiven, NoCursor
  <2> QED
    BY <2>2 DEF CatalogHolds, CatalogInv, ManifestInv
<1> QED
  BY <1>1, CatalogsHold, CursorsHold, TypesHold, PTL

(* A snapshot lists every record that existed when it began, whatever      *)
(* appears and changes between its pages, except what the API moved from   *)
(* the pages it had yet to read to those it had read.                      *)
THEOREM SnapshotsAreComplete == Spec => []SnapshotComplete
<1>1. CatalogHolds => SnapshotComplete
  BY DEF CatalogHolds, CatalogInv, ManifestInv, SnapshotComplete
<1> QED
  BY <1>1, CatalogsHold, PTL

===============================================================================
