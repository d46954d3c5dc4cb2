--------------------------- MODULE GoldDaily_proofs ---------------------------
(***************************************************************************)
(* The daily tables of Gold for every set of processes, wallets, fills and *)
(* days: what is in S3 stays there, is of its day, and is in ClickHouse.   *)
(***************************************************************************)
EXTENDS GoldDaily, TLAPS, FiniteSetTheorems, SequenceTheorems, WellFoundedInduction

(* ------------------------- tasks and processes ------------------------- *)

TaskTables == Tables \cup {"wallet_position_ledger"}

(* The tasks a command may have.                                           *)
TasksOf(cmd) ==
  IF cmd = "load" THEN [table : TaskTables, day : Int, part : Int]
  ELSE [table : IF cmd \in OnDemandCmds THEN {Snapshots} ELSE Tables, day : Days, part : Int]

Steps == {"next", "plan", "delete", "put", "insert"}

Writing == {"delete", "put", "insert"}

(* The local state of a process: its tasks, and at which of its steps it   *)
(* may be with which of them.                                              *)
JobOK(r) ==
  /\ r.todo \in Seq(TasksOf(r.cmd))
  /\ r.cmd = "idle" <=> r.todo = <<>>
  /\ r.step \in Steps
  /\ r.step = "plan" <=> (r.cmd \in OnDemandCmds /\ r.step = "plan")
  /\ r.step \in {"delete", "put"} => r.cmd # "load"
  /\ r.step \in Writing => r.cmd # "idle" /\ Head(r.todo).table \in Tables

TypeInv ==
  /\ TypeOK
  /\ s3 = [t \in Tables |-> s3[t]]
  /\ ch = [t \in Tables |-> ch[t]]
  /\ job = [j \in Jobs |-> job[j]]
  /\ \A j \in Jobs : JobOK(job[j])

LEMMA OverDomain ==
  ASSUME NEW new, NEW old
  PROVE  DOMAIN Over(new, old) = DOMAIN new \cup DOMAIN old
  BY DEF Over

LEMMA OnlyRows ==
  ASSUME NEW d, NEW x
  PROVE  DOMAIN Only(d, x) = {d} /\ Only(d, x)[d] = x
  BY DEF Only

LEMMA IdleJobOK == JobOK(IdleJob) /\ IdleJob.cmd = "idle" /\ IdleJob.step = "next"
  BY DEF IdleJob, Doing, JobOK, Steps, Writing, OnDemandCmds

LEMMA HeadTask ==
  ASSUME NEW S, NEW s \in Seq(S), s # <<>>
  PROVE  /\ Head(s) \in S /\ Head(s) = s[1]
         /\ Tail(s) \in Seq(S) /\ Len(s) \in Nat \ {0}
         /\ Len(Tail(s)) = Len(s) - 1
         /\ \A n \in 1..(Len(s) - 1) : Tail(s)[n] = s[n + 1]
  OBVIOUS

LEMMA TailLeft ==
  ASSUME NEW S, NEW s \in Seq(S), Len(s) > 1
  PROVE  s # <<>> /\ Tail(s) # <<>> /\ Len(s) # 1
<1>1. s # <<>>
  OBVIOUS
<1> DEFINE t == Tail(s)
<1>2. t \in Seq(S) /\ Len(t) = Len(s) - 1 /\ Len(s) \in Nat
  BY <1>1
<1> HIDE DEF t
<1>3. t # <<>> /\ Len(s) # 1
  BY <1>2
<1> QED
  BY <1>1, <1>3 DEF t

(* What a process is about to do after its present step.                   *)
LEMMA WithOK ==
  ASSUME NEW j \in Jobs, JobOK(job[j]), job[j].cmd # "idle",
         NEW todo \in Seq(TasksOf(job[j].cmd)), NEW rows, NEW own,
         NEW step \in Steps \ {"plan"},
         step \in {"delete", "put"} => job[j].cmd # "load",
         (step \in Writing /\ todo # <<>>) => Head(todo).table \in Tables
  PROVE  JobOK(With(j, step, todo, rows, own))
<1>1. CASE todo = <<>>
  BY <1>1, IdleJobOK DEF With
<1>2. CASE todo # <<>>
  BY <1>2 DEF With, Doing, JobOK
<1> QED
  BY <1>1, <1>2

(* The tasks of a command that writes, or replays, are on days and in      *)
(* tables.                                                                 *)
LEMMA TaskFacts ==
  ASSUME NEW j \in Jobs, JobOK(job[j]), job[j].cmd # "idle"
  PROVE  /\ job[j].todo \in Seq(TasksOf(job[j].cmd)) /\ job[j].todo # <<>>
         /\ Tail(job[j].todo) \in Seq(TasksOf(job[j].cmd))
         /\ T(j) \in TaskTables
         /\ D(j) \in Int
         /\ job[j].cmd # "load" => T(j) \in Tables /\ D(j) \in Days
         /\ job[j].cmd \in OnDemandCmds => T(j) = Snapshots
<1>1. job[j].todo \in Seq(TasksOf(job[j].cmd)) /\ job[j].todo # <<>>
  BY DEF JobOK
<1>2. Head(job[j].todo) \in TasksOf(job[j].cmd) /\ Tail(job[j].todo) \in Seq(TasksOf(job[j].cmd))
  BY <1>1, HeadTask
<1>3. Days \subseteq Int
  BY DEF Days
<1>4. {Snapshots} \subseteq Tables /\ Tables \subseteq TaskTables
  BY DEF Tables, WalletTables, Snapshots, TaskTables
<1>5. "load" \notin OnDemandCmds
  BY DEF OnDemandCmds
<1> QED
  BY <1>1, <1>2, <1>3, <1>4, <1>5 DEF T, D, TasksOf

LEMMA NextTaskOK ==
  ASSUME NEW j \in Jobs, JobOK(job[j]), job[j].cmd # "idle"
  PROVE  JobOK(NextTask(j))
  BY TaskFacts, WithOK DEF NextTask, Steps, Writing

LEMMA AfterPutOK ==
  ASSUME NEW j \in Jobs, JobOK(job[j]), job[j].step \in {"delete", "put"}
  PROVE  JobOK(AfterPut(j))
<1>1. job[j].cmd # "idle" /\ job[j].cmd # "load" /\ T(j) \in Tables
  BY DEF JobOK, Writing, T
<1>2. /\ job[j].todo \in Seq(TasksOf(job[j].cmd)) /\ job[j].todo # <<>>
      /\ Tail(job[j].todo) \in Seq(TasksOf(job[j].cmd))
  BY <1>1, TaskFacts
<1>3. CASE Is(j, OnDemandCmds) /\ Len(job[j].todo) > 1
  <2>1. Tail(job[j].todo) # <<>>
    BY <1>2, <1>3, TailLeft
  <2>2. Head(Tail(job[j].todo)) \in TasksOf(job[j].cmd)
    BY <1>2, <2>1, HeadTask
  <2>3. Head(Tail(job[j].todo)).table \in Tables
    BY <2>2, <1>1, <1>3 DEF TasksOf, Is, Tables, WalletTables, Snapshots
  <2>4. JobOK(With(j, "delete", Tail(job[j].todo), job[j].rows, job[j].timely))
    BY <1>1, <1>2, <2>3, WithOK DEF Steps
  <2>5. Len(job[j].todo) # 1
    BY <1>2, <1>3, TailLeft
  <2>6. AfterPut(j) = With(j, "delete", Tail(job[j].todo), job[j].rows, job[j].timely)
    BY <1>3, <2>5 DEF AfterPut
  <2> QED
    BY <2>4, <2>6
<1>4. JobOK(With(j, "insert", job[j].todo, job[j].rows, job[j].timely))
  BY <1>1, <1>2, WithOK DEF Steps, T
<1>5. JobOK(NextTask(j)) /\ JobOK(IdleJob)
  BY <1>1, NextTaskOK, IdleJobOK
<1>6. AfterPut(j) \in {With(j, "delete", Tail(job[j].todo), job[j].rows, job[j].timely),
                       With(j, "insert", job[j].todo, job[j].rows, job[j].timely),
                       NextTask(j), IdleJob}
  BY DEF AfterPut
<1>7. CASE ~(Is(j, OnDemandCmds) /\ Len(job[j].todo) > 1)
  <2>1. AfterPut(j) \in {With(j, "insert", job[j].todo, job[j].rows, job[j].timely),
                         NextTask(j), IdleJob}
    BY <1>7 DEF AfterPut
  <2> QED
    BY <1>4, <1>5, <2>1
<1> QED
  BY <1>3, <1>7

(* ------------------------------ the commands --------------------------- *)

DistinctDays(todo) ==
  \A m, n \in DOMAIN todo : todo[m].day = todo[n].day => m = n

LEMMA SeqOf ==
  ASSUME NEW S, NEW k \in Nat, NEW s, DOMAIN s = 1..k, s = [n \in 1..k |-> s[n]],
         \A n \in 1..k : s[n] \in S
  PROVE  s \in Seq(S)
  OBVIOUS

LEMMA EachDayTasks ==
  ASSUME NEW S, NEW t \in S, NEW first \in Days, NEW last \in first..LastDay
  PROVE  /\ EachDay(t, first, last) \in Seq([table : S, day : Days, part : Int])
         /\ DistinctDays(EachDay(t, first, last))
<1>1. first \in Nat /\ last \in Nat /\ first >= 1 /\ last >= first /\ last <= LastDay /\ LastDay \in Nat
  BY GoldDailyAssumption DEF Days
<1>2. PICK k \in Nat : k = last - first + 1
  BY <1>1
<1>3. EachDay(t, first, last) = [n \in 1..k |-> Task(t, first + n - 1, n)]
  BY <1>2 DEF EachDay
<1>4. \A n \in 1..k : Task(t, first + n - 1, n) \in [table : S, day : Days, part : Int]
  BY <1>1, <1>2 DEF Task, Days
<1>5. EachDay(t, first, last) \in Seq([table : S, day : Days, part : Int])
  BY <1>3, <1>4, SeqOf
<1>6. \A n \in 1..k : EachDay(t, first, last)[n].day = first + n - 1
  BY <1>3 DEF Task
<1>7. DOMAIN EachDay(t, first, last) = 1..k
  BY <1>3
<1>8. ASSUME NEW m \in 1..k, NEW n \in 1..k, first + m - 1 = first + n - 1
      PROVE  m = n
  BY <1>1, <1>8
<1>9. DistinctDays(EachDay(t, first, last))
  BY <1>6, <1>7, <1>8 DEF DistinctDays
<1> QED
  BY <1>5, <1>9

LEMMA LastsInRange ==
  ASSUME NEW first \in Days, NEW last \in {d \in first..LastDay : d < first + MaxSpan}
  PROVE  last \in first..LastDay
  OBVIOUS

(* A bound on a quotient: what is before the end of L times d is in one of *)
(* the L parts.                                                            *)
LEMMA PartOf ==
  ASSUME NEW d \in Nat \ {0}, NEW L \in Nat, NEW n \in 1..(L * d)
  PROVE  (n - 1) \div d \in 0..(L - 1) /\ (n - 1) % d \in Int
<1>1. PICK q \in Int : q = (n - 1) \div d
  OBVIOUS
<1>2. PICK r \in Int : r = (n - 1) % d /\ 0 <= r /\ r < d
  OBVIOUS
<1>3. n - 1 = d * q + r
  BY <1>1, <1>2
<1>4. n \in Int /\ n >= 1 /\ n <= L * d
  OBVIOUS
<1>5. q >= 0
  BY <1>2, <1>3, <1>4
<1>6. q < L
  BY <1>2, <1>3, <1>4
<1> QED
  BY <1>1, <1>2, <1>5, <1>6

(* ch-load.                                                                *)
LEMMA LoadTasks ==
  ASSUME TypeOK, NEW tables \in Seq(TaskTables), NEW j \in Jobs, ChLoad(j, tables)
  PROVE  \E todo \in Seq(TasksOf("load")) : Start(j, "load", todo, IdleJob.wallet)
<1> DEFINE days == today - 1
           todo == [n \in 1..(Len(tables) * days) |->
                      Task(tables[1 + (n - 1) \div days], days - ((n - 1) % days),
                           1 + (n - 1) \div days)]
<1>1. days \in Nat /\ Len(tables) \in Nat
  BY GoldDailyAssumption DEF TypeOK
<1>2. Len(tables) * days \in Nat
  BY <1>1
<1>3. ASSUME NEW n \in 1..(Len(tables) * days)
      PROVE  Task(tables[1 + (n - 1) \div days], days - ((n - 1) % days), 1 + (n - 1) \div days)
               \in TasksOf("load")
  <2>1. days # 0
    BY <1>1, <1>3
  <2> HIDE DEF days
  <2>2. (n - 1) \div days \in 0..(Len(tables) - 1) /\ (n - 1) % days \in Int
    BY <1>1, <2>1, PartOf
  <2>3. PICK q \in 0..(Len(tables) - 1) : q = (n - 1) \div days
    BY <2>2
  <2>4. tables[1 + q] \in TaskTables
    BY <1>1, <2>3
  <2>5. PICK r \in Int : r = (n - 1) % days
    BY <2>2
  <2>6. days - r \in Int /\ 1 + q \in Int
    BY <1>1, <2>3, <2>5
  <2>7. Task(tables[1 + q], days - r, 1 + q) \in TasksOf("load")
    BY <2>4, <2>6 DEF Task, TasksOf
  <2> QED
    BY <2>3, <2>5, <2>7
<1>4. todo \in Seq(TasksOf("load"))
  <2> HIDE DEF days
  <2>1. DOMAIN todo = 1..(Len(tables) * days) /\ todo = [n \in 1..(Len(tables) * days) |-> todo[n]]
    OBVIOUS
  <2>2. \A n \in 1..(Len(tables) * days) : todo[n] \in TasksOf("load")
    BY <1>3
  <2> HIDE DEF todo
  <2> QED
    BY <1>2, <2>1, <2>2, SeqOf
<1>5. Start(j, "load", todo, IdleJob.wallet)
  BY DEF ChLoad, StartTables
<1> QED
  BY <1>4, <1>5

(* Whatever begins has tasks of its command.                               *)
Started(j, cmd, todo, wallet) ==
  /\ cmd \in CommandNames
  /\ todo \in Seq(TasksOf(cmd))
  /\ cmd \in OnDemandCmds => DistinctDays(todo)
  /\ Start(j, cmd, todo, wallet)

LEMMA BeginStarts ==
  ASSUME TypeOK, NEW j \in Jobs, Begin(j)
  PROVE  \E cmd, todo, wallet : Started(j, cmd, todo, wallet)
<1> DEFINE goal == \E cmd, todo, wallet : Started(j, cmd, todo, wallet)
<1>1. ASSUME NEW t \in Tables, NEW first \in Days, NEW last \in first..LastDay,
             NEW cmd \in {"compute", "rebuild", "force"},
             StartTables(j, cmd, EachDay(t, first, last))
      PROVE  goal
  <2>1. TasksOf(cmd) = [table : Tables, day : Days, part : Int]
    BY DEF TasksOf, OnDemandCmds
  <2>2. EachDay(t, first, last) \in Seq(TasksOf(cmd))
    BY <2>1, EachDayTasks
  <2>3. Started(j, cmd, EachDay(t, first, last), IdleJob.wallet)
    BY <1>1, <2>2 DEF Started, StartTables, CommandNames, OnDemandCmds
  <2> QED
    BY <2>3
<1>2. ASSUME NEW d \in Days, DailyRun(j, d) PROVE goal
  <2>1. DailySteps(d) \in Seq(TasksOf("daily"))
    BY DEF DailySteps, Task, TasksOf, OnDemandCmds, Tables, WalletTables, Snapshots
  <2>2. Started(j, "daily", DailySteps(d), IdleJob.wallet)
    BY <1>2, <2>1 DEF Started, DailyRun, StartTables, CommandNames, OnDemandCmds
  <2> QED
    BY <2>2
<1>3. ASSUME NEW d \in Days, ComputeWalletMetrics(j, d) PROVE goal
  <2> DEFINE todo == << Task("wallet_pnl_daily", d, 1), Task("wallet_mtm_daily", d, 2),
                        Task(Snapshots, d, 3) >>
  <2>1. todo \in Seq(TasksOf("compute"))
    BY DEF Task, TasksOf, OnDemandCmds, Tables, WalletTables, Snapshots
  <2>2. Started(j, "compute", todo, IdleJob.wallet)
    BY <1>3, <2>1 DEF Started, ComputeWalletMetrics, StartTables, CommandNames, OnDemandCmds
  <2> QED
    BY <2>2
<1>4. ASSUME NEW first \in Days, NEW last \in first..LastDay,
             \/ ComputeMarks(j, first, last) \/ ComputePnl(j, first, last)
             \/ ComputeMtm(j, first, last) \/ ComputePositionSnapshot(j, first, last)
      PROVE  goal
  <2>1. PICK t \in Tables : Compute(j, t, first, last)
    BY <1>4 DEF ComputeMarks, ComputePnl, ComputeMtm, ComputePositionSnapshot,
                Tables, WalletTables, Snapshots
  <2> QED
    BY <1>1, <2>1 DEF Compute
<1>5. ASSUME NEW first \in Days, NEW last \in first..LastDay, NEW t \in Tables,
             Rebuild(j, t, first, last)
      PROVE  goal
  BY <1>1, <1>5 DEF Rebuild
<1>6. ASSUME NEW w \in Wallets, NEW first \in Days, NEW last \in first..LastDay,
             ComputeSnapshot(j, w, first, last)
      PROVE  goal
  <2>1. PICK cmd \in OnDemandCmds : Start(j, cmd, EachDay(Snapshots, first, last), w)
    BY <1>6 DEF ComputeSnapshot
  <2>2. TasksOf(cmd) = [table : {Snapshots}, day : Days, part : Int]
    BY DEF TasksOf, OnDemandCmds
  <2>3. EachDay(Snapshots, first, last) \in Seq(TasksOf(cmd))
    BY <2>2, EachDayTasks
  <2>4. cmd \in CommandNames /\ DistinctDays(EachDay(Snapshots, first, last))
    BY EachDayTasks DEF CommandNames, OnDemandCmds
  <2> QED
    BY <2>1, <2>3, <2>4 DEF Started
<1>7. ASSUME NEW tables \in Seq(TaskTables), ChLoad(j, tables) PROVE goal
  <2>1. PICK todo \in Seq(TasksOf("load")) : Start(j, "load", todo, IdleJob.wallet)
    BY <1>7, LoadTasks
  <2> QED
    BY <2>1 DEF Started, CommandNames, OnDemandCmds
<1>8. /\ <<"market_mark_daily">> \in Seq(TaskTables)
      /\ AllTables \in Seq(TaskTables)
      /\ \A n \in DOMAIN AllTables : <<AllTables[n]>> \in Seq(TaskTables)
  <2>1. AllTables \in Seq(TaskTables)
    BY DEF AllTables, TaskTables, Tables, WalletTables, Snapshots
  <2>2. \A n \in DOMAIN AllTables : AllTables[n] \in TaskTables
    BY <2>1
  <2>3. "market_mark_daily" \in TaskTables
    BY DEF TaskTables, Tables
  <2> HIDE DEF goal
  <2> QED
    BY <2>1, <2>2, <2>3
<1>9. CASE LoadMarksCh(j)
  BY <1>7, <1>8, <1>9 DEF LoadMarksCh
<1>10. CASE ChLoad(j, AllTables) \/ \E n \in DOMAIN AllTables : ChLoad(j, <<AllTables[n]>>)
  BY <1>7, <1>8, <1>10
<1>11. CASE \E d \in Days : DailyRun(j, d) \/ ComputeWalletMetrics(j, d)
  <2> HIDE DEF goal
  <2>1. goal
    BY <1>2, <1>3, <1>11
  <2> QED
    BY <2>1 DEF goal
<1>12. ASSUME NEW first \in Days, NEW last \in {d \in first..LastDay : d < first + MaxSpan},
              \/ ComputeMarks(j, first, last) \/ ComputePnl(j, first, last)
              \/ ComputeMtm(j, first, last) \/ ComputePositionSnapshot(j, first, last)
              \/ \E t \in Tables : Rebuild(j, t, first, last)
       PROVE  goal
  <2>1. last \in first..LastDay
    BY LastsInRange
  <2> QED
    BY <1>4, <1>5, <1>12, <2>1
<1> QED
  BY <1>6, <1>9, <1>10, <1>11, <1>12 DEF Begin, goal

(* A command begins with OK tasks.                                         *)
LEMMA StartRecord ==
  ASSUME NEW j \in Jobs, NEW cmd, NEW todo, NEW wallet, Started(j, cmd, todo, wallet)
  PROVE  LET r == Doing(cmd, IF cmd \in OnDemandCmds THEN "plan" ELSE "next", todo, wallet,
                        NoRows, {})
         IN  JobOK(r) /\ job' = [job EXCEPT ![j] = r] /\ todo # <<>> /\ cmd # "idle"
<1>1. todo # <<>> /\ todo \in Seq(TasksOf(cmd)) /\ cmd # "idle"
  BY DEF Started, Start, CommandNames
<1>2. JobOK(Doing(cmd, IF cmd \in OnDemandCmds THEN "plan" ELSE "next", todo, wallet, NoRows, {}))
  BY <1>1 DEF JobOK, Doing, Steps, Writing
<1> QED
  BY <1>1, <1>2 DEF Started, Start, Become

LEMMA CommandsApart ==
  /\ "load" \notin OnDemandCmds /\ "idle" \notin OnDemandCmds
  /\ {"daily", "compute", "rebuild", "force"} \cap (OnDemandCmds \cup {"load", "idle"}) = {}
  BY DEF OnDemandCmds

(* What is left of the tasks after a failure.                              *)
LEMMA RestOfTasks ==
  ASSUME NEW S, NEW todo \in Seq(S), NEW part \in SUBSET (DOMAIN todo)
  PROVE  SubSeq(todo, Cardinality(part) + 1, Len(todo)) \in Seq(S)
<1>1. Len(todo) \in Nat /\ DOMAIN todo = 1..Len(todo)
  OBVIOUS
<1>2. IsFiniteSet(part)
  <2>1. IsFiniteSet(1..Len(todo))
    BY <1>1, FS_Interval
  <2> QED
    BY <1>1, <2>1, FS_Subset
<1>3. Cardinality(part) \in Nat
  BY <1>2, FS_CardinalityType
<1> QED
  BY <1>1, <1>3

LEMMA StepRecord ==
  ASSUME TypeInv, NEW j \in Jobs, Step(j)
  PROVE  /\ job[j].cmd # "idle"
         /\ \E r : JobOK(r) /\ job' = [job EXCEPT ![j] = r]
<1> DEFINE goal == \E r : JobOK(r) /\ job' = [job EXCEPT ![j] = r]
<1>0. JobOK(job[j])
  BY DEF TypeInv
<1>a. job[j].cmd # "idle"
  BY DEF Step, SkipExisting, NoWatchlist, Plan, ComputeMarketMarks, ComputeWalletPnl,
         ComputeWalletMtm, ComputeWalletPositionSnapshot, Delete, PassOver, Put, Insert,
         LoadRead, LoadLedger, Fail, At
<1>b. /\ job[j].todo \in Seq(TasksOf(job[j].cmd)) /\ job[j].todo # <<>>
      /\ T(j) \in TaskTables
      /\ job[j].cmd # "load" => T(j) \in Tables /\ D(j) \in Days
  BY <1>0, <1>a, TaskFacts
<1>c. JobOK(NextTask(j)) /\ JobOK(IdleJob)
  BY <1>0, <1>a, NextTaskOK, IdleJobOK
<1>d. ASSUME NEW step \in {"delete", "put", "insert"}, NEW rows, NEW own,
             step # "insert" => job[j].cmd # "load", T(j) \in Tables
      PROVE  JobOK(With(j, step, job[j].todo, rows, own))
  BY <1>0, <1>a, <1>b, <1>d, WithOK DEF Steps, T
<1>1. CASE SkipExisting(j) \/ NoWatchlist(j) \/ LoadLedger(j)
  BY <1>a, <1>c, <1>1 DEF SkipExisting, NoWatchlist, LoadLedger, Become
<1>2. ASSUME NEW rows, NEW own, Computed(j, rows, own) PROVE goal
  <2>1. job[j].cmd # "load"
    BY <1>2 DEF Computed, Is
  <2>2. PICK own2 : job' = [job EXCEPT ![j] = With(j, "delete", job[j].todo, Only(D(j), rows), own2)]
    BY <1>2 DEF Computed, Become
  <2> QED
    BY <1>b, <1>d, <2>1, <2>2
<1>3. CASE \/ ComputeMarketMarks(j) \/ ComputeWalletPnl(j)
           \/ ComputeWalletMtm(j) \/ ComputeWalletPositionSnapshot(j)
  <2> HIDE DEF goal
  <2>1. goal
    BY <1>2, <1>3 DEF ComputeMarketMarks, ComputeWalletPnl, ComputeWalletMtm,
                      ComputeWalletPositionSnapshot
  <2> QED
    BY <1>a, <2>1 DEF goal
<1>4. CASE Plan(j)
  <2>1. job[j].cmd # "load"
    BY <1>0, <1>4, CommandsApart DEF Plan, At, JobOK
  <2>2. PICK rows, own : job' = [job EXCEPT ![j] = With(j, "delete", job[j].todo, rows, own)]
    BY <1>4 DEF Plan, Become
  <2> QED
    BY <1>a, <1>b, <1>d, <2>1, <2>2
<1>5. CASE Delete(j)
  <2>1. job[j].cmd # "load"
    BY <1>0, <1>5 DEF Delete, At, JobOK
  <2>2. job' = [job EXCEPT ![j] = With(j, "put", job[j].todo, job[j].rows, job[j].timely)]
    BY <1>5 DEF Delete, Become
  <2> QED
    BY <1>a, <1>b, <1>d, <2>1, <2>2
<1>6. CASE PassOver(j) \/ Put(j)
  <2>1. job[j].step \in {"delete", "put"} /\ job' = [job EXCEPT ![j] = AfterPut(j)]
    BY <1>6 DEF PassOver, Put, At, Become
  <2> QED
    BY <1>0, <1>a, <2>1, AfterPutOK
<1>7. CASE Insert(j)
  BY <1>a, <1>c, <1>7 DEF Insert, Become
<1>8. CASE LoadRead(j)
  <2>1. T(j) \in Tables
    BY <1>8 DEF LoadRead
  <2>2. CASE job' = [job EXCEPT ![j] = NextTask(j)]
    BY <1>a, <1>c, <2>2
  <2>3. CASE \E rows : job' = [job EXCEPT ![j] = With(j, "insert", job[j].todo, rows, {})]
    BY <1>a, <1>d, <2>1, <2>3
  <2> QED
    BY <1>8, <2>2, <2>3 DEF LoadRead, Become
<1>9. CASE Fail(j)
  <2> DEFINE part == {n \in DOMAIN job[j].todo : job[j].todo[n].part = Head(job[j].todo).part}
             rest == SubSeq(job[j].todo, Cardinality(part) + 1, Len(job[j].todo))
  <2>1. rest \in Seq(TasksOf(job[j].cmd)) /\ <<>> \in Seq(TasksOf(job[j].cmd))
    BY <1>b, RestOfTasks
  <2>2. \/ \E todo \in {<<>>, rest} : job' = [job EXCEPT ![j] = With(j, "next", todo, NoRows, {})]
        \/ job' = [job EXCEPT ![j] = IdleJob]
    BY <1>9 DEF Fail, Become
  <2> HIDE DEF part, rest
  <2>3. ASSUME NEW todo \in {<<>>, rest} PROVE JobOK(With(j, "next", todo, NoRows, {}))
    BY <1>0, <1>a, <2>1, WithOK DEF Steps, Writing
  <2> QED
    BY <1>a, <1>c, <2>2, <2>3
<1> QED
  BY <1>a, <1>1, <1>3, <1>4, <1>5, <1>6, <1>7, <1>8, <1>9 DEF Step

(* -------------------------------- types -------------------------------- *)

LEMMA ShockTypes ==
  ASSUME TypeOK, Calm \/ \E kind : Disturb(kind)
  PROVE  shocks' \in 0..MaxShocks /\ events' \subseteq Kinds \cup {"gap"}
  BY GoldDailyAssumption DEF TypeOK, Calm, Disturb

(* What a process leaves as it is while it goes on with its tasks.         *)
LEMMA JobUpdate ==
  ASSUME TypeInv, NEW j \in Jobs, NEW r, JobOK(r), job' = [job EXCEPT ![j] = r]
  PROVE  /\ job' = [i \in Jobs |-> job'[i]]
         /\ job'[j] = r /\ \A i \in Jobs \ {j} : job'[i] = job[i]
         /\ \A i \in Jobs : JobOK(job'[i])
  BY DEF TypeInv

LEMMA OneDay ==
  ASSUME NEW f, NEW d, NEW x
  PROVE  /\ DOMAIN Over(Only(d, x), f) = {d} \cup DOMAIN f
         /\ Over(Only(d, x), f)[d] = x
         /\ \A e \in DOMAIN f \ {d} : Over(Only(d, x), f)[e] = f[e]
<1>1. DOMAIN Only(d, x) = {d} /\ Only(d, x)[d] = x
  BY OnlyRows
<1>2. DOMAIN Over(Only(d, x), f) = {d} \cup DOMAIN f
  BY <1>1, OverDomain
<1>3. Over(Only(d, x), f)[d] = x
  BY <1>1 DEF Over
<1>4. ASSUME NEW e \in DOMAIN f \ {d} PROVE Over(Only(d, x), f)[e] = f[e]
  BY <1>1, <1>4 DEF Over
<1> QED
  BY <1>2, <1>3, <1>4

LEMMA InitType == Init => TypeInv
<1> SUFFICES ASSUME Init PROVE TypeInv
  OBVIOUS
<1>1. \A j \in Jobs : JobOK(job[j])
  BY IdleJobOK DEF Init
<1>2. \A j \in Jobs : job[j].step = "next" /\ (job[j].cmd = "idle" <=> job[j].todo = <<>>)
  BY <1>1, IdleJobOK DEF Init, JobOK
<1>3. DOMAIN NoRows = {}
  BY DEF NoRows
<1>4. /\ today \in 1..(LastDay + 1) /\ processed \in 0..LastDay /\ commands \in 0..MaxCommands
      /\ shocks \in 0..MaxShocks
  BY GoldDailyAssumption DEF Init
<1>5. /\ DOMAIN s3 = Tables /\ \A t \in Tables : DOMAIN s3[t] \subseteq Days
      /\ DOMAIN ch = Tables /\ \A t \in Tables : DOMAIN ch[t] = Days
  BY <1>3 DEF Init
<1>6. /\ s3 = [t \in Tables |-> s3[t]]
      /\ ch = [t \in Tables |-> ch[t]]
      /\ job = [j \in Jobs |-> job[j]]
  BY DEF Init
<1>7. copies \in [Days -> Nat] /\ watched \subseteq Wallets
  BY GoldDailyAssumption DEF Init
<1> QED
  BY <1>1, <1>2, <1>4, <1>5, <1>6, <1>7 DEF Init, TypeInv, TypeOK

LEMMA InputsType == TypeInv /\ Inputs => TypeInv'
<1> SUFFICES ASSUME TypeInv, Inputs PROVE TypeInv'
  OBVIOUS
<1>0. TypeOK
  BY DEF TypeInv
<1>1. UNCHANGED <<s3, ch, job, commands, timely, put>>
  BY DEF Inputs, NextDay, Arrive, ProcessTrades, Merge, ExpireLedger, AddWallet, RemoveWallet, history
<1>2. shocks' \in 0..MaxShocks /\ events' \subseteq Kinds \cup {"gap"}
  <2>1. Calm \/ \E kind : Disturb(kind)
    BY DEF Inputs, NextDay, Arrive, ProcessTrades, Merge, ExpireLedger, AddWallet, RemoveWallet,
           history, Calm
  <2> QED
    BY <1>0, <2>1, ShockTypes
<1>3. today' \in 1..(LastDay + 1) /\ processed' \in 0..LastDay
  BY <1>0, GoldDailyAssumption
  DEF Inputs, NextDay, Arrive, ProcessTrades, Merge, ExpireLedger, AddWallet, RemoveWallet, TypeOK
<1>4. arrived' \subseteq Fills /\ settled' \subseteq arrived'
  BY <1>0
  DEF Inputs, NextDay, Arrive, ProcessTrades, Merge, ExpireLedger, AddWallet, RemoveWallet, TypeOK, FillsOf
<1>5. copies' \in [Days -> Nat]
  BY <1>0
  DEF Inputs, NextDay, Arrive, ProcessTrades, Merge, ExpireLedger, AddWallet, RemoveWallet, TypeOK
<1>6. watched' \subseteq Wallets /\ merged' \subseteq Days
  BY <1>0
  DEF Inputs, NextDay, Arrive, ProcessTrades, Merge, ExpireLedger, AddWallet, RemoveWallet, TypeOK
<1> QED
  BY <1>0, <1>1, <1>2, <1>3, <1>4, <1>5, <1>6 DEF TypeInv, TypeOK

LEMMA StartType ==
  ASSUME TypeInv, NEW j \in Jobs, NEW cmd, NEW todo, NEW wallet, Started(j, cmd, todo, wallet)
  PROVE  TypeInv'
<1>0. TypeOK
  BY DEF TypeInv
<1>2. PICK r : JobOK(r) /\ job' = [job EXCEPT ![j] = r]
  BY StartRecord
<1>3. job' = [i \in Jobs |-> job'[i]] /\ \A i \in Jobs : JobOK(job'[i])
  BY <1>2, JobUpdate
<1>4. UNCHANGED <<sources, s3, ch, timely, put>> /\ commands' \in 0..MaxCommands
  BY <1>0, GoldDailyAssumption DEF Started, Start, TypeOK
<1>5. shocks' \in 0..MaxShocks /\ events' \subseteq Kinds \cup {"gap"}
  <2>1. Calm \/ \E kind : Disturb(kind)
    BY DEF Started, Start
  <2> QED
    BY <1>0, <2>1, ShockTypes
<1>6. \A i \in Jobs : job'[i].step \in Steps /\ (job'[i].cmd = "idle" <=> job'[i].todo = <<>>)
  BY <1>3 DEF JobOK
<1> QED
  BY <1>0, <1>3, <1>4, <1>5, <1>6 DEF TypeInv, TypeOK, sources, Steps

LEMMA BeginType ==
  ASSUME TypeInv, NEW j \in Jobs, Begin(j)
  PROVE  TypeInv'
  BY BeginStarts, StartType DEF TypeInv

LEMMA StepTypes ==
  ASSUME TypeInv, NEW j \in Jobs, Step(j)
  PROVE  TypeInv'
<1>0. TypeOK /\ JobOK(job[j])
  BY DEF TypeInv
<1>1. PICK r : JobOK(r) /\ job' = [job EXCEPT ![j] = r]
  BY StepRecord
<1>2. /\ job' = [i \in Jobs |-> job'[i]] /\ \A i \in Jobs : JobOK(job'[i])
  BY <1>1, JobUpdate
<1>3. \A i \in Jobs : job'[i].step \in Steps /\ (job'[i].cmd = "idle" <=> job'[i].todo = <<>>)
  BY <1>2 DEF JobOK
<1>a. job[j].cmd # "idle"
  BY StepRecord
<1>b. job[j].cmd # "load" => T(j) \in Tables /\ D(j) \in Days
  BY <1>0, <1>a, TaskFacts
<1>c. (Put(j) \/ Delete(j)) => job[j].cmd # "load"
  BY <1>0 DEF Put, Delete, At, JobOK
<1>4. UNCHANGED <<today, arrived, settled, processed, merged, watched, commands>>
  BY DEF Step, SkipExisting, NoWatchlist, Plan, ComputeMarketMarks, ComputeWalletPnl,
         ComputeWalletMtm, ComputeWalletPositionSnapshot, Computed, Delete, PassOver, Put, Insert,
         LoadRead, LoadLedger, Fail, sources
<1>5. shocks' \in 0..MaxShocks /\ events' \subseteq Kinds \cup {"gap"}
  <2>1. CASE Plan(j)
    BY <1>0, <2>1 DEF Plan, TypeOK
  <2>2. CASE ~Plan(j)
    <3>1. Calm \/ \E kind : Disturb(kind)
      BY <2>2 DEF Step, SkipExisting, NoWatchlist, ComputeMarketMarks, ComputeWalletPnl,
         ComputeWalletMtm, ComputeWalletPositionSnapshot, Computed, Delete, PassOver, Put, Insert,
         LoadRead, LoadLedger, Fail, history, Calm
    <3> QED
      BY <1>0, <3>1, ShockTypes
  <2> QED
    BY <2>1, <2>2
<1>6. copies' \in [Days -> Nat]
  <2>1. CASE LoadLedger(j)
    <3>1. copies \in [Days -> Nat]
      BY <1>0 DEF TypeOK
    <3>2. copies' = copies \/ copies' = [copies EXCEPT ![D(j)] = copies[D(j)] + 1]
      BY <2>1 DEF LoadLedger
    <3>3. D(j) \in Days => copies[D(j)] + 1 \in Nat
      BY <3>1
    <3> QED
      BY <3>1, <3>2, <3>3
  <2>2. CASE ~LoadLedger(j)
    <3>1. copies' = copies
      BY <2>2 DEF Step, SkipExisting, NoWatchlist, Plan, ComputeMarketMarks, ComputeWalletPnl,
         ComputeWalletMtm, ComputeWalletPositionSnapshot, Computed, Delete, PassOver, Put, Insert,
         LoadRead, Fail, sources
    <3> QED
      BY <1>0, <3>1 DEF TypeOK
  <2> QED
    BY <2>1, <2>2
<1>7. s3' = [t \in Tables |-> s3'[t]] /\ \A t \in Tables : DOMAIN s3'[t] \subseteq Days
  <2>0. /\ s3 = [t \in Tables |-> s3[t]] /\ \A t \in Tables : DOMAIN s3[t] \subseteq Days
    BY <1>0 DEF TypeInv, TypeOK
  <2>1. CASE Delete(j)
    <3>1. s3' = [s3 EXCEPT ![T(j)] = Restrict(s3[T(j)], DOMAIN s3[T(j)] \ {D(j)})]
      BY <2>1 DEF Delete
    <3>2. DOMAIN Restrict(s3[T(j)], DOMAIN s3[T(j)] \ {D(j)}) = DOMAIN s3[T(j)] \ {D(j)}
      BY DEF Restrict
    <3> QED
      BY <2>0, <3>1, <3>2
  <2>2. CASE Put(j)
    <3>1. s3' = [s3 EXCEPT ![T(j)] = Over(Only(D(j), job[j].rows[D(j)]), s3[T(j)])]
      BY <2>2 DEF Put
    <3>2. T(j) \in Tables /\ D(j) \in Days
      BY <1>b, <1>c, <2>2
    <3>3. DOMAIN Over(Only(D(j), job[j].rows[D(j)]), s3[T(j)]) \subseteq Days
      <4>1. DOMAIN Over(Only(D(j), job[j].rows[D(j)]), s3[T(j)]) = {D(j)} \cup DOMAIN s3[T(j)]
        BY OneDay
      <4> QED
        BY <2>0, <3>2, <4>1
    <3> QED
      BY <2>0, <3>1, <3>3
  <2>3. CASE ~Delete(j) /\ ~Put(j)
    <3>1. s3' = s3
      BY <2>3 DEF Step, SkipExisting, NoWatchlist, Plan, ComputeMarketMarks, ComputeWalletPnl,
         ComputeWalletMtm, ComputeWalletPositionSnapshot, Computed, PassOver, Insert,
         LoadRead, LoadLedger, Fail
    <3> QED
      BY <2>0, <3>1
  <2> QED
    BY <2>1, <2>2, <2>3
<1>8. ch' = [t \in Tables |-> ch'[t]] /\ \A t \in Tables : DOMAIN ch'[t] = Days
  <2>0. ch = [t \in Tables |-> ch[t]] /\ \A t \in Tables : DOMAIN ch[t] = Days
    BY <1>0 DEF TypeInv, TypeOK
  <2>1. CASE Insert(j)
    <3> DEFINE x == [d \in Days |-> IF d \in DOMAIN job[j].rows
                                    THEN Replacing(ch[T(j)][d], job[j].rows[d])
                                    ELSE ch[T(j)][d]]
    <3>1. ch' = [ch EXCEPT ![T(j)] = x] /\ DOMAIN x = Days
      BY <2>1 DEF Insert
    <3> HIDE DEF x
    <3> QED
      BY <2>0, <3>1
  <2>2. CASE ~Insert(j)
    <3>1. ch' = ch
      BY <2>2 DEF Step, SkipExisting, NoWatchlist, Plan, ComputeMarketMarks, ComputeWalletPnl,
         ComputeWalletMtm, ComputeWalletPositionSnapshot, Computed, Delete, PassOver, Put,
         LoadRead, LoadLedger, Fail
    <3> QED
      BY <2>0, <3>1
  <2> QED
    BY <2>1, <2>2
<1>9. put' \subseteq Tables \X Days /\ timely' \subseteq put'
  <2>1. CASE Put(j)
    BY <1>0, <1>b, <1>c, <2>1 DEF Put, TypeOK
  <2>2. CASE ~Put(j)
    <3>1. UNCHANGED <<put, timely>>
      BY <2>2 DEF Step, SkipExisting, NoWatchlist, Plan, ComputeMarketMarks, ComputeWalletPnl,
         ComputeWalletMtm, ComputeWalletPositionSnapshot, Computed, Delete, PassOver, Insert,
         LoadRead, LoadLedger, Fail, history
    <3> QED
      BY <1>0, <3>1 DEF TypeOK
  <2> QED
    BY <2>1, <2>2
<1>10. DOMAIN s3' = Tables /\ DOMAIN ch' = Tables
  BY <1>7, <1>8
<1> QED
  BY <1>0, <1>2, <1>3, <1>4, <1>5, <1>6, <1>7, <1>8, <1>9, <1>10 DEF TypeInv, TypeOK, Steps

LEMMA StepType == TypeInv /\ [Next]_vars => TypeInv'
<1> SUFFICES ASSUME TypeInv, [Next]_vars PROVE TypeInv'
  OBVIOUS
<1>1. CASE Next
  BY <1>1, InputsType, BeginType, StepTypes DEF Next
<1>2. CASE UNCHANGED vars
  BY <1>2 DEF vars, sources, history, TypeInv, TypeOK
<1> QED
  BY <1>1, <1>2

LEMMA TypesHold == Spec => []TypeInv
  BY InitType, StepType, PTL DEF Spec

(* Every state is well typed.                                              *)
THEOREM TypeCorrect == Spec => []TypeOK
<1>1. TypeInv => TypeOK
  BY DEF TypeInv
<1> QED
  BY TypesHold, <1>1, PTL

(* ---------------------------- what S3 keeps ---------------------------- *)

LEMMA EventsGrow ==
  ASSUME [Next]_vars
  PROVE  events \subseteq events'
<1>1. ASSUME Calm \/ \E kind : Disturb(kind) PROVE events \subseteq events'
  BY <1>1 DEF Calm, Disturb
<1>2. CASE Inputs
  <2>1. Calm \/ \E kind : Disturb(kind)
    BY <1>2 DEF Inputs, NextDay, Arrive, ProcessTrades, Merge, ExpireLedger, AddWallet, RemoveWallet,
                history, Calm
  <2> QED
    BY <1>1, <2>1
<1>3. ASSUME NEW j \in Jobs, Begin(j) PROVE events \subseteq events'
  <2>1. Calm \/ \E kind : Disturb(kind)
    BY <1>3 DEF Begin, DailyRun, ComputeWalletMetrics, ComputeMarks, ComputePnl, ComputeMtm,
                ComputePositionSnapshot, Compute, Rebuild, ComputeSnapshot, LoadMarksCh, ChLoad,
                StartTables, Start
  <2> QED
    BY <1>1, <2>1
<1>4. ASSUME NEW j \in Jobs, Step(j) PROVE events \subseteq events'
  <2>1. CASE Plan(j)
    BY <2>1 DEF Plan
  <2>2. CASE ~Plan(j)
    <3>1. Calm \/ \E kind : Disturb(kind)
      BY <1>4, <2>2 DEF Step, SkipExisting, NoWatchlist, ComputeMarketMarks, ComputeWalletPnl,
         ComputeWalletMtm, ComputeWalletPositionSnapshot, Computed, Delete, PassOver, Put, Insert,
         LoadRead, LoadLedger, Fail, history, Calm
    <3> QED
      BY <1>1, <3>1
  <2> QED
    BY <2>1, <2>2
<1>5. CASE UNCHANGED vars
  BY <1>5 DEF vars, history
<1> QED
  BY <1>2, <1>3, <1>4, <1>5 DEF Next

(* A step of job j that is not at a put, and that leaves S3 and `put` as   *)
(* they are, replaces no partition.                                        *)
LEMMA NothingReplaced ==
  ASSUME TypeInv, PartitionsKept, events \subseteq events', NEW j \in Jobs, NEW r,
         job' = [job EXCEPT ![j] = r], s3' = s3, put' = put,
         job[j].cmd = "idle" \/ job[j].step # "put"
  PROVE  PartitionsKept'
<1>1. \A i \in Jobs \ {j} : job'[i] = job[i]
  BY DEF TypeInv
<1>2. ASSUME NEW t, NEW d, BeingReplaced(t, d) PROVE BeingReplaced(t, d)'
  <2>1. PICK i \in Jobs : At(i, "put") /\ T(i) = t /\ D(i) = d
    BY <1>2 DEF BeingReplaced
  <2>2. i # j
    BY <2>1 DEF At
  <2>3. job'[i] = job[i]
    BY <1>1, <2>2
  <2> QED
    BY <2>1, <2>3 DEF BeingReplaced, At, T, D
<1> QED
  BY <1>2 DEF PartitionsKept, Exists, Without

LEMMA KeptStep ==
  ASSUME TypeInv, PartitionsKept, [Next]_vars
  PROVE  PartitionsKept'
<1>0. events \subseteq events' /\ TypeOK
  BY EventsGrow DEF TypeInv
<1>1. CASE Inputs
  BY <1>0, <1>1 DEF Inputs, NextDay, Arrive, ProcessTrades, Merge, ExpireLedger, AddWallet, RemoveWallet,
                    history, PartitionsKept, Exists, BeingReplaced, At, T, D, Without
<1>2. ASSUME NEW j \in Jobs, Begin(j) PROVE PartitionsKept'
  <2>1. PICK cmd, todo, wallet : Started(j, cmd, todo, wallet)
    BY <1>0, <1>2, BeginStarts
  <2>2. PICK r : job' = [job EXCEPT ![j] = r]
    BY <2>1, StartRecord
  <2>3. s3' = s3 /\ put' = put /\ job[j].cmd = "idle"
    BY <2>1 DEF Started, Start
  <2> QED
    BY <1>0, <2>2, <2>3, NothingReplaced
<1>3. ASSUME NEW j \in Jobs, Step(j) PROVE PartitionsKept'
  <2>1. JobOK(job[j])
    BY DEF TypeInv
  <2>2. PICK r : JobOK(r) /\ job' = [job EXCEPT ![j] = r]
    BY <1>3, StepRecord
  <2>3. job'[j] = r /\ \A i \in Jobs \ {j} : job'[i] = job[i]
    BY <2>2, JobUpdate
  <2>4. (Put(j) \/ Delete(j)) => T(j) \in Tables /\ D(j) \in Days
    BY <2>1, TaskFacts DEF Put, Delete, At, JobOK
  <2>5. s3 = [t \in Tables |-> s3[t]]
    BY DEF TypeInv
  <2>6. CASE Delete(j)
    <3>1. r = With(j, "put", job[j].todo, job[j].rows, job[j].timely)
      BY <2>2, <2>3, <2>6, JobUpdate DEF Delete, Become, TypeInv
    <3>2. job[j].todo # <<>> /\ job[j].cmd # "idle"
      BY <2>1, <2>6 DEF Delete, At, JobOK
    <3>3. (At(j, "put") /\ T(j) = Head(job[j].todo).table /\ D(j) = Head(job[j].todo).day)'
      BY <2>3, <3>1, <3>2 DEF With, Doing, At, T, D
    <3>4. job'[j].todo = job[j].todo
      BY <2>3, <3>1, <3>2 DEF With, Doing
    <3>5. BeingReplaced(T(j), D(j))'
      BY <3>3 DEF BeingReplaced
    <3>6. \A p \in put : BeingReplaced(p[1], p[2]) => BeingReplaced(p[1], p[2])'
      <4>1. job[j].step # "put"
        BY <2>6 DEF Delete, At
      <4> QED
        BY <2>3, <4>1 DEF BeingReplaced, At, T, D
    <3>7. \A t \in Tables : \A d \in DOMAIN s3[t] : d \in DOMAIN s3'[t] \/ (t = T(j) /\ d = D(j))
      <4>1. s3' = [s3 EXCEPT ![T(j)] = Restrict(s3[T(j)], DOMAIN s3[T(j)] \ {D(j)})]
        BY <2>6 DEF Delete
      <4>2. DOMAIN Restrict(s3[T(j)], DOMAIN s3[T(j)] \ {D(j)}) = DOMAIN s3[T(j)] \ {D(j)}
        BY DEF Restrict
      <4> QED
        BY <2>5, <4>1, <4>2
    <3>8. put' = put /\ put \subseteq Tables \X Days
      BY <1>0, <2>6 DEF Delete, history, TypeOK
    <3>9. T(j)' = T(j) /\ D(j)' = D(j)
      BY <3>4 DEF T, D
    <3> QED
      BY <1>0, <3>5, <3>6, <3>7, <3>8, <3>9 DEF PartitionsKept, Exists, Without
  <2>7. CASE Put(j)
    <3>1. put' = put \cup {<<T(j), D(j)>>} /\ put \subseteq Tables \X Days
      BY <1>0, <2>7 DEF Put, TypeOK
    <3>2. s3' = [s3 EXCEPT ![T(j)] = Over(Only(D(j), job[j].rows[D(j)]), s3[T(j)])]
      BY <2>7 DEF Put
    <3>3. DOMAIN Over(Only(D(j), job[j].rows[D(j)]), s3[T(j)]) = {D(j)} \cup DOMAIN s3[T(j)]
      BY OneDay
    <3>4. /\ D(j) \in DOMAIN s3'[T(j)]
          /\ \A t \in Tables : DOMAIN s3[t] \subseteq DOMAIN s3'[t]
      BY <2>4, <2>5, <2>7, <3>2, <3>3
    <3>5. ASSUME NEW t, NEW d, BeingReplaced(t, d), <<t, d>> # <<T(j), D(j)>>
          PROVE  BeingReplaced(t, d)'
      <4>1. PICK i \in Jobs : At(i, "put") /\ T(i) = t /\ D(i) = d
        BY <3>5 DEF BeingReplaced
      <4>2. job'[i] = job[i]
        BY <2>3, <3>5, <4>1
      <4> QED
        BY <4>1, <4>2 DEF BeingReplaced, At, T, D
    <3>6. ASSUME NEW p \in put', "lost" \notin events'
          PROVE  Exists(p[1], p[2])' \/ BeingReplaced(p[1], p[2])'
      <4>1. CASE p = <<T(j), D(j)>>
        BY <3>4, <4>1 DEF Exists
      <4>2. CASE p # <<T(j), D(j)>>
        <5>1. p \in put /\ p[1] \in Tables /\ p = <<p[1], p[2]>>
          BY <3>1, <3>6, <4>2
        <5>2. Exists(p[1], p[2]) \/ BeingReplaced(p[1], p[2])
          BY <1>0, <3>6, <5>1 DEF PartitionsKept, Without
        <5>3. Exists(p[1], p[2]) => Exists(p[1], p[2])'
          BY <3>4, <5>1 DEF Exists
        <5> QED
          BY <3>5, <4>2, <5>1, <5>2, <5>3
      <4> QED
        BY <4>1, <4>2
    <3> QED
      BY <3>6 DEF PartitionsKept, Without
  <2>8. CASE Fail(j) /\ job[j].step = "put"
    <3>1. "lost" \in events'
      BY <2>8 DEF Fail, Disturb
    <3> QED
      BY <3>1 DEF PartitionsKept, Without
  <2>9. CASE ~Delete(j) /\ ~Put(j) /\ ~(Fail(j) /\ job[j].step = "put")
    <3>1. job[j].step # "put"
      BY <1>3, <2>9 DEF Step, SkipExisting, NoWatchlist, Plan, ComputeMarketMarks, ComputeWalletPnl,
         ComputeWalletMtm, ComputeWalletPositionSnapshot, PassOver, Insert, LoadRead, LoadLedger, At
    <3>2. s3' = s3 /\ put' = put
      BY <1>3, <2>9 DEF Step, SkipExisting, NoWatchlist, Plan, ComputeMarketMarks, ComputeWalletPnl,
         ComputeWalletMtm, ComputeWalletPositionSnapshot, Computed, PassOver, Insert,
         LoadRead, LoadLedger, Fail, history
    <3> QED
      BY <1>0, <2>2, <3>1, <3>2, NothingReplaced
  <2> QED
    BY <2>6, <2>7, <2>8, <2>9
<1>4. CASE UNCHANGED vars
  BY <1>4 DEF vars, history, PartitionsKept, Exists, BeingReplaced, At, T, D, Without
<1> QED
  BY <1>1, <1>2, <1>3, <1>4 DEF Next

(* A partition once written is in S3, or between a deletion and a put, or  *)
(* a process ended there.                                                  *)
THEOREM PartitionsAreKept == Spec => []PartitionsKept
<1>1. Init => PartitionsKept
  BY DEF Init, PartitionsKept
<1>2. TypeInv /\ PartitionsKept /\ [Next]_vars => PartitionsKept'
  BY KeptStep
<1> QED
  BY TypesHold, <1>1, <1>2, PTL DEF Spec

(* ---------------------- one process at a time ------------------------- *)

SingleJob ==
  Without({"overlap"}) =>
    \A i, j \in Jobs : job[i].cmd # "idle" /\ job[j].cmd # "idle" => i = j

(* What a command other than compute-snapshot writes is one day's rows.    *)
RowsOK(r) ==
  (r.step \in Writing /\ r.cmd \notin OnDemandCmds) => DOMAIN r.rows = {Head(r.todo).day}

DaysOK(r) == r.cmd \in OnDemandCmds => DistinctDays(r.todo)

ShapeInv == TypeInv /\ SingleJob /\ \A j \in Jobs : RowsOK(job[j]) /\ DaysOK(job[j])

LEMMA DistinctTail ==
  ASSUME NEW S, NEW todo \in Seq(S), todo # <<>>
  PROVE  /\ DOMAIN todo = 1..Len(todo) /\ DOMAIN Tail(todo) = 1..(Len(todo) - 1)
         /\ Len(todo) \in Nat \ {0}
         /\ \A n \in DOMAIN Tail(todo) : Tail(todo)[n] = todo[n + 1] /\ n + 1 \in DOMAIN todo
         /\ \A m \in DOMAIN todo : m # 1 => m - 1 \in DOMAIN Tail(todo) /\ Tail(todo)[m - 1] = todo[m]
         /\ 1 \in DOMAIN todo /\ Head(todo) = todo[1]
         /\ DistinctDays(todo) => /\ DistinctDays(Tail(todo))
                                  /\ \A n \in DOMAIN Tail(todo) : Tail(todo)[n].day # Head(todo).day
<1>1. /\ Len(todo) \in Nat \ {0} /\ DOMAIN todo = 1..Len(todo)
      /\ Tail(todo) \in Seq(S) /\ Len(Tail(todo)) = Len(todo) - 1 /\ Head(todo) = todo[1]
      /\ \A n \in 1..(Len(todo) - 1) : Tail(todo)[n] = todo[n + 1]
  BY HeadTask
<1> DEFINE t == Tail(todo)
           k == Len(todo)
<1>2. DOMAIN t = 1..(k - 1)
  BY <1>1
<1>3. \A n \in 1..(k - 1) : n + 1 \in 1..k /\ n + 1 # 1
  BY <1>1
<1>4. \A m \in 1..k : m # 1 => m - 1 \in 1..(k - 1) /\ (m - 1) + 1 = m
  BY <1>1
<1>5. 1 \in 1..k
  BY <1>1
<1> HIDE DEF t, k
<1>6. \A n \in 1..(k - 1) : t[n] = todo[n + 1]
  BY <1>1 DEF t, k
<1>7. DOMAIN todo = 1..k
  BY <1>1 DEF k
<1>8. \A m \in 1..k : m # 1 => t[m - 1] = todo[m]
  BY <1>4, <1>6
<1>9. ASSUME DistinctDays(todo) PROVE DistinctDays(t)
  <2>1. ASSUME NEW m \in 1..(k - 1), NEW n \in 1..(k - 1), t[m].day = t[n].day PROVE m = n
    <3>1. todo[m + 1].day = todo[n + 1].day
      BY <1>6, <2>1
    <3>2. m + 1 = n + 1
      BY <1>3, <1>7, <1>9, <3>1 DEF DistinctDays
    <3> QED
      BY <3>2
  <2> QED
    BY <1>2, <2>1 DEF DistinctDays
<1>10. ASSUME DistinctDays(todo), NEW n \in 1..(k - 1) PROVE t[n].day # todo[1].day
  <2>1. n + 1 # 1 /\ n + 1 \in DOMAIN todo /\ 1 \in DOMAIN todo
    BY <1>3, <1>5, <1>7
  <2> QED
    BY <1>6, <1>10, <2>1 DEF DistinctDays
<1> QED
  BY <1>1, <1>2, <1>3, <1>4, <1>5, <1>6, <1>7, <1>8, <1>9, <1>10 DEF t, k

LEMMA NextTaskShape ==
  ASSUME NEW j \in Jobs, JobOK(job[j]), job[j].cmd # "idle", DaysOK(job[j])
  PROVE  /\ NextTask(j).step = "next" /\ NextTask(j).cmd \in {job[j].cmd, "idle"}
         /\ RowsOK(NextTask(j)) /\ DaysOK(NextTask(j))
<1>1. NextTask(j).step = "next" /\ NextTask(j).cmd \in {job[j].cmd, "idle"}
  BY IdleJobOK DEF NextTask, With, Doing
<1>2. NextTask(j).todo = Tail(job[j].todo) \/ NextTask(j).cmd = "idle"
  BY IdleJobOK DEF NextTask, With, Doing
<1>3. job[j].todo \in Seq(TasksOf(job[j].cmd)) /\ job[j].todo # <<>>
  BY TaskFacts
<1>4. DaysOK(NextTask(j))
  BY <1>1, <1>2, <1>3, DistinctTail, CommandsApart DEF DaysOK
<1> QED
  BY <1>1, <1>4 DEF RowsOK, Writing

LEMMA IdleShape == RowsOK(IdleJob) /\ DaysOK(IdleJob)
  BY IdleJobOK, CommandsApart DEF RowsOK, DaysOK, Writing

(* The same tasks at another step.                                         *)
LEMMA SameTasks ==
  ASSUME NEW j \in Jobs, job[j].todo # <<>>, NEW step, NEW rows, NEW own
  PROVE  With(j, step, job[j].todo, rows, own)
           = Doing(job[j].cmd, step, job[j].todo, job[j].wallet, rows, own)
  BY DEF With

LEMMA SameTasksShape ==
  ASSUME NEW j \in Jobs, job[j].todo # <<>>, DaysOK(job[j]), NEW step, NEW rows, NEW own,
         job[j].cmd \notin OnDemandCmds => DOMAIN rows = {Head(job[j].todo).day}
  PROVE  /\ RowsOK(With(j, step, job[j].todo, rows, own))
         /\ DaysOK(With(j, step, job[j].todo, rows, own))
         /\ With(j, step, job[j].todo, rows, own).cmd = job[j].cmd
<1>1. PICK r : r = Doing(job[j].cmd, step, job[j].todo, job[j].wallet, rows, own)
  OBVIOUS
<1>2. r.cmd = job[j].cmd /\ r.step = step /\ r.todo = job[j].todo /\ r.rows = rows
  BY <1>1 DEF Doing
<1>3. With(j, step, job[j].todo, rows, own) = r
  BY <1>1, SameTasks
<1>4. RowsOK(r) /\ DaysOK(r)
  BY <1>2 DEF RowsOK, DaysOK
<1> QED
  BY <1>2, <1>3, <1>4

(* What follows a put or a day that is passed over.                        *)
LEMMA AfterPutShape ==
  ASSUME NEW j \in Jobs, JobOK(job[j]), job[j].step \in {"delete", "put"},
         RowsOK(job[j]), DaysOK(job[j])
  PROVE  RowsOK(AfterPut(j)) /\ DaysOK(AfterPut(j)) /\ AfterPut(j).cmd \in {job[j].cmd, "idle"}
<1>1. job[j].cmd # "idle" /\ job[j].todo \in Seq(TasksOf(job[j].cmd)) /\ job[j].todo # <<>>
  BY TaskFacts DEF JobOK, Writing
<1>2. CASE AfterPut(j) = NextTask(j)
  BY <1>1, <1>2, NextTaskShape
<1>3. CASE AfterPut(j) = IdleJob
  BY <1>3, IdleShape, IdleJobOK
<1>5. CASE AfterPut(j) = With(j, "insert", job[j].todo, job[j].rows, job[j].timely)
  <2>1. job[j].cmd \notin OnDemandCmds => DOMAIN job[j].rows = {Head(job[j].todo).day}
    BY DEF RowsOK, Writing
  <2>3. /\ RowsOK(With(j, "insert", job[j].todo, job[j].rows, job[j].timely))
        /\ DaysOK(With(j, "insert", job[j].todo, job[j].rows, job[j].timely))
        /\ With(j, "insert", job[j].todo, job[j].rows, job[j].timely).cmd = job[j].cmd
    BY <1>1, <2>1, SameTasksShape
  <2> QED
    BY <1>5, <2>3
<1>4. CASE /\ AfterPut(j) = With(j, "delete", Tail(job[j].todo), job[j].rows, job[j].timely)
           /\ Is(j, OnDemandCmds)
  <2>1. DistinctDays(Tail(job[j].todo))
    BY <1>1, <1>4, DistinctTail DEF DaysOK, Is
  <2>2. CASE Tail(job[j].todo) = <<>>
    BY <1>4, <2>2, IdleShape, IdleJobOK DEF With
  <2>3. CASE Tail(job[j].todo) # <<>>
    BY <1>4, <2>1, <2>3 DEF With, Doing, RowsOK, DaysOK, Is
  <2> QED
    BY <2>2, <2>3
<1> QED
  BY <1>2, <1>3, <1>4, <1>5 DEF AfterPut

LEMMA StepShape ==
  ASSUME TypeInv, NEW j \in Jobs, Step(j), RowsOK(job[j]), DaysOK(job[j])
  PROVE  \E r : /\ job' = [job EXCEPT ![j] = r] /\ JobOK(r) /\ RowsOK(r) /\ DaysOK(r)
                /\ r.cmd \in {job[j].cmd, "idle"}
<1>0. JobOK(job[j]) /\ job[j].cmd # "idle"
  BY StepRecord DEF TypeInv
<1>1. PICK r : JobOK(r) /\ job' = [job EXCEPT ![j] = r]
  BY StepRecord
<1>2. job'[j] = r
  BY <1>1, JobUpdate
<1>b. job[j].todo # <<>> /\ job = [i \in Jobs |-> job[i]]
  BY <1>0 DEF JobOK, TypeInv
<1> SUFFICES RowsOK(r) /\ DaysOK(r) /\ r.cmd \in {job[j].cmd, "idle"}
  BY <1>1
<1>c. ASSUME NEW x, job' = [job EXCEPT ![j] = x] PROVE r = x
  BY <1>2, <1>b, <1>c
<1>3. CASE r = NextTask(j) \/ r = IdleJob
  <2>1. CASE r = NextTask(j)
    BY <1>0, <2>1, NextTaskShape
  <2>2. CASE r = IdleJob
    BY <2>2, IdleShape, IdleJobOK
  <2> QED
    BY <1>3, <2>1, <2>2
<1>4. CASE \E step, x, own : r = With(j, step, job[j].todo, Only(D(j), x), own)
  <2>1. PICK step, x, own : r = With(j, step, job[j].todo, Only(D(j), x), own)
    BY <1>4
  <2>2. DOMAIN Only(D(j), x) = {Head(job[j].todo).day}
    BY OnlyRows DEF D
  <2>3. /\ RowsOK(With(j, step, job[j].todo, Only(D(j), x), own))
        /\ DaysOK(With(j, step, job[j].todo, Only(D(j), x), own))
        /\ With(j, step, job[j].todo, Only(D(j), x), own).cmd = job[j].cmd
    BY <1>b, <2>2, SameTasksShape
  <2> QED
    BY <2>1, <2>3
<1>5. CASE Plan(j)
  <2>1. PICK rows, own : job' = [job EXCEPT ![j] = With(j, "delete", job[j].todo, rows, own)]
    BY <1>5 DEF Plan, Become
  <2>2. r = With(j, "delete", job[j].todo, rows, own)
    BY <1>c, <2>1
  <2>3. job[j].cmd \in OnDemandCmds
    BY <1>0, <1>5 DEF Plan, At, JobOK
  <2> QED
    BY <1>b, <2>2, <2>3, SameTasksShape
<1>6. CASE Delete(j)
  <2>1. r = With(j, "put", job[j].todo, job[j].rows, job[j].timely)
    BY <1>c, <1>6 DEF Delete, Become
  <2>2. job[j].cmd \notin OnDemandCmds => DOMAIN job[j].rows = {Head(job[j].todo).day}
    BY <1>6 DEF Delete, At, RowsOK, Writing
  <2>3. /\ RowsOK(With(j, "put", job[j].todo, job[j].rows, job[j].timely))
        /\ DaysOK(With(j, "put", job[j].todo, job[j].rows, job[j].timely))
        /\ With(j, "put", job[j].todo, job[j].rows, job[j].timely).cmd = job[j].cmd
    <3>1. job[j].todo # <<>> /\ DaysOK(job[j])
      BY <1>b
    <3> QED
      BY <2>2, <3>1, SameTasksShape
  <2> QED
    BY <2>1, <2>3
<1>7. CASE PassOver(j) \/ Put(j)
  <2>1. r = AfterPut(j) /\ job[j].step \in {"delete", "put"}
    BY <1>c, <1>7 DEF PassOver, Put, At, Become
  <2> QED
    BY <1>0, <2>1, AfterPutShape
<1>8. CASE SkipExisting(j) \/ NoWatchlist(j) \/ LoadLedger(j) \/ Insert(j)
  <2>1. r = NextTask(j)
    BY <1>c, <1>8 DEF SkipExisting, NoWatchlist, LoadLedger, Insert, Become
  <2> QED
    BY <1>3, <2>1
<1>9. ASSUME NEW x, NEW own, Computed(j, x, own) PROVE RowsOK(r) /\ DaysOK(r) /\ r.cmd \in {job[j].cmd, "idle"}
  <2>1. PICK own2 : job' = [job EXCEPT ![j] = With(j, "delete", job[j].todo, Only(D(j), x), own2)]
    BY <1>9 DEF Computed, Become
  <2> QED
    BY <1>4, <1>c, <2>1
<1>10. CASE \/ ComputeMarketMarks(j) \/ ComputeWalletPnl(j)
            \/ ComputeWalletMtm(j) \/ ComputeWalletPositionSnapshot(j)
  BY <1>9, <1>10 DEF ComputeMarketMarks, ComputeWalletPnl, ComputeWalletMtm,
                     ComputeWalletPositionSnapshot
<1>11. CASE LoadRead(j)
  <2>1. CASE job' = [job EXCEPT ![j] = NextTask(j)]
    BY <1>3, <1>c, <2>1
  <2>2. CASE \E x : job' = [job EXCEPT ![j] = With(j, "insert", job[j].todo, Only(D(j), x), {})]
    <3>1. PICK x : r = With(j, "insert", job[j].todo, Only(D(j), x), {})
      BY <1>c, <2>2
    <3> QED
      BY <1>4, <3>1
  <2> QED
    BY <1>11, <2>1, <2>2 DEF LoadRead, Become
<1>12. CASE Fail(j)
  <2>1. PICK todo : \/ r = With(j, "next", todo, NoRows, {}) /\ (Is(j, OnDemandCmds) => todo = <<>>)
                    \/ r = IdleJob
    BY <1>c, <1>12 DEF Fail, Become
  <2>2. CASE r = With(j, "next", todo, NoRows, {}) /\ todo # <<>> /\ ~Is(j, OnDemandCmds)
    BY <2>2 DEF With, Doing, RowsOK, DaysOK, Writing, Is
  <2>3. CASE r = IdleJob
    BY <1>3, <2>3
  <2>4. CASE r = With(j, "next", todo, NoRows, {}) /\ todo = <<>>
    BY <1>3, <2>4 DEF With
  <2> QED
    BY <2>1, <2>2, <2>3, <2>4
<1> QED
  BY <1>5, <1>6, <1>7, <1>8, <1>10, <1>11, <1>12 DEF Step

LEMMA StartShape ==
  ASSUME ShapeInv, NEW j \in Jobs, NEW cmd, NEW todo, NEW wallet, Started(j, cmd, todo, wallet)
  PROVE  ShapeInv'
<1> DEFINE r == Doing(cmd, IF cmd \in OnDemandCmds THEN "plan" ELSE "next", todo, wallet, NoRows, {})
<1>1. JobOK(r) /\ job' = [job EXCEPT ![j] = r]
  BY StartRecord
<1>2. RowsOK(r) /\ DaysOK(r)
  BY DEF Started, Doing, RowsOK, DaysOK, Writing
<1> HIDE DEF r
<1>3. job'[j] = r /\ \A i \in Jobs \ {j} : job'[i] = job[i]
  BY <1>1, JobUpdate DEF ShapeInv
<1>4. \A i \in Jobs : RowsOK(job'[i]) /\ DaysOK(job'[i])
  BY <1>2, <1>3 DEF ShapeInv
<1>5. SingleJob'
  <2>1. CASE \E i \in Jobs : job[i].cmd # "idle"
    BY <2>1 DEF Started, Start, Disturb, SingleJob, Without
  <2>2. CASE \A i \in Jobs : job[i].cmd = "idle"
    BY <1>3, <2>2 DEF SingleJob
  <2> QED
    BY <2>1, <2>2
<1>6. TypeOK' /\ TypeInv'
  <2>1. TypeInv
    BY DEF ShapeInv
  <2>2. TypeOK
    BY <2>1 DEF TypeInv
  <2> QED
    BY <2>1, <2>2, StartType DEF TypeInv
<1> QED
  BY <1>4, <1>5, <1>6 DEF ShapeInv

LEMMA ShapeStep ==
  ASSUME ShapeInv, [Next]_vars
  PROVE  ShapeInv'
<1>0. TypeInv /\ TypeOK /\ events \subseteq events'
  BY EventsGrow DEF ShapeInv, TypeInv
<1>1. TypeInv'
  BY <1>0, StepType
<1>2. CASE Inputs \/ UNCHANGED vars
  <2>1. job' = job
    BY <1>2 DEF Inputs, NextDay, Arrive, ProcessTrades, Merge, ExpireLedger, AddWallet, RemoveWallet, vars
  <2> QED
    BY <1>0, <1>1, <2>1 DEF ShapeInv, SingleJob, RowsOK, DaysOK, DistinctDays, Without
<1>3. ASSUME NEW j \in Jobs, Begin(j) PROVE ShapeInv'
  <2>1. PICK cmd, todo, wallet : Started(j, cmd, todo, wallet)
    BY <1>0, <1>3, BeginStarts
  <2> QED
    BY <2>1, StartShape
<1>4. ASSUME NEW j \in Jobs, Step(j) PROVE ShapeInv'
  <2>1. RowsOK(job[j]) /\ DaysOK(job[j])
    BY DEF ShapeInv
  <2>2. PICK r : /\ job' = [job EXCEPT ![j] = r] /\ JobOK(r) /\ RowsOK(r) /\ DaysOK(r)
                 /\ r.cmd \in {job[j].cmd, "idle"}
    BY <1>0, <1>4, <2>1, StepShape
  <2>3. job'[j] = r /\ \A i \in Jobs \ {j} : job'[i] = job[i]
    BY <1>0, <2>2, JobUpdate
  <2>4. \A i \in Jobs : RowsOK(job'[i]) /\ DaysOK(job'[i])
    BY <2>2, <2>3 DEF ShapeInv
  <2>5. \A i \in Jobs : job'[i].cmd # "idle" => job[i].cmd # "idle"
    BY <2>2, <2>3
  <2>6. SingleJob'
    BY <1>0, <2>5 DEF ShapeInv, SingleJob, Without
  <2>7. \A i \in Jobs : RowsOK(job[i])' /\ DaysOK(job[i])'
    BY <2>4 DEF RowsOK, DaysOK, DistinctDays
  <2> QED
    BY <1>1, <2>6, <2>7 DEF ShapeInv
<1> QED
  BY <1>2, <1>3, <1>4 DEF Next

LEMMA ShapeHolds == Spec => []ShapeInv
<1>1. Init => ShapeInv
  <2> SUFFICES ASSUME Init PROVE ShapeInv
    OBVIOUS
  <2>1. \A j \in Jobs : job[j] = IdleJob
    BY DEF Init
  <2>2. SingleJob
    BY <2>1, IdleJobOK DEF SingleJob
  <2> QED
    BY <2>1, <2>2, InitType, IdleShape DEF ShapeInv
<1>2. ShapeInv /\ [Next]_vars => ShapeInv'
  BY ShapeStep
<1> QED
  BY <1>1, <1>2, PTL DEF Spec

(* ------------------- what is there already is left -------------------- *)

Replacers == {"rebuild"} \cup OnDemandCmds

(* A rebuild, or a compute-snapshot, is about to write days only that have *)
(* no partition.                                                           *)
FreshOK(r, parts) ==
  /\ r.cmd = "rebuild" /\ r.step \in {"delete", "put"} =>
       Head(r.todo).day \notin DOMAIN parts[Head(r.todo).table]
  /\ r.cmd \in OnDemandCmds /\ r.step \in {"delete", "put"} =>
       \A n \in DOMAIN r.todo : r.todo[n].day \in DOMAIN r.rows \/ (n = 1 /\ r.step = "put") =>
         r.todo[n].day \notin DOMAIN parts[Snapshots]

FreshInv ==
  Without({"overlap", "error", "lost"}) => \A j \in Jobs : FreshOK(job[j], s3)

LEMMA RestingFresh ==
  ASSUME NEW r, NEW parts, r.cmd \notin Replacers \/ r.step \notin {"delete", "put"}
  PROVE  FreshOK(r, parts)
  BY DEF FreshOK, Replacers

(* The day at the head of the tasks.                                       *)
LEMMA HeadDay ==
  ASSUME NEW j \in Jobs, JobOK(job[j]), job[j].cmd # "idle"
  PROVE  1 \in DOMAIN job[j].todo /\ Head(job[j].todo) = job[j].todo[1]
  BY TaskFacts, DistinctTail

LEMMA AfterPutFresh ==
  ASSUME NEW j \in Jobs, JobOK(job[j]), job[j].step \in {"delete", "put"},
         DaysOK(job[j]), NEW old, NEW new, FreshOK(job[j], old),
         \A d \in DOMAIN new[Snapshots] : d \in DOMAIN old[Snapshots] \/ d = D(j)
  PROVE  FreshOK(AfterPut(j), new)
<1>1. job[j].cmd # "idle" /\ job[j].todo \in Seq(TasksOf(job[j].cmd)) /\ job[j].todo # <<>>
  BY TaskFacts DEF JobOK, Writing
<1>2. CASE AfterPut(j) = NextTask(j)
  <2>1. NextTask(j).step = "next"
    BY <1>1, NextTaskShape
  <2> QED
    BY <1>2, <2>1, RestingFresh
<1>3. CASE AfterPut(j) = IdleJob
  BY <1>3, IdleJobOK, RestingFresh
<1>4. CASE AfterPut(j) = With(j, "insert", job[j].todo, job[j].rows, job[j].timely)
  <2>1. With(j, "insert", job[j].todo, job[j].rows, job[j].timely)
          = Doing(job[j].cmd, "insert", job[j].todo, job[j].wallet, job[j].rows, job[j].timely)
    BY <1>1, SameTasks
  <2>2. AfterPut(j).step = "insert"
    BY <1>4, <2>1 DEF Doing
  <2> QED
    BY <2>2, RestingFresh
<1>5. CASE /\ AfterPut(j) = With(j, "delete", Tail(job[j].todo), job[j].rows, job[j].timely)
           /\ Is(j, OnDemandCmds) /\ Tail(job[j].todo) # <<>>
  <2>1. PICK r : r = Doing(job[j].cmd, "delete", Tail(job[j].todo), job[j].wallet, job[j].rows,
                           job[j].timely)
    OBVIOUS
  <2>2. AfterPut(j) = r
    BY <1>5, <2>1 DEF With
  <2>3. /\ r.cmd = job[j].cmd /\ r.step = "delete" /\ r.todo = Tail(job[j].todo)
        /\ r.rows = job[j].rows
    BY <2>1 DEF Doing
  <2>4. job[j].cmd \in OnDemandCmds /\ DistinctDays(job[j].todo)
    BY <1>5 DEF Is, DaysOK
  <2>5. ASSUME NEW n \in DOMAIN Tail(job[j].todo), Tail(job[j].todo)[n].day \in DOMAIN job[j].rows
        PROVE  Tail(job[j].todo)[n].day \notin DOMAIN new[Snapshots]
    <3>1. Tail(job[j].todo)[n] = job[j].todo[n + 1] /\ n + 1 \in DOMAIN job[j].todo
      BY <1>1, DistinctTail
    <3>2. Tail(job[j].todo)[n].day # D(j)
      BY <1>1, <2>4, DistinctTail DEF D
    <3>3. job[j].todo[n + 1].day \notin DOMAIN old[Snapshots]
      BY <2>4, <2>5, <3>1 DEF FreshOK
    <3> QED
      BY <3>1, <3>2, <3>3
  <2>6. r.cmd # "rebuild"
    BY <2>3, <2>4 DEF OnDemandCmds
  <2>7. FreshOK(r, new)
    BY <2>3, <2>5, <2>6 DEF FreshOK
  <2> QED
    BY <2>2, <2>7
<1>6. CASE Is(j, OnDemandCmds) /\ Len(job[j].todo) > 1
  <2>1. Tail(job[j].todo) # <<>>
    BY <1>1, <1>6, TailLeft
  <2> QED
    BY <1>2, <1>3, <1>4, <1>5, <1>6, <2>1 DEF AfterPut
<1>7. CASE ~(Is(j, OnDemandCmds) /\ Len(job[j].todo) > 1)
  <2>1. AfterPut(j) \in {With(j, "insert", job[j].todo, job[j].rows, job[j].timely),
                         NextTask(j), IdleJob}
    BY <1>7 DEF AfterPut
  <2> QED
    BY <1>2, <1>3, <1>4, <2>1
<1> QED
  BY <1>6, <1>7

LEMMA StepFresh ==
  ASSUME ShapeInv, FreshInv, NEW j \in Jobs, Step(j), ~("overlap" \in events'),
         ~("error" \in events'), ~("lost" \in events')
  PROVE  \A i \in Jobs : FreshOK(job'[i], s3')
<1>0. /\ TypeInv /\ JobOK(job[j]) /\ job[j].cmd # "idle" /\ RowsOK(job[j]) /\ DaysOK(job[j])
      /\ events \subseteq events'
  BY StepRecord, EventsGrow DEF ShapeInv, TypeInv, Next
<1>1. PICK r : JobOK(r) /\ job' = [job EXCEPT ![j] = r]
  BY <1>0, StepRecord
<1>2. job'[j] = r /\ (\A i \in Jobs \ {j} : job'[i] = job[i]) /\ job = [i \in Jobs |-> job[i]]
  BY <1>0, <1>1, JobUpdate DEF TypeInv
<1>3. ASSUME NEW x, job' = [job EXCEPT ![j] = x] PROVE r = x
  BY <1>2, <1>3
<1>4. \A i \in Jobs : FreshOK(job[i], s3)
  BY <1>0 DEF FreshInv, Without
<1>5. ASSUME NEW i \in Jobs \ {j} PROVE FreshOK(job'[i], s3')
  <2>1. job[i].cmd = "idle"
    BY <1>0 DEF ShapeInv, SingleJob, Without
  <2> QED
    BY <1>2, <2>1, RestingFresh, CommandsApart DEF Replacers
<1>6. FreshOK(r, s3')
  <2>0. job[j].todo \in Seq(TasksOf(job[j].cmd)) /\ job[j].todo # <<>>
    BY <1>0, TaskFacts
  <2>a. 1 \in DOMAIN job[j].todo /\ Head(job[j].todo) = job[j].todo[1]
    BY <1>0, HeadDay
  <2>b. NextTask(j).step = "next" /\ IdleJob.step = "next"
    BY <1>0, NextTaskShape, IdleJobOK
  <2>1. CASE Delete(j)
    <3>1. r = With(j, "put", job[j].todo, job[j].rows, job[j].timely)
      BY <1>3, <2>1 DEF Delete, Become
    <3>2. r = Doing(job[j].cmd, "put", job[j].todo, job[j].wallet, job[j].rows, job[j].timely)
      BY <2>0, <3>1, SameTasks
    <3>3. /\ r.cmd = job[j].cmd /\ r.step = "put" /\ r.todo = job[j].todo
          /\ r.rows = job[j].rows /\ job[j].step = "delete" /\ D(j) \in DOMAIN job[j].rows
      BY <2>1, <3>2 DEF Doing, Delete, At
    <3>4. s3' = [s3 EXCEPT ![T(j)] = Restrict(s3[T(j)], DOMAIN s3[T(j)] \ {D(j)})]
      BY <2>1 DEF Delete
    <3>5. DOMAIN Restrict(s3[T(j)], DOMAIN s3[T(j)] \ {D(j)}) = DOMAIN s3[T(j)] \ {D(j)}
      BY DEF Restrict
    <3>6. \A t \in Tables : DOMAIN s3'[t] \subseteq DOMAIN s3[t]
      BY <1>0, <3>4, <3>5 DEF TypeInv
    <3>7. Head(job[j].todo).table \in Tables /\ Snapshots \in Tables
      BY <1>0, <3>3 DEF JobOK, Writing, Tables, WalletTables, Snapshots
    <3> QED
      BY <1>4, <2>a, <3>3, <3>6, <3>7 DEF FreshOK, D
  <2>2. CASE PassOver(j)
    <3>1. r = AfterPut(j) /\ job[j].step = "delete" /\ s3' = s3
      BY <1>3, <2>2 DEF PassOver, At, Become
    <3> QED
      BY <1>0, <1>4, <3>1, AfterPutFresh
  <2>3. CASE Put(j)
    <3>1. r = AfterPut(j) /\ job[j].step = "put"
      BY <1>3, <2>3 DEF Put, At, Become
    <3>2. s3' = [s3 EXCEPT ![T(j)] = Over(Only(D(j), job[j].rows[D(j)]), s3[T(j)])]
      BY <2>3 DEF Put
    <3>3. DOMAIN Over(Only(D(j), job[j].rows[D(j)]), s3[T(j)]) = {D(j)} \cup DOMAIN s3[T(j)]
      BY OneDay
    <3>4. Snapshots \in Tables
      BY DEF Tables, WalletTables, Snapshots
    <3>5. \A d \in DOMAIN s3'[Snapshots] : d \in DOMAIN s3[Snapshots] \/ d = D(j)
      BY <1>0, <3>2, <3>3, <3>4 DEF TypeInv
    <3> QED
      BY <1>0, <1>4, <3>1, <3>5, AfterPutFresh
  <2>4. ASSUME NEW x, NEW own, Computed(j, x, own) PROVE FreshOK(r, s3')
    <3>1. PICK own2 : job' = [job EXCEPT ![j] = With(j, "delete", job[j].todo, Only(D(j), x), own2)]
      BY <2>4 DEF Computed, Become
    <3>2. r = Doing(job[j].cmd, "delete", job[j].todo, job[j].wallet, Only(D(j), x), own2)
      BY <1>3, <2>0, <3>1, SameTasks
    <3>3. r.cmd = job[j].cmd /\ r.todo = job[j].todo
      BY <3>2 DEF Doing
    <3>4. s3' = s3 /\ job[j].cmd \notin OnDemandCmds
      BY <2>4, CommandsApart DEF Computed, Is
    <3>5. job[j].cmd = "rebuild" => D(j) \notin DOMAIN s3[T(j)]
      BY <2>4 DEF Computed, Is, Exists, Disturb
    <3> QED
      BY <3>3, <3>4, <3>5 DEF FreshOK, T, D
  <2>5. CASE \/ ComputeMarketMarks(j) \/ ComputeWalletPnl(j)
             \/ ComputeWalletMtm(j) \/ ComputeWalletPositionSnapshot(j)
    BY <2>4, <2>5 DEF ComputeMarketMarks, ComputeWalletPnl, ComputeWalletMtm,
                      ComputeWalletPositionSnapshot
  <2>6. CASE Plan(j)
    <3>1. PICK rows, own :
            /\ job' = [job EXCEPT ![j] = With(j, "delete", job[j].todo, rows, own)]
            /\ \A d \in DOMAIN rows : d \notin DOMAIN s3[Snapshots]
      <4> DEFINE asked == {job[j].todo[n].day : n \in DOMAIN job[j].todo}
                 missing == {d \in asked : ~Exists(Snapshots, d)}
                 rows == [d \in {e \in missing : Replay(job[j].wallet, e, missing) # NoRows} |->
                            Replay(job[j].wallet, d, missing)]
                 own == {d \in missing : d <= processed /\ \A e \in 1..d : copies[e] > 0}
      <4>1. job' = [job EXCEPT ![j] = With(j, "delete", job[j].todo, rows, own)]
        BY <2>6 DEF Plan, Become
      <4>2. \A d \in DOMAIN rows : d \notin DOMAIN s3[Snapshots]
        BY DEF Exists
      <4> HIDE DEF rows, own
      <4> QED
        BY <4>1, <4>2
    <3>2. r = Doing(job[j].cmd, "delete", job[j].todo, job[j].wallet, rows, own)
      BY <1>3, <2>0, <3>1, SameTasks
    <3>3. r.cmd = job[j].cmd /\ r.todo = job[j].todo /\ r.step = "delete" /\ r.rows = rows
      BY <3>2 DEF Doing
    <3>4. s3' = s3 /\ job[j].cmd \in OnDemandCmds
      BY <1>0, <2>6 DEF Plan, At, JobOK
    <3>5. job[j].cmd # "rebuild"
      BY <3>4 DEF OnDemandCmds
    <3> QED
      BY <3>1, <3>3, <3>4, <3>5 DEF FreshOK
  <2>7. CASE SkipExisting(j) \/ NoWatchlist(j) \/ LoadLedger(j) \/ Insert(j)
    <3>1. r = NextTask(j)
      BY <1>3, <2>7 DEF SkipExisting, NoWatchlist, LoadLedger, Insert, Become
    <3> QED
      BY <2>b, <3>1, RestingFresh
  <2>8. CASE LoadRead(j)
    <3>1. job[j].cmd = "load"
      BY <2>8 DEF LoadRead, Is
    <3>2. r.cmd \in {job[j].cmd, "idle"}
      BY <1>0, <1>3, StepShape
    <3> QED
      BY <3>1, <3>2, RestingFresh, CommandsApart DEF Replacers
  <2>9. CASE Fail(j)
    <3>1. \/ \E todo : r = With(j, "next", todo, NoRows, {})
          \/ r = IdleJob
      BY <1>3, <2>9 DEF Fail, Become
    <3>2. r.step = "next"
      BY <2>b, <3>1 DEF With, Doing
    <3> QED
      BY <3>2, RestingFresh
  <2> QED
    BY <2>1, <2>2, <2>3, <2>5, <2>6, <2>7, <2>8, <2>9 DEF Step
<1> QED
  BY <1>2, <1>5, <1>6

LEMMA FreshStep ==
  ASSUME ShapeInv, FreshInv, [Next]_vars
  PROVE  FreshInv'
<1>0. TypeOK /\ TypeInv /\ events \subseteq events'
  BY EventsGrow DEF ShapeInv, TypeInv
<1>1. CASE Inputs \/ UNCHANGED vars
  <2>1. job' = job /\ s3' = s3
    BY <1>1 DEF Inputs, NextDay, Arrive, ProcessTrades, Merge, ExpireLedger, AddWallet, RemoveWallet, vars
  <2> QED
    BY <1>0, <2>1 DEF FreshInv, Without, FreshOK
<1>2. ASSUME NEW j \in Jobs, Begin(j) PROVE FreshInv'
  <2>1. PICK cmd, todo, wallet : Started(j, cmd, todo, wallet)
    BY <1>0, <1>2, BeginStarts
  <2> DEFINE r == Doing(cmd, IF cmd \in OnDemandCmds THEN "plan" ELSE "next", todo, wallet,
                        NoRows, {})
  <2>2. JobOK(r) /\ job' = [job EXCEPT ![j] = r]
    BY <2>1, StartRecord
  <2>3. r.step \notin {"delete", "put"}
    BY DEF Doing
  <2> HIDE DEF r
  <2>4. job'[j] = r /\ \A i \in Jobs \ {j} : job'[i] = job[i]
    BY <1>0, <2>2, JobUpdate
  <2>5. s3' = s3
    BY <2>1 DEF Started, Start
  <2>6. Without({"overlap", "error", "lost"})' => \A i \in Jobs : FreshOK(job'[i], s3')
    BY <1>0, <2>3, <2>4, <2>5, RestingFresh DEF FreshInv, Without
  <2> QED
    BY <2>6 DEF FreshInv, FreshOK
<1>3. ASSUME NEW j \in Jobs, Step(j) PROVE FreshInv'
  <2>1. Without({"overlap", "error", "lost"})' => \A i \in Jobs : FreshOK(job'[i], s3')
    BY <1>3, StepFresh DEF Without
  <2> QED
    BY <2>1 DEF FreshInv, FreshOK
<1> QED
  BY <1>1, <1>2, <1>3 DEF Next

LEMMA FreshKeeps ==
  ASSUME ShapeInv, FreshInv, [Next]_vars,
         \A j \in Jobs : Is(j, {"idle", "rebuild"} \cup OnDemandCmds),
         Without({"overlap", "error", "lost"})
  PROVE  \A t \in Tables : \A d \in DOMAIN s3[t] : d \in DOMAIN s3'[t] /\ s3'[t][d] = s3[t][d]
<1>0. TypeInv /\ TypeOK /\ s3 = [t \in Tables |-> s3[t]]
  BY DEF ShapeInv, TypeInv
<1>1. CASE s3' = s3
  BY <1>1
<1>2. ASSUME NEW j \in Jobs, Delete(j) \/ Put(j) PROVE D(j) \notin DOMAIN s3[T(j)]
  <2>1. JobOK(job[j]) /\ FreshOK(job[j], s3) /\ job[j].cmd # "idle"
    BY <1>0, <1>2 DEF FreshInv, TypeInv, Delete, Put, At
  <2>2. CASE job[j].cmd = "rebuild"
    BY <1>2, <2>1, <2>2 DEF FreshOK, Delete, Put, At, T, D
  <2>3. CASE job[j].cmd \in OnDemandCmds
    <3>1. T(j) = Snapshots /\ 1 \in DOMAIN job[j].todo /\ Head(job[j].todo) = job[j].todo[1]
      BY <2>1, <2>3, TaskFacts, HeadDay
    <3>2. D(j) = job[j].todo[1].day
      BY <3>1 DEF D
    <3> QED
      BY <1>2, <2>1, <2>3, <3>1, <3>2 DEF FreshOK, Delete, Put, At
  <2> QED
    BY <2>1, <2>2, <2>3 DEF Is
<1>3. ASSUME NEW j \in Jobs, Delete(j)
      PROVE  \A t \in Tables : \A d \in DOMAIN s3[t] : d \in DOMAIN s3'[t] /\ s3'[t][d] = s3[t][d]
  <2> DEFINE x == Restrict(s3[T(j)], DOMAIN s3[T(j)] \ {D(j)})
  <2>1. s3' = [s3 EXCEPT ![T(j)] = x]
    BY <1>3 DEF Delete
  <2>2. \A d \in DOMAIN s3[T(j)] \ {D(j)} : d \in DOMAIN x /\ x[d] = s3[T(j)][d]
    BY DEF Restrict
  <2>3. D(j) \notin DOMAIN s3[T(j)]
    BY <1>2, <1>3
  <2> HIDE DEF x
  <2> QED
    BY <1>0, <2>1, <2>2, <2>3
<1>4. ASSUME NEW j \in Jobs, Put(j)
      PROVE  \A t \in Tables : \A d \in DOMAIN s3[t] : d \in DOMAIN s3'[t] /\ s3'[t][d] = s3[t][d]
  <2> DEFINE x == Over(Only(D(j), job[j].rows[D(j)]), s3[T(j)])
  <2>1. s3' = [s3 EXCEPT ![T(j)] = x]
    BY <1>4 DEF Put
  <2>2. \A d \in DOMAIN s3[T(j)] \ {D(j)} : d \in DOMAIN x /\ x[d] = s3[T(j)][d]
    <3>1. PICK new : new = job[j].rows[D(j)]
      OBVIOUS
    <3>2. PICK old : old = s3[T(j)]
      OBVIOUS
    <3>3. x = Over(Only(D(j), new), old)
      BY <3>1, <3>2
    <3> HIDE DEF x
    <3>4. DOMAIN x = {D(j)} \cup DOMAIN old
      BY <3>3, OneDay
    <3>5. ASSUME NEW d \in DOMAIN old \ {D(j)} PROVE x[d] = old[d]
      <4>1. DOMAIN Only(D(j), new) = {D(j)}
        BY OnlyRows
      <4>2. Over(Only(D(j), new), old)[d] = old[d]
        BY <3>5, <4>1 DEF Over
      <4> QED
        BY <3>3, <4>2
    <3> QED
      BY <3>2, <3>4, <3>5
  <2>3. D(j) \notin DOMAIN s3[T(j)]
    BY <1>2, <1>4
  <2> HIDE DEF x
  <2> QED
    BY <1>0, <2>1, <2>2, <2>3
<1>5. CASE Inputs \/ (\E j \in Jobs : Begin(j)) \/ UNCHANGED vars
  <2>1. ASSUME NEW j \in Jobs, Begin(j) PROVE s3' = s3
    BY <1>0, <2>1, BeginStarts DEF Started, Start
  <2> QED
    BY <1>1, <1>5, <2>1 DEF Inputs, NextDay, Arrive, ProcessTrades, Merge, ExpireLedger, AddWallet,
       RemoveWallet, vars
<1>6. ASSUME NEW j \in Jobs, Step(j), ~Delete(j), ~Put(j) PROVE s3' = s3
  BY <1>6 DEF Step, SkipExisting, NoWatchlist, Plan, ComputeMarketMarks, ComputeWalletPnl,
     ComputeWalletMtm, ComputeWalletPositionSnapshot, Computed, PassOver, Insert,
     LoadRead, LoadLedger, Fail
<1> QED
  BY <1>1, <1>3, <1>4, <1>5, <1>6 DEF Next

(* A rebuild without --force and a compute-snapshot leave every partition   *)
(* that is there as it is, one at a time and while no existence check fails. *)
THEOREM ExistingIsKept == Spec => ExistingKept
<1>1. Init => FreshInv
  BY IdleJobOK, RestingFresh DEF Init, FreshInv
<1>2. ShapeInv /\ FreshInv /\ [Next]_vars => FreshInv'
  BY FreshStep
<1>3. ShapeInv /\ FreshInv /\ [Next]_vars =>
        [ (\A j \in Jobs : Is(j, {"idle", "rebuild"} \cup OnDemandCmds))
            /\ (\A j \in Jobs : job'[j].cmd \in {"idle", "rebuild"} \cup OnDemandCmds)
            /\ Without({"overlap", "error", "lost"}) =>
          \A t \in Tables : \A d \in DOMAIN s3[t] :
            d \in DOMAIN s3'[t] /\ s3'[t][d] = s3[t][d] ]_vars
  BY FreshKeeps
<1> QED
  BY ShapeHolds, <1>1, <1>2, <1>3, PTL DEF Spec, ExistingKept

(* ------------------- what ClickHouse shows of S3 ----------------------- *)

Quiet == Without({"crash", "error", "lost", "overlap", "skipCh"})

(* ClickHouse shows the rows of a partition.                               *)
Shows(parts, shown, t, d) ==
  d \in DOMAIN parts[t] =>
    \A k \in DOMAIN parts[t][d] : k \in DOMAIN shown[t][d] /\ shown[t][d][k] = parts[t][d][k]

AllShow(parts, shown) == \A t \in WalletTables : \A d \in Days : Shows(parts, shown, t, d)

(* A process that will insert the rows of a day.                           *)
Pending(r, t, d) ==
  r.cmd # "idle" /\ r.step \in Writing /\ Head(r.todo).table = t /\ d \in DOMAIN r.rows

(* The rows a process has are those in S3, or of a day that it is still to *)
(* put.                                                                    *)
Carries(r, parts) ==
  r.step \in Writing =>
    /\ r.step = "put" => Head(r.todo).day \in DOMAIN r.rows
    /\ \A d \in DOMAIN r.rows :
         \/ d \in DOMAIN parts[Head(r.todo).table] /\ parts[Head(r.todo).table][d] = r.rows[d]
         \/ r.step # "insert" /\ \E n \in DOMAIN r.todo : r.todo[n].day = d

(* The only process there is.                                              *)
Mirrors(r, parts, shown) ==
  /\ r.cmd # "s3only" /\ Carries(r, parts)
  /\ \A t \in WalletTables : \A d \in Days : Shows(parts, shown, t, d) \/ Pending(r, t, d)

MirrorInv ==
  Quiet =>
    /\ \A j \in Jobs : job[j].cmd # "s3only" /\ Carries(job[j], s3)
    /\ \A t \in WalletTables : \A d \in Days :
         Shows(s3, ch, t, d) \/ \E j \in Jobs : Pending(job[j], t, d)

LEMMA RestingMirrors ==
  ASSUME NEW r, NEW parts, NEW shown, r.step \notin Writing, r.cmd # "s3only",
         AllShow(parts, shown)
  PROVE  Mirrors(r, parts, shown)
  BY DEF Mirrors, Carries, AllShow

LEMMA RestingShows ==
  ASSUME NEW r, NEW parts, NEW shown, r.step \notin Writing, Mirrors(r, parts, shown)
  PROVE  AllShow(parts, shown)
  BY DEF Mirrors, Pending, AllShow

(* The rows of the next task are those in S3, or are to be put.            *)
LEMMA CarryingMirrors ==
  ASSUME NEW r, NEW parts, NEW shown, AllShow(parts, shown), r.cmd # "s3only",
         r.step \in {"delete", "insert"},
         \A d \in DOMAIN r.rows :
           \/ d \in DOMAIN parts[Head(r.todo).table] /\ parts[Head(r.todo).table][d] = r.rows[d]
           \/ r.step = "delete" /\ \E n \in DOMAIN r.todo : r.todo[n].day = d
  PROVE  Mirrors(r, parts, shown)
  BY DEF Mirrors, Carries, AllShow

(* The next step of a command that goes on with the same rows.             *)
LEMMA NextDayMirrors ==
  ASSUME NEW j \in Jobs, JobOK(job[j]), job[j].cmd \in OnDemandCmds, job[j].step \in Writing,
         Tail(job[j].todo) # <<>>, NEW parts, NEW shown, job[j].cmd # "s3only",
         \A d \in DOMAIN job[j].rows :
           \/ d \in DOMAIN parts[Snapshots] /\ parts[Snapshots][d] = job[j].rows[d]
           \/ \E n \in DOMAIN job[j].todo : n # 1 /\ job[j].todo[n].day = d,
         \A t \in WalletTables : \A d \in Days : Shows(parts, shown, t, d) \/ Pending(job[j], t, d)
  PROVE  Mirrors(With(j, "delete", Tail(job[j].todo), job[j].rows, job[j].timely), parts, shown)
<1>1. PICK r : r = Doing(job[j].cmd, "delete", Tail(job[j].todo), job[j].wallet, job[j].rows,
                         job[j].timely)
  OBVIOUS
<1>2. With(j, "delete", Tail(job[j].todo), job[j].rows, job[j].timely) = r
  BY <1>1 DEF With
<1>3. /\ r.cmd = job[j].cmd /\ r.step = "delete" /\ r.todo = Tail(job[j].todo)
      /\ r.rows = job[j].rows
  BY <1>1 DEF Doing
<1>4. job[j].cmd # "idle" /\ T(j) = Snapshots /\ job[j].todo \in Seq(TasksOf(job[j].cmd))
      /\ job[j].todo # <<>>
  BY TaskFacts, CommandsApart
<1>5. Head(Tail(job[j].todo)).table = Snapshots
  <2>1. Head(Tail(job[j].todo)) \in TasksOf(job[j].cmd)
    BY <1>4, HeadTask
  <2> QED
    BY <2>1, CommandsApart DEF TasksOf
<1>6. ASSUME NEW d \in DOMAIN job[j].rows
      PROVE  \/ d \in DOMAIN parts[Snapshots] /\ parts[Snapshots][d] = job[j].rows[d]
             \/ \E n \in DOMAIN Tail(job[j].todo) : Tail(job[j].todo)[n].day = d
  <2>1. ASSUME NEW n \in DOMAIN job[j].todo, n # 1, job[j].todo[n].day = d
        PROVE  \E m \in DOMAIN Tail(job[j].todo) : Tail(job[j].todo)[m].day = d
    <3>1. n - 1 \in DOMAIN Tail(job[j].todo) /\ Tail(job[j].todo)[n - 1] = job[j].todo[n]
      BY <1>4, <2>1, DistinctTail
    <3> QED
      BY <2>1, <3>1
  <2> QED
    BY <2>1
<1>7. Carries(r, parts)
  BY <1>3, <1>5, <1>6 DEF Carries
<1>8. ASSUME NEW t, NEW d, Pending(job[j], t, d) PROVE Pending(r, t, d)
  BY <1>3, <1>4, <1>5, <1>8 DEF Pending, T, Writing
<1>9. Mirrors(r, parts, shown)
  BY <1>3, <1>7, <1>8 DEF Mirrors
<1> QED
  BY <1>2, <1>9

(* All of the rows are in S3, and are inserted next.                       *)
LEMMA InsertingMirrors ==
  ASSUME NEW j \in Jobs, JobOK(job[j]), job[j].step \in Writing, NEW parts, NEW shown,
         job[j].cmd # "s3only",
         \A d \in DOMAIN job[j].rows : d \in DOMAIN parts[T(j)] /\ parts[T(j)][d] = job[j].rows[d],
         \A t \in WalletTables : \A d \in Days : Shows(parts, shown, t, d) \/ Pending(job[j], t, d)
  PROVE  Mirrors(With(j, "insert", job[j].todo, job[j].rows, job[j].timely), parts, shown)
<1>1. PICK r : r = Doing(job[j].cmd, "insert", job[j].todo, job[j].wallet, job[j].rows,
                         job[j].timely)
  OBVIOUS
<1>2. job[j].todo # <<>> /\ job[j].cmd # "idle"
  BY DEF JobOK
<1>3. With(j, "insert", job[j].todo, job[j].rows, job[j].timely) = r
  BY <1>1, <1>2, SameTasks
<1>4. /\ r.cmd = job[j].cmd /\ r.step = "insert" /\ r.todo = job[j].todo
      /\ r.rows = job[j].rows
  BY <1>1 DEF Doing
<1>5. Carries(r, parts)
  BY <1>4 DEF Carries, T
<1>6. ASSUME NEW t, NEW d, Pending(job[j], t, d) PROVE Pending(r, t, d)
  BY <1>2, <1>4, <1>6 DEF Pending, Writing
<1>7. Mirrors(r, parts, shown)
  BY <1>4, <1>5, <1>6 DEF Mirrors
<1> QED
  BY <1>3, <1>7

LEMMA AfterPutMirrors ==
  ASSUME NEW j \in Jobs, JobOK(job[j]), job[j].step \in {"delete", "put"},
         RowsOK(job[j]), DaysOK(job[j]), job[j].cmd # "s3only", NEW parts, NEW shown,
         \A d \in DOMAIN job[j].rows :
           \/ d \in DOMAIN parts[T(j)] /\ parts[T(j)][d] = job[j].rows[d]
           \/ Is(j, OnDemandCmds) /\ \E n \in DOMAIN job[j].todo : n # 1 /\ job[j].todo[n].day = d,
         \A t \in WalletTables : \A d \in Days : Shows(parts, shown, t, d) \/ Pending(job[j], t, d)
  PROVE  Mirrors(AfterPut(j), parts, shown)
<1>1. job[j].cmd # "idle" /\ job[j].todo \in Seq(TasksOf(job[j].cmd)) /\ job[j].todo # <<>>
      /\ job[j].step \in Writing
  BY TaskFacts DEF JobOK, Writing
<1>2. CASE Is(j, OnDemandCmds) /\ Len(job[j].todo) > 1
  <2>1. Tail(job[j].todo) # <<>> /\ Len(job[j].todo) # 1
    BY <1>1, <1>2, TailLeft
  <2>2. AfterPut(j) = With(j, "delete", Tail(job[j].todo), job[j].rows, job[j].timely)
    BY <1>2, <2>1 DEF AfterPut
  <2>3. T(j) = Snapshots /\ job[j].cmd \in OnDemandCmds
    BY <1>1, <1>2, TaskFacts DEF Is
  <2>4. \A d \in DOMAIN job[j].rows :
           \/ d \in DOMAIN parts[Snapshots] /\ parts[Snapshots][d] = job[j].rows[d]
           \/ \E n \in DOMAIN job[j].todo : n # 1 /\ job[j].todo[n].day = d
    BY <2>3
  <2>5. Mirrors(With(j, "delete", Tail(job[j].todo), job[j].rows, job[j].timely), parts, shown)
    BY <1>1, <2>1, <2>3, <2>4, NextDayMirrors
  <2> QED
    BY <2>2, <2>5
<1>3. CASE Is(j, OnDemandCmds) /\ ~(Len(job[j].todo) > 1)
  <2>1. Len(job[j].todo) \in Nat \ {0} /\ DOMAIN job[j].todo = 1..Len(job[j].todo)
    BY <1>1, DistinctTail
  <2>2. \A n \in DOMAIN job[j].todo : n = 1
    BY <1>3, <2>1
  <2>3. \A d \in DOMAIN job[j].rows : d \in DOMAIN parts[T(j)] /\ parts[T(j)][d] = job[j].rows[d]
    BY <2>2
  <2>4. AfterPut(j) = With(j, "insert", job[j].todo, job[j].rows, job[j].timely)
    <3>1. ~Is(j, {"s3only"})
      BY DEF Is
    <3> QED
      BY <1>3, <3>1 DEF AfterPut
  <2>5. Mirrors(With(j, "insert", job[j].todo, job[j].rows, job[j].timely), parts, shown)
    BY <1>1, <2>3, InsertingMirrors
  <2> QED
    BY <2>4, <2>5
<1>4. CASE ~Is(j, OnDemandCmds)
  <2>1. DOMAIN job[j].rows = {D(j)}
    BY <1>1, <1>4 DEF RowsOK, Is, D
  <2>2. D(j) \in DOMAIN parts[T(j)] /\ parts[T(j)][D(j)] = job[j].rows[D(j)]
    BY <1>4, <2>1
  <2>3. CASE \/ T(j) = "market_mark_daily" /\ ~Is(j, {"compute"})
             \/ T(j) # "wallet_pnl_daily" /\ job[j].rows[D(j)] = NoRows
    <3>1. ASSUME NEW t \in WalletTables, NEW d \in Days PROVE Shows(parts, shown, t, d)
      <4>1. CASE ~Pending(job[j], t, d)
        BY <4>1
      <4>2. CASE Pending(job[j], t, d)
        <5>1. t = T(j) /\ d = D(j)
          BY <2>1, <4>2 DEF Pending, T
        <5>2. t # "market_mark_daily"
          BY DEF WalletTables
        <5>3. parts[t][d] = NoRows /\ DOMAIN NoRows = {}
          BY <2>2, <2>3, <5>1, <5>2 DEF NoRows
        <5> QED
          BY <5>3 DEF Shows
      <4> QED
        BY <4>1, <4>2
    <3>2. AfterPut(j) = NextTask(j)
      <4>1. ~Is(j, {"s3only"})
        BY DEF Is
      <4> QED
        BY <1>4, <2>3, <4>1 DEF AfterPut
    <3>3. NextTask(j).step = "next" /\ NextTask(j).cmd # "s3only"
      BY <1>1, NextTaskShape
    <3>4. AllShow(parts, shown) /\ NextTask(j).step \notin Writing
      BY <3>1, <3>3 DEF AllShow, Writing
    <3> QED
      BY <3>2, <3>3, <3>4, RestingMirrors
  <2>4. CASE ~(\/ T(j) = "market_mark_daily" /\ ~Is(j, {"compute"})
               \/ T(j) # "wallet_pnl_daily" /\ job[j].rows[D(j)] = NoRows)
    <3>1. AfterPut(j) = With(j, "insert", job[j].todo, job[j].rows, job[j].timely)
      <4>1. ~Is(j, {"s3only"})
        BY DEF Is
      <4> QED
        BY <1>4, <2>4, <4>1 DEF AfterPut
    <3>2. \A d \in DOMAIN job[j].rows : d \in DOMAIN parts[T(j)] /\ parts[T(j)][d] = job[j].rows[d]
      BY <2>1, <2>2
    <3>3. Mirrors(With(j, "insert", job[j].todo, job[j].rows, job[j].timely), parts, shown)
      BY <1>1, <3>2, InsertingMirrors
    <3> QED
      BY <3>1, <3>3
  <2> QED
    BY <2>3, <2>4
<1> QED
  BY <1>2, <1>3, <1>4

LEMMA DeleteMirrors ==
  ASSUME ShapeInv, NEW j \in Jobs, Delete(j), Mirrors(job[j], s3, ch), NEW r, JobOK(r),
         job' = [job EXCEPT ![j] = r]
  PROVE  Mirrors(r, s3', ch')
<1>0. TypeInv /\ JobOK(job[j]) /\ job[j].cmd # "idle" /\ job[j].step = "delete"
  BY DEF ShapeInv, TypeInv, Delete, At
<1>1. r = With(j, "put", job[j].todo, job[j].rows, job[j].timely)
  BY <1>0, JobUpdate DEF Delete, Become, TypeInv
<1>2. job[j].todo # <<>> /\ 1 \in DOMAIN job[j].todo /\ Head(job[j].todo) = job[j].todo[1]
  BY <1>0, HeadDay DEF JobOK
<1>3. r = Doing(job[j].cmd, "put", job[j].todo, job[j].wallet, job[j].rows, job[j].timely)
  BY <1>1, <1>2, SameTasks
<1>4. /\ r.cmd = job[j].cmd /\ r.step = "put" /\ r.todo = job[j].todo /\ r.rows = job[j].rows
  BY <1>3 DEF Doing
<1>5. T(j) \in Tables /\ ch' = ch /\ D(j) \in DOMAIN job[j].rows
  BY <1>0 DEF JobOK, Writing, T, Delete
<1> DEFINE x == Restrict(s3[T(j)], DOMAIN s3[T(j)] \ {D(j)})
<1>6. s3' = [s3 EXCEPT ![T(j)] = x] /\ s3 = [t \in Tables |-> s3[t]]
  BY <1>0 DEF Delete, TypeInv
<1>7. DOMAIN x = DOMAIN s3[T(j)] \ {D(j)} /\ \A d \in DOMAIN x : x[d] = s3[T(j)][d]
  BY DEF Restrict
<1> HIDE DEF x
<1>8. \A t \in Tables : t # T(j) => s3'[t] = s3[t]
  BY <1>5, <1>6
<1>9. s3'[T(j)] = x
  BY <1>5, <1>6
<1>10. ASSUME NEW t \in Tables, NEW d, Shows(s3, ch, t, d) PROVE Shows(s3', ch', t, d)
  BY <1>5, <1>7, <1>8, <1>9, <1>10 DEF Shows
<1>11. WalletTables \subseteq Tables
  BY DEF Tables
<1>12. Carries(r, s3')
  <2>1. ASSUME NEW d \in DOMAIN job[j].rows
        PROVE  \/ d \in DOMAIN s3'[T(j)] /\ s3'[T(j)][d] = job[j].rows[d]
               \/ \E n \in DOMAIN job[j].todo : job[j].todo[n].day = d
    <3>1. CASE d = D(j)
      BY <1>2, <3>1 DEF D
    <3>2. CASE d # D(j)
      BY <1>0, <1>7, <1>9, <3>2 DEF Mirrors, Carries, Writing, T
    <3> QED
      BY <3>1, <3>2
  <2> QED
    BY <1>4, <1>5, <2>1 DEF Carries, T, D
<1>13. ASSUME NEW t, NEW d, Pending(job[j], t, d) PROVE Pending(r, t, d)
  BY <1>0, <1>4, <1>13 DEF Pending, Writing
<1> QED
  BY <1>4, <1>10, <1>11, <1>12, <1>13 DEF Mirrors

LEMMA PutMirrors ==
  ASSUME ShapeInv, NEW j \in Jobs, Put(j), Mirrors(job[j], s3, ch)
  PROVE  Mirrors(AfterPut(j), s3', ch')
<1>0. /\ TypeInv /\ JobOK(job[j]) /\ job[j].cmd # "idle" /\ job[j].step = "put"
      /\ RowsOK(job[j]) /\ DaysOK(job[j])
  BY DEF ShapeInv, TypeInv, Put, At
<1>1. T(j) \in Tables /\ ch' = ch /\ D(j) \in DOMAIN job[j].rows /\ WalletTables \subseteq Tables
  BY <1>0 DEF JobOK, Writing, T, D, Put, Mirrors, Carries, Tables
<1>2. 1 \in DOMAIN job[j].todo /\ Head(job[j].todo) = job[j].todo[1]
  BY <1>0, HeadDay
<1> DEFINE x == Over(Only(D(j), job[j].rows[D(j)]), s3[T(j)])
<1>3. s3' = [s3 EXCEPT ![T(j)] = x] /\ s3 = [t \in Tables |-> s3[t]]
  BY <1>0 DEF Put, TypeInv
<1>4. DOMAIN Only(D(j), job[j].rows[D(j)]) = {D(j)}
      /\ Only(D(j), job[j].rows[D(j)])[D(j)] = job[j].rows[D(j)]
  BY OnlyRows
<1>5. DOMAIN x = {D(j)} \cup DOMAIN s3[T(j)]
  BY <1>4, OverDomain
<1>6. x[D(j)] = job[j].rows[D(j)] /\ \A d \in DOMAIN s3[T(j)] : d # D(j) => x[d] = s3[T(j)][d]
  BY <1>4 DEF Over
<1> HIDE DEF x
<1>7. s3'[T(j)] = x /\ \A t \in Tables : t # T(j) => s3'[t] = s3[t]
  BY <1>1, <1>3
<1>8. ASSUME NEW d \in DOMAIN job[j].rows
      PROVE  \/ d \in DOMAIN s3'[T(j)] /\ s3'[T(j)][d] = job[j].rows[d]
             \/ Is(j, OnDemandCmds) /\ \E n \in DOMAIN job[j].todo : n # 1 /\ job[j].todo[n].day = d
  <2>1. CASE d = D(j)
    BY <1>5, <1>6, <1>7, <2>1
  <2>2. CASE d # D(j)
    <3>1. Is(j, OnDemandCmds)
      BY <1>0, <2>2 DEF RowsOK, Writing, Is, D
    <3>2. \/ d \in DOMAIN s3[T(j)] /\ s3[T(j)][d] = job[j].rows[d]
          \/ \E n \in DOMAIN job[j].todo : job[j].todo[n].day = d
      BY <1>0 DEF Mirrors, Carries, Writing, T
    <3>3. \A n \in DOMAIN job[j].todo : job[j].todo[n].day = d => n # 1
      BY <1>2, <2>2 DEF D
    <3> QED
      BY <1>5, <1>6, <1>7, <2>2, <3>1, <3>2, <3>3
  <2> QED
    BY <2>1, <2>2
<1>9. ASSUME NEW t \in WalletTables, NEW d \in Days
      PROVE  Shows(s3', ch', t, d) \/ Pending(job[j], t, d)
  <2>1. CASE t = T(j) /\ d = D(j)
    BY <1>0, <1>1, <2>1 DEF Pending, Writing, T
  <2>2. CASE t = T(j) /\ d # D(j)
    <3>1. Shows(s3, ch, t, d) => Shows(s3', ch', t, d)
      BY <1>1, <1>5, <1>6, <1>7, <2>2 DEF Shows
    <3> QED
      BY <3>1 DEF Mirrors
  <2>3. CASE t # T(j)
    <3>1. Shows(s3, ch, t, d) => Shows(s3', ch', t, d)
      BY <1>1, <1>7, <2>3 DEF Shows
    <3> QED
      BY <3>1 DEF Mirrors
  <2> QED
    BY <2>1, <2>2, <2>3
<1> QED
  BY <1>0, <1>8, <1>9, AfterPutMirrors DEF Mirrors

LEMMA PassOverMirrors ==
  ASSUME ShapeInv, NEW j \in Jobs, PassOver(j), Mirrors(job[j], s3, ch)
  PROVE  Mirrors(AfterPut(j), s3', ch')
<1>0. /\ TypeInv /\ JobOK(job[j]) /\ job[j].cmd # "idle" /\ job[j].step = "delete"
      /\ RowsOK(job[j]) /\ DaysOK(job[j]) /\ D(j) \notin DOMAIN job[j].rows
      /\ s3' = s3 /\ ch' = ch
  BY DEF ShapeInv, TypeInv, PassOver, At
<1>1. Is(j, OnDemandCmds)
  BY <1>0 DEF RowsOK, Writing, Is, D
<1>2. 1 \in DOMAIN job[j].todo /\ Head(job[j].todo) = job[j].todo[1]
  BY <1>0, HeadDay
<1>3. ASSUME NEW d \in DOMAIN job[j].rows
      PROVE  \/ d \in DOMAIN s3[T(j)] /\ s3[T(j)][d] = job[j].rows[d]
             \/ Is(j, OnDemandCmds) /\ \E n \in DOMAIN job[j].todo : n # 1 /\ job[j].todo[n].day = d
  <2>1. \/ d \in DOMAIN s3[T(j)] /\ s3[T(j)][d] = job[j].rows[d]
        \/ \E n \in DOMAIN job[j].todo : job[j].todo[n].day = d
    BY <1>0 DEF Mirrors, Carries, Writing, T
  <2>2. \A n \in DOMAIN job[j].todo : job[j].todo[n].day = d => n # 1
    BY <1>0, <1>2 DEF D
  <2> QED
    BY <1>1, <2>1, <2>2
<1>4. \A t \in WalletTables : \A d \in Days : Shows(s3, ch, t, d) \/ Pending(job[j], t, d)
  BY DEF Mirrors
<1>5. Mirrors(AfterPut(j), s3, ch)
  BY <1>0, <1>3, <1>4, AfterPutMirrors DEF Mirrors
<1> QED
  BY <1>0, <1>5

LEMMA InsertMirrors ==
  ASSUME ShapeInv, NEW j \in Jobs, Insert(j), Mirrors(job[j], s3, ch)
  PROVE  Mirrors(NextTask(j), s3', ch')
<1>0. /\ TypeInv /\ TypeOK /\ JobOK(job[j]) /\ job[j].cmd # "idle" /\ job[j].step = "insert"
      /\ DaysOK(job[j]) /\ job[j].cmd # "s3only" /\ s3' = s3
  BY DEF ShapeInv, TypeInv, Insert, At, Mirrors
<1>1. T(j) \in Tables /\ WalletTables \subseteq Tables
  BY <1>0 DEF JobOK, Writing, T, Tables
<1>2. NextTask(j).step = "next" /\ NextTask(j).cmd # "s3only"
  BY <1>0, NextTaskShape
<1> DEFINE x == [d \in Days |-> IF d \in DOMAIN job[j].rows
                                THEN Replacing(ch[T(j)][d], job[j].rows[d]) ELSE ch[T(j)][d]]
<1>3. ch' = [ch EXCEPT ![T(j)] = x] /\ ch = [t \in Tables |-> ch[t]]
  BY <1>0 DEF Insert, TypeInv
<1>4. \A d \in Days : d \in DOMAIN job[j].rows => x[d] = Over(job[j].rows[d], ch[T(j)][d])
  BY DEF Replacing
<1>5. \A d \in Days : d \notin DOMAIN job[j].rows => x[d] = ch[T(j)][d]
  OBVIOUS
<1> HIDE DEF x
<1>6. ch'[T(j)] = x /\ \A t \in Tables : t # T(j) => ch'[t] = ch[t]
  BY <1>1, <1>3
<1>7. ASSUME NEW new, NEW old, NEW k \in DOMAIN new
      PROVE  k \in DOMAIN Over(new, old) /\ Over(new, old)[k] = new[k]
  BY DEF Over
<1>8. ASSUME NEW t \in WalletTables, NEW d \in Days PROVE Shows(s3', ch', t, d)
  <2>1. CASE t = T(j) /\ d \in DOMAIN job[j].rows
    <3>1. s3[t][d] = job[j].rows[d]
      BY <1>0, <2>1 DEF Mirrors, Carries, Writing, T
    <3>2. ch'[t][d] = Over(job[j].rows[d], ch[T(j)][d])
      BY <1>4, <1>6, <2>1
    <3>3. \A k \in DOMAIN s3[t][d] : k \in DOMAIN ch'[t][d] /\ ch'[t][d][k] = s3[t][d][k]
      BY <1>7, <3>1, <3>2
    <3> QED
      BY <1>0, <3>3 DEF Shows
  <2>2. CASE t = T(j) /\ d \notin DOMAIN job[j].rows
    <3>1. Shows(s3, ch, t, d)
      BY <2>2 DEF Mirrors, Pending, T
    <3>2. ch'[t][d] = ch[t][d]
      BY <1>5, <1>6, <2>2
    <3> QED
      BY <1>0, <3>1, <3>2 DEF Shows
  <2>3. CASE t # T(j)
    <3>1. Shows(s3, ch, t, d)
      BY <2>3 DEF Mirrors, Pending, T
    <3>2. ch'[t] = ch[t]
      BY <1>1, <1>6, <2>3
    <3> QED
      BY <1>0, <3>1, <3>2 DEF Shows
  <2> QED
    BY <2>1, <2>2, <2>3
<1>9. AllShow(s3', ch') /\ NextTask(j).step \notin Writing
  BY <1>2, <1>8 DEF AllShow, Writing
<1> QED
  BY <1>2, <1>9, RestingMirrors

LEMMA StepMirrors ==
  ASSUME ShapeInv, NEW j \in Jobs, Step(j), Mirrors(job[j], s3, ch), Quiet',
         NEW r, JobOK(r), job' = [job EXCEPT ![j] = r]
  PROVE  Mirrors(r, s3', ch')
<1>0. /\ TypeInv /\ JobOK(job[j]) /\ job[j].cmd # "idle" /\ job[j].cmd # "s3only"
      /\ RowsOK(job[j]) /\ DaysOK(job[j])
  BY StepRecord DEF ShapeInv, TypeInv, Mirrors
<1>1. ASSUME NEW x, job' = [job EXCEPT ![j] = x] PROVE r = x
  BY <1>0, <1>1, JobUpdate DEF TypeInv
<1>2. job[j].todo # <<>> /\ 1 \in DOMAIN job[j].todo /\ Head(job[j].todo) = job[j].todo[1]
  BY <1>0, HeadDay DEF JobOK
<1>3. NextTask(j).step \notin Writing /\ NextTask(j).cmd # "s3only"
  BY <1>0, NextTaskShape DEF Writing
<1>4. CASE Delete(j)
  BY <1>4, DeleteMirrors
<1>5. CASE Put(j) \/ PassOver(j)
  <2>1. r = AfterPut(j)
    BY <1>1, <1>5 DEF Put, PassOver, Become
  <2> QED
    BY <1>5, <2>1, PutMirrors, PassOverMirrors
<1>6. CASE Insert(j)
  <2>1. r = NextTask(j)
    BY <1>1, <1>6 DEF Insert, Become
  <2> QED
    BY <1>6, <2>1, InsertMirrors
<1>7. CASE SkipExisting(j) \/ NoWatchlist(j) \/ LoadLedger(j)
  <2>1. r = NextTask(j) /\ job[j].step = "next" /\ s3' = s3 /\ ch' = ch
    BY <1>1, <1>7 DEF SkipExisting, NoWatchlist, LoadLedger, Become, At
  <2>2. AllShow(s3, ch)
    BY <2>1, RestingShows DEF Writing
  <2> QED
    BY <1>3, <2>1, <2>2, RestingMirrors
<1>8. ASSUME NEW x, NEW own, Computed(j, x, own) PROVE Mirrors(r, s3', ch')
  <2>1. PICK own2 : job' = [job EXCEPT ![j] = With(j, "delete", job[j].todo, Only(D(j), x), own2)]
    BY <1>8 DEF Computed, Become
  <2>a. r = With(j, "delete", job[j].todo, Only(D(j), x), own2)
    BY <1>1, <2>1
  <2>2. r = Doing(job[j].cmd, "delete", job[j].todo, job[j].wallet, Only(D(j), x), own2)
    BY <1>2, <2>a, SameTasks
  <2>3. r.cmd = job[j].cmd /\ r.todo = job[j].todo /\ r.step = "delete" /\ DOMAIN r.rows = {D(j)}
    BY <2>2, OnlyRows DEF Doing
  <2>4. job[j].step = "next" /\ s3' = s3 /\ ch' = ch
    BY <1>8 DEF Computed, At
  <2>5. AllShow(s3, ch)
    BY <2>4, RestingShows DEF Writing
  <2>6. \A d \in DOMAIN r.rows : \E n \in DOMAIN r.todo : r.todo[n].day = d
    BY <1>2, <2>3 DEF D
  <2> QED
    BY <1>0, <2>3, <2>4, <2>5, <2>6, CarryingMirrors
<1>9. CASE \/ ComputeMarketMarks(j) \/ ComputeWalletPnl(j)
           \/ ComputeWalletMtm(j) \/ ComputeWalletPositionSnapshot(j)
  BY <1>8, <1>9 DEF ComputeMarketMarks, ComputeWalletPnl, ComputeWalletMtm,
                    ComputeWalletPositionSnapshot
<1>10. CASE Plan(j)
  <2>1. PICK rows, own :
          /\ job' = [job EXCEPT ![j] = With(j, "delete", job[j].todo, rows, own)]
          /\ \A d \in DOMAIN rows : \E n \in DOMAIN job[j].todo : job[j].todo[n].day = d
    <3> DEFINE asked == {job[j].todo[n].day : n \in DOMAIN job[j].todo}
               missing == {d \in asked : ~Exists(Snapshots, d)}
               rows == [d \in {e \in missing : Replay(job[j].wallet, e, missing) # NoRows} |->
                          Replay(job[j].wallet, d, missing)]
               own == {d \in missing : d <= processed /\ \A e \in 1..d : copies[e] > 0}
    <3>1. job' = [job EXCEPT ![j] = With(j, "delete", job[j].todo, rows, own)]
      BY <1>10 DEF Plan, Become
    <3>2. \A d \in DOMAIN rows : \E n \in DOMAIN job[j].todo : job[j].todo[n].day = d
      OBVIOUS
    <3> HIDE DEF rows, own
    <3> QED
      BY <3>1, <3>2
  <2>a. r = With(j, "delete", job[j].todo, rows, own)
    BY <1>1, <2>1
  <2>2. r = Doing(job[j].cmd, "delete", job[j].todo, job[j].wallet, rows, own)
    BY <1>2, <2>a, SameTasks
  <2>3. r.cmd = job[j].cmd /\ r.todo = job[j].todo /\ r.step = "delete" /\ r.rows = rows
    BY <2>2 DEF Doing
  <2>4. job[j].step = "plan" /\ s3' = s3 /\ ch' = ch
    BY <1>10 DEF Plan, At
  <2>5. AllShow(s3, ch)
    BY <2>4, RestingShows DEF Writing
  <2> QED
    BY <1>0, <2>1, <2>3, <2>4, <2>5, CarryingMirrors
<1>11. CASE LoadRead(j)
  <2>1. job[j].step = "next" /\ s3' = s3 /\ ch' = ch
    BY <1>11 DEF LoadRead, At
  <2>2. AllShow(s3, ch)
    BY <2>1, RestingShows DEF Writing
  <2>3. CASE job' = [job EXCEPT ![j] = NextTask(j)]
    BY <1>1, <1>3, <2>1, <2>2, <2>3, RestingMirrors
  <2>4. CASE /\ HasRows(T(j), D(j))
             /\ job' = [job EXCEPT ![j] =
                          With(j, "insert", job[j].todo, Only(D(j), s3[T(j)][D(j)]), {})]
    <3>1. PICK x : x = s3[T(j)][D(j)]
      OBVIOUS
    <3>2. r = Doing(job[j].cmd, "insert", job[j].todo, job[j].wallet, Only(D(j), x), {})
      <4>1. r = With(j, "insert", job[j].todo, Only(D(j), x), {})
        BY <1>1, <2>4, <3>1
      <4> QED
        BY <1>2, <4>1, SameTasks
    <3>3. /\ r.cmd = job[j].cmd /\ r.todo = job[j].todo /\ r.step = "insert"
          /\ r.rows = Only(D(j), x)
      BY <3>2 DEF Doing
    <3>4. DOMAIN r.rows = {D(j)} /\ r.rows[D(j)] = x
      <4>1. DOMAIN Only(D(j), x) = {D(j)} /\ Only(D(j), x)[D(j)] = x
        BY OnlyRows
      <4> QED
        BY <3>3, <4>1
    <3>5. D(j) \in DOMAIN s3[T(j)] /\ T(j) = Head(r.todo).table
      BY <2>4, <3>3 DEF HasRows, T
    <3>6. Mirrors(r, s3, ch)
      BY <1>0, <2>2, <3>1, <3>3, <3>4, <3>5, CarryingMirrors
    <3> QED
      BY <2>1, <3>6
  <2> QED
    BY <1>11, <2>3, <2>4 DEF LoadRead, Become
<1>12. CASE Fail(j)
  BY <1>12 DEF Fail, Disturb, Quiet, Without
<1> QED
  BY <1>4, <1>5, <1>6, <1>7, <1>9, <1>10, <1>11, <1>12 DEF Step

LEMMA IdleCarries ==
  ASSUME NEW r, JobOK(r), r.cmd = "idle", NEW parts
  PROVE  Carries(r, parts) /\ \A t, d : ~Pending(r, t, d)
  BY DEF JobOK, Carries, Pending

LEMMA MirrorStep ==
  ASSUME ShapeInv, MirrorInv, [Next]_vars
  PROVE  MirrorInv'
<1>0. TypeOK /\ TypeInv /\ events \subseteq events' /\ \A j \in Jobs : JobOK(job[j])
  BY EventsGrow DEF ShapeInv, TypeInv
<1>1. Quiet' => Quiet
  BY <1>0 DEF Quiet, Without
<1>2. CASE Inputs \/ UNCHANGED vars
  <2>1. job' = job /\ s3' = s3 /\ ch' = ch
    BY <1>2 DEF Inputs, NextDay, Arrive, ProcessTrades, Merge, ExpireLedger, AddWallet, RemoveWallet, vars
  <2> QED
    BY <1>1, <2>1 DEF MirrorInv, Carries, Shows, Pending
<1>3. ASSUME NEW j \in Jobs, NEW r, job' = [job EXCEPT ![j] = r], JobOK(r), Quiet',
             Mirrors(r, s3', ch'), \A i \in Jobs : i # j => job[i].cmd = "idle"
      PROVE  MirrorInv'
  <2>1. job'[j] = r /\ (\A i \in Jobs \ {j} : job'[i] = job[i])
    BY <1>0, <1>3, JobUpdate
  <2>2. \A i \in Jobs : job'[i].cmd # "s3only" /\ Carries(job'[i], s3')
    <3>1. ASSUME NEW i \in Jobs, i # j PROVE job'[i].cmd # "s3only" /\ Carries(job'[i], s3')
      BY <1>0, <1>3, <2>1, <3>1, IdleCarries
    <3> QED
      BY <1>3, <2>1, <3>1 DEF Mirrors
  <2>3. \A t \in WalletTables : \A d \in Days :
          Shows(s3', ch', t, d) \/ \E i \in Jobs : Pending(job'[i], t, d)
    BY <1>3, <2>1 DEF Mirrors
  <2> QED
    BY <2>2, <2>3 DEF MirrorInv, Carries, Shows, Pending
<1>4. ASSUME NEW j \in Jobs, Begin(j) PROVE MirrorInv'
  <2>1. PICK cmd, todo, wallet : Started(j, cmd, todo, wallet)
    BY <1>0, <1>4, BeginStarts
  <2> DEFINE r == Doing(cmd, IF cmd \in OnDemandCmds THEN "plan" ELSE "next", todo, wallet,
                        NoRows, {})
  <2>2. JobOK(r) /\ job' = [job EXCEPT ![j] = r]
    BY <2>1, StartRecord
  <2>3. r.step \notin Writing /\ r.cmd = cmd
    BY DEF Doing, Writing
  <2> HIDE DEF r
  <2>4. s3' = s3 /\ ch' = ch /\ job[j].cmd = "idle"
    BY <2>1 DEF Started, Start
  <2>5. CASE Quiet'
    <3>1. \A i \in Jobs : job[i].cmd = "idle"
      BY <2>1, <2>5 DEF Started, Start, Disturb, Quiet, Without
    <3>2. cmd # "s3only"
      BY <2>1, <2>5, <3>1 DEF Started, Start, Disturb, Quiet, Without
    <3>3. AllShow(s3, ch)
      BY <1>0, <1>1, <2>5, <3>1, IdleCarries DEF MirrorInv, AllShow
    <3>4. Mirrors(r, s3', ch')
      BY <2>3, <2>4, <3>2, <3>3, RestingMirrors
    <3> QED
      BY <1>3, <2>2, <2>5, <3>1, <3>4
  <2>6. CASE ~Quiet'
    BY <2>6 DEF MirrorInv
  <2> QED
    BY <2>5, <2>6
<1>5. ASSUME NEW j \in Jobs, Step(j) PROVE MirrorInv'
  <2>1. CASE Quiet'
    <3>1. PICK r : JobOK(r) /\ job' = [job EXCEPT ![j] = r]
      BY <1>0, <1>5, StepRecord
    <3>2. job[j].cmd # "idle"
      BY <1>0, <1>5, StepRecord
    <3>3. \A i \in Jobs : i # j => job[i].cmd = "idle"
      BY <1>1, <2>1, <3>2 DEF ShapeInv, SingleJob, Quiet, Without
    <3>4. Mirrors(job[j], s3, ch)
      <4>1. ASSUME NEW t \in WalletTables, NEW d \in Days, ~Shows(s3, ch, t, d)
            PROVE  Pending(job[j], t, d)
        <5>1. PICK i \in Jobs : Pending(job[i], t, d)
          BY <1>1, <2>1, <4>1 DEF MirrorInv
        <5>2. i = j
          BY <3>3, <5>1 DEF Pending
        <5> QED
          BY <5>1, <5>2
      <4> QED
        BY <1>1, <2>1, <4>1 DEF MirrorInv, Mirrors
    <3>5. Mirrors(r, s3', ch')
      BY <1>5, <2>1, <3>1, <3>4, StepMirrors
    <3> QED
      BY <1>3, <2>1, <3>1, <3>3, <3>5
  <2>2. CASE ~Quiet'
    BY <2>2 DEF MirrorInv
  <2> QED
    BY <2>1, <2>2
<1> QED
  BY <1>2, <1>4, <1>5 DEF Next

(* While the commands run one at a time and end without a failure, every   *)
(* row of a wallet's partitions is in ClickHouse when none is running.     *)
THEOREM ClickHouseMirrors == Spec => []MirrorAgrees
<1>1. Init => MirrorInv
  <2> SUFFICES ASSUME Init PROVE MirrorInv
    OBVIOUS
  <2>1. \A j \in Jobs : job[j] = IdleJob
    BY DEF Init
  <2>2. \A j \in Jobs : job[j].cmd # "s3only" /\ Carries(job[j], s3)
    BY <2>1, IdleJobOK, IdleCarries
  <2>3. \A t \in WalletTables : s3[t] = NoRows
    BY DEF Init, Tables
  <2>4. DOMAIN NoRows = {}
    BY DEF NoRows
  <2> QED
    BY <2>2, <2>3, <2>4 DEF MirrorInv, Shows
<1>2. ShapeInv /\ MirrorInv /\ [Next]_vars => MirrorInv'
  BY MirrorStep
<1>3. ShapeInv /\ MirrorInv => MirrorAgrees
  <2> SUFFICES ASSUME ShapeInv, MirrorInv, Idle, Quiet,
                      NEW t \in WalletTables, NEW d \in DOMAIN s3[t], NEW k \in DOMAIN s3[t][d]
               PROVE  k \in DOMAIN ch[t][d] /\ ch[t][d][k] = s3[t][d][k]
    BY DEF MirrorAgrees, Quiet
  <2>1. d \in Days
    BY DEF ShapeInv, TypeInv, TypeOK, Tables
  <2>2. \A j \in Jobs : ~Pending(job[j], t, d)
    BY DEF Idle, Pending
  <2> QED
    BY <2>1, <2>2 DEF MirrorInv, Shows
<1> QED
  BY ShapeHolds, <1>1, <1>2, <1>3, PTL DEF Spec

(* ----------------------- rows of their own day ------------------------- *)

(* What a set of fills adds up to, and the fills of one position up to a   *)
(* day.                                                                    *)
Amount(fills) == MapThenSumSet(LAMBDA f : f.delta, fills)

FilledTill(fills, w, o, d) == {f \in fills : f.wallet = w /\ f.outcome = o /\ f.day <= d}

OutcomesIn(fills, w) == {f.outcome : f \in {g \in fills : g.wallet = w}}

OpenIn(fills, w, d) == {o \in OutcomesIn(fills, w) : Amount(FilledTill(fills, w, o, d)) # 0}

DayFills(fills, w, d) == {f \in fills : f.day = d /\ f.wallet = w}

(* Rows of a day that agree with the fills that are settled, of a day that *)
(* no fill will be settled of any more.  A row of a position is of the day *)
(* computed or of an earlier one.                                          *)
ValueRight(w, r, d, fills) ==
  /\ r.day \in Days /\ r.day <= d
  /\ r.outcome \in OpenIn(fills, w, r.day)
  /\ r.qty = Amount(FilledTill(fills, w, r.outcome, r.day))

RightValuation(d, rows, fills) ==
  \A w \in DOMAIN rows :
    /\ \A o \in OpenIn(fills, w, d) :
         \E r \in rows[w] : r.outcome = o /\ r.qty = Amount(FilledTill(fills, w, o, d))
    /\ \A r \in rows[w] : ValueRight(w, r, d, fills)

RightPnl(d, rows, fills) ==
  /\ DOMAIN rows = {f.wallet : f \in fills \cap FillsOf(d)}
  /\ \A w \in DOMAIN rows : rows[w] = Cardinality(DayFills(fills, w, d))

RightSnapshot(d, rows, fills) ==
  \A k \in DOMAIN rows : \A r \in rows[k] : r.outcome = k[2] /\ ValueRight(k[1], r, d, fills)

RightRows(t, d, rows, fills, done, gap) ==
  /\ d \in Days
  /\ t # "market_mark_daily" => d <= done
  /\ t = "market_mark_daily" => DOMAIN rows = {f.outcome : f \in FillsOf(d)}
  /\ t = "wallet_pnl_daily" => RightPnl(d, rows, fills)
  /\ t = "wallet_mtm_daily" => RightValuation(d, rows, fills)
  /\ t = Snapshots => gap \/ RightSnapshot(d, rows, fills)

(* Nothing is settled, or in ClickHouse, of a day that was not processed.  *)
SourceInv ==
  /\ \A f \in settled : f.day <= processed
  /\ \A d \in Days : copies[d] > 0 => d <= processed

(* A process is about to write such rows of the days it calls timely.      *)
JobRight(r, fills, done, gap) ==
  r.cmd # "idle" /\ r.step \in {"delete", "put"} =>
    /\ r.step = "put" => Head(r.todo).day \in DOMAIN r.rows
    /\ \A d \in r.timely \cap DOMAIN r.rows :
         RightRows(Head(r.todo).table, d, r.rows[d], fills, done, gap)

PartsRight(times, parts, fills, done, gap) ==
  \A p \in times : p[2] \in DOMAIN parts[p[1]] =>
    RightRows(p[1], p[2], parts[p[1]][p[2]], fills, done, gap)

RightInv ==
  /\ SourceInv
  /\ PartsRight(timely, s3, settled, processed, "gap" \in events)
  /\ \A j \in Jobs : JobRight(job[j], settled, processed, "gap" \in events)

LEMMA QtyIs ==
  ASSUME NEW w, NEW o, NEW d
  PROVE  QtyAt(w, o, d) = Amount(FilledTill(settled, w, o, d))
  BY DEF QtyAt, Amount, FilledTill

LEMMA OpenIs ==
  ASSUME NEW w, NEW d
  PROVE  OpenAt(w, d) = OpenIn(settled, w, d) /\ OutcomesOf(w) = OutcomesIn(settled, w)
<1>1. OutcomesOf(w) = OutcomesIn(settled, w)
  BY DEF OutcomesOf, OutcomesIn
<1> QED
  BY <1>1, QtyIs DEF OpenAt, OpenIn

(* Nothing adds up to zero.                                                *)
LEMMA NoAmount == Amount({}) = 0
<1> DEFINE P(i) == i = [s \in SUBSET {} |-> IF s = {} THEN 0
                          ELSE (CHOOSE x \in s : TRUE).delta + i[s \ {CHOOSE x \in s : TRUE}]]
<1>1. Amount({}) = (CHOOSE i : P(i))[{}]
  BY DEF Amount, MapThenSumSet, MapThenFoldSet
<1>2. PICK h : h = [s \in SUBSET {} |-> 0]
  OBVIOUS
<1>3. P(h)
  BY <1>2
<1> HIDE DEF P
<1>4. P(CHOOSE i : P(i))
  BY <1>3
<1>5. (CHOOSE i : P(i))[{}] = 0
  BY <1>4 DEF P
<1> QED
  BY <1>1, <1>5

LEMMA NotOpen ==
  ASSUME NEW fills, NEW w, NEW o, NEW d, o \notin OutcomesIn(fills, w)
  PROVE  Amount(FilledTill(fills, w, o, d)) = 0
<1>1. FilledTill(fills, w, o, d) = {}
  BY DEF FilledTill, OutcomesIn
<1> QED
  BY <1>1, NoAmount

(* What is settled later is of later days.                                 *)
SettledAfter(fills, more, d) ==
  fills \subseteq more /\ more \subseteq Fills /\ \A f \in more \ fills : f.day > d

LEMMA LaterFills ==
  ASSUME NEW fills, NEW more, NEW d \in Days, SettledAfter(fills, more, d)
  PROVE  /\ \A w, o : FilledTill(more, w, o, d) = FilledTill(fills, w, o, d)
         /\ \A w : OpenIn(more, w, d) = OpenIn(fills, w, d)
         /\ more \cap FillsOf(d) = fills \cap FillsOf(d)
         /\ \A w : DayFills(more, w, d) = DayFills(fills, w, d)
<1>0. \A f \in more \ fills : ~(f.day <= d) /\ f.day # d
  BY GoldDailyAssumption DEF Days, SettledAfter
<1>1. ASSUME NEW w, NEW o PROVE FilledTill(more, w, o, d) = FilledTill(fills, w, o, d)
  BY <1>0 DEF FilledTill, SettledAfter
<1>2. ASSUME NEW w PROVE OpenIn(more, w, d) = OpenIn(fills, w, d)
  <2>1. OutcomesIn(fills, w) \subseteq OutcomesIn(more, w)
    BY DEF OutcomesIn, SettledAfter
  <2>2. \A o : Amount(FilledTill(more, w, o, d)) = Amount(FilledTill(fills, w, o, d))
    <3>1. ASSUME NEW o PROVE Amount(FilledTill(more, w, o, d)) = Amount(FilledTill(fills, w, o, d))
      <4>1. FilledTill(more, w, o, d) = FilledTill(fills, w, o, d)
        BY <1>1
      <4> QED
        BY <4>1, Zenon
    <3> QED
      BY <3>1
  <2> QED
    BY <2>1, <2>2, NotOpen DEF OpenIn
<1>3. more \cap FillsOf(d) = fills \cap FillsOf(d)
  BY <1>0 DEF FillsOf, SettledAfter
<1>4. ASSUME NEW w
      PROVE  DayFills(more, w, d) = DayFills(fills, w, d)
  BY <1>0 DEF DayFills, SettledAfter
<1> QED
  BY <1>1, <1>2, <1>3, <1>4

LEMMA ValueStays ==
  ASSUME NEW fills, NEW more, NEW d \in Days, SettledAfter(fills, more, d),
         NEW w, NEW r, ValueRight(w, r, d, fills)
  PROVE  ValueRight(w, r, d, more)
<1>1. PICK e : e = r.day
  OBVIOUS
<1>2. e \in Days /\ e <= d
  BY <1>1 DEF ValueRight
<1>3. SettledAfter(fills, more, e)
  BY <1>2, GoldDailyAssumption DEF Days, SettledAfter
<1>4. /\ FilledTill(more, w, r.outcome, e) = FilledTill(fills, w, r.outcome, e)
      /\ OpenIn(more, w, e) = OpenIn(fills, w, e)
  BY <1>2, <1>3, LaterFills
<1>5. Amount(FilledTill(more, w, r.outcome, e)) = Amount(FilledTill(fills, w, r.outcome, e))
  BY <1>4, Zenon
<1> QED
  BY <1>1, <1>4, <1>5 DEF ValueRight

LEMMA StaysRight ==
  ASSUME NEW fills, NEW more, NEW d \in Days,
         NEW done \in Int, NEW later \in Int, done <= later, SettledAfter(fills, more, done),
         NEW gap \in BOOLEAN, NEW found \in BOOLEAN, gap => found,
         NEW t, NEW rows, RightRows(t, d, rows, fills, done, gap)
  PROVE  RightRows(t, d, rows, more, later, found)
<1>1. CASE t = "market_mark_daily"
  BY <1>1 DEF RightRows, Snapshots
<1>2. CASE t # "market_mark_daily"
  <2>1. d <= done /\ d <= later /\ SettledAfter(fills, more, d)
    BY <1>2, GoldDailyAssumption DEF RightRows, Days, SettledAfter
  <2>0. /\ \A w, o : FilledTill(more, w, o, d) = FilledTill(fills, w, o, d)
        /\ \A w : OpenIn(more, w, d) = OpenIn(fills, w, d)
        /\ more \cap FillsOf(d) = fills \cap FillsOf(d)
        /\ \A w : DayFills(more, w, d) = DayFills(fills, w, d)
    BY <2>1, LaterFills
  <2>2. \A w, o : Amount(FilledTill(more, w, o, d)) = Amount(FilledTill(fills, w, o, d))
    <3>1. ASSUME NEW w, NEW o
          PROVE  Amount(FilledTill(more, w, o, d)) = Amount(FilledTill(fills, w, o, d))
      <4>1. FilledTill(more, w, o, d) = FilledTill(fills, w, o, d)
        BY <2>0
      <4> QED
        BY <4>1, Zenon
    <3> QED
      BY <3>1
  <2>3. \A w : OpenIn(more, w, d) = OpenIn(fills, w, d)
    BY <2>0
  <2>4. t = "wallet_pnl_daily" => RightPnl(d, rows, more)
    <3>1. \A w : DayFills(more, w, d) = DayFills(fills, w, d)
      BY <2>0
    <3>2. more \cap FillsOf(d) = fills \cap FillsOf(d)
      BY <2>0
    <3>3. \A w : Cardinality(DayFills(more, w, d)) =
                 Cardinality(DayFills(fills, w, d))
      BY <3>1, Zenon
    <3>4. {f.wallet : f \in more \cap FillsOf(d)} = {f.wallet : f \in fills \cap FillsOf(d)}
      BY <3>2, Zenon
    <3> QED
      BY <3>3, <3>4 DEF RightRows, RightPnl
  <2>5. t = "wallet_mtm_daily" => RightValuation(d, rows, more)
    <3>1. \A w, r : ValueRight(w, r, d, fills) => ValueRight(w, r, d, more)
      BY <2>1, ValueStays
    <3> QED
      BY <2>2, <2>3, <3>1 DEF RightRows, RightValuation
  <2>6. t = Snapshots => found \/ RightSnapshot(d, rows, more)
    <3>1. \A w, r : ValueRight(w, r, d, fills) => ValueRight(w, r, d, more)
      BY <2>1, ValueStays
    <3> QED
      BY <3>1 DEF RightRows, RightSnapshot
  <2> QED
    BY <1>2, <2>1, <2>4, <2>5, <2>6 DEF RightRows
<1> QED
  BY <1>1, <1>2

(* What is computed of a day that is complete.                             *)
LEMMA MarksRight ==
  ASSUME NEW d \in Days, FillsOf(d) \subseteq arrived, NEW gap
  PROVE  RightRows("market_mark_daily", d, Marks(d), settled, processed, gap)
<1>1. arrived \cap FillsOf(d) = FillsOf(d)
  OBVIOUS
<1>2. DOMAIN Marks(d) = {f.outcome : f \in arrived \cap FillsOf(d)}
  BY DEF Marks
<1>3. DOMAIN Marks(d) = {f.outcome : f \in FillsOf(d)}
  BY <1>1, <1>2, Zenon
<1> QED
  BY <1>3 DEF RightRows, Snapshots

LEMMA PnlRight ==
  ASSUME TypeOK, SourceInv, NEW d \in Days, copies[d] = 1, NEW gap
  PROVE  RightRows("wallet_pnl_daily", d, Pnl(d), settled, processed, gap)
<1>1. DOMAIN Pnl(d) = {f.wallet : f \in settled \cap FillsOf(d)}
  <2>1. DOMAIN Pnl(d) = {v \in Wallets : LedgerOf(v, d) # {}}
    BY DEF Pnl
  <2>2. \A v : LedgerOf(v, d) # {} <=> \E f \in settled \cap FillsOf(d) : f.wallet = v
    BY DEF LedgerOf, FillsOf, TypeOK
  <2>3. \A f \in settled : f.wallet \in Wallets
    BY GoldDailyAssumption DEF TypeOK
  <2> QED
    BY <2>1, <2>2, <2>3
<1>2. ASSUME NEW w \in DOMAIN Pnl(d) PROVE Pnl(d)[w] = Cardinality(DayFills(settled, w, d))
  <2>1. PICK n : n = Cardinality(LedgerOf(w, d))
    OBVIOUS
  <2>2. Pnl(d)[w] = copies[d] * n
    BY <1>2, <2>1 DEF Pnl
  <2>3. LedgerOf(w, d) \subseteq Fills
    BY DEF LedgerOf, TypeOK
  <2>4. n \in Nat
    BY <2>1, <2>3, FS_Subset, FS_CardinalityType, GoldDailyAssumption
  <2>5. LedgerOf(w, d) = DayFills(settled, w, d)
    BY DEF LedgerOf, DayFills
  <2>6. n = Cardinality(DayFills(settled, w, d))
    BY <2>1, <2>5, Zenon
  <2> QED
    BY <2>2, <2>4, <2>6
<1>3. d <= processed
  BY DEF SourceInv
<1> QED
  BY <1>1, <1>2, <1>3 DEF RightRows, RightPnl, Snapshots

LEMMA LastOfDays ==
  ASSUME NEW S \in SUBSET Days, S # {}
  PROVE  Max(S) \in S /\ \A e \in S : e <= Max(S)
<1>0. LastDay \in Nat /\ \A e \in S : e \in Nat /\ e <= LastDay
  BY GoldDailyAssumption DEF Days
<1>1. PICK x \in {LastDay - e : e \in S} : \A y \in {LastDay - e : e \in S} :
             <<y, x>> \notin OpToRel(<, Nat)
  <2>1. {LastDay - e : e \in S} \in SUBSET Nat /\ {LastDay - e : e \in S} # {}
    BY <1>0
  <2> QED
    BY <2>1, NatLessThanWellFounded, WFMin
<1>2. PICK m \in S : x = LastDay - m
  BY <1>1
<1>3. ASSUME NEW e \in S, m < e PROVE FALSE
  <2>1. LastDay - e < LastDay - m /\ LastDay - e \in Nat /\ LastDay - m \in Nat
    BY <1>0, <1>3
  <2> QED
    BY <1>1, <1>2, <2>1 DEF OpToRel
<1>4. \E n \in S : \A e \in S : n >= e
  BY <1>0, <1>3
<1>5. Max(S) \in S /\ \A e \in S : Max(S) >= e
  BY <1>4 DEF Max
<1> QED
  BY <1>0, <1>5

(* The rows of a position that ClickHouse has are of days that were        *)
(* processed, and of an open one the row of its last fill is among them.   *)
LEMMA RowsWritten ==
  ASSUME TypeOK, SourceInv, NEW w, NEW o, NEW e \in Written(w, o)
  PROVE  e \in Days /\ e <= processed
<1>1. PICK f \in settled : f.day = e
  BY DEF Written
<1> QED
  BY <1>1, GoldDailyAssumption DEF TypeOK, SourceInv

LEMMA LastRowKept ==
  ASSUME TypeOK, SourceInv, NEW w, NEW o, QtyAt(w, o, processed) # 0
  PROVE  \E e \in Kept(w, o) : /\ e \in Days
                               /\ QtyAt(w, o, e) = QtyAt(w, o, processed)
                               /\ \E f \in settled : f.wallet = w /\ f.outcome = o
<1>1. \A f \in settled : f.day \in Days /\ f.day <= processed
  BY GoldDailyAssumption DEF TypeOK, SourceInv
<1>2. \A f \in settled : f.wallet = w /\ f.outcome = o => f.day \in Written(w, o)
  BY DEF Written, LedgerOf
<1>3. PICK f \in settled : f.wallet = w /\ f.outcome = o
  <2> SUFFICES ASSUME \A f \in settled : ~(f.wallet = w /\ f.outcome = o) PROVE FALSE
    OBVIOUS
  <2>1. FilledTill(settled, w, o, processed) = {}
    BY DEF FilledTill
  <2>2. Amount(FilledTill(settled, w, o, processed)) = 0
    BY <2>1, NoAmount
  <2> QED
    BY <2>2, QtyIs
<1>4. PICK S : S = Written(w, o)
  OBVIOUS
<1>5. S \in SUBSET Days /\ S # {}
  BY <1>2, <1>3, <1>4, RowsWritten
<1>6. PICK e : e = Max(S)
  OBVIOUS
<1>7. e \in S /\ \A c \in S : c <= e
  BY <1>5, <1>6, LastOfDays
<1>8. \A c \in S : c \in Int
  BY <1>5 DEF Days
<1>9. \A c \in S : ~(e < c)
  BY <1>7, <1>8
<1>10. e \in Kept(w, o)
  BY <1>4, <1>7, <1>9 DEF Kept
<1>11. FilledTill(settled, w, o, e) = FilledTill(settled, w, o, processed)
  BY <1>1, <1>2, <1>4, <1>7 DEF FilledTill
<1>12. Amount(FilledTill(settled, w, o, e)) = Amount(FilledTill(settled, w, o, processed))
  BY <1>11, Zenon
<1> QED
  BY <1>3, <1>5, <1>7, <1>10, <1>12, QtyIs

(* A row of a position that a valuation reads is right.                    *)
LEMMA ReadRight ==
  ASSUME TypeOK, SourceInv, NEW p \in OpenPositions,
         NEW r, r.outcome = p[2], r.day = p[3], r.qty = QtyAt(p[1], p[2], p[3])
  PROVE  ValueRight(p[1], r, processed, settled)
<1>1. PICK w, o, e : w = p[1] /\ o = p[2] /\ e = p[3]
  OBVIOUS
<1>2. e \in Kept(w, o) /\ QtyAt(w, o, e) # 0
  BY <1>1 DEF OpenPositions
<1>3. e \in Days /\ e <= processed
  BY <1>2, RowsWritten DEF Kept
<1>4. QtyAt(w, o, e) = Amount(FilledTill(settled, w, o, e))
  BY QtyIs
<1>5. o \in OpenIn(settled, w, e)
  BY <1>2, <1>4, NotOpen DEF OpenIn
<1> QED
  BY <1>1, <1>3, <1>4, <1>5 DEF ValueRight

LEMMA ValuationRight ==
  ASSUME TypeOK, SourceInv, NEW d \in Days, processed = d, NEW gap
  PROVE  RightRows("wallet_mtm_daily", d, Mtm(d), settled, processed, gap)
<1>1. ASSUME NEW w \in DOMAIN Mtm(d), NEW o \in OpenIn(settled, w, d)
      PROVE  \E r \in Mtm(d)[w] : r.outcome = o /\ r.qty = Amount(FilledTill(settled, w, o, d))
  <2>1. w \in watched
    BY <1>1 DEF Mtm, OpenPositions
  <2>2. QtyAt(w, o, processed) # 0
    BY QtyIs DEF OpenIn
  <2>3. PICK e \in Kept(w, o) : /\ e \in Days
                                /\ QtyAt(w, o, e) = QtyAt(w, o, processed)
                                /\ \E f \in settled : f.wallet = w /\ f.outcome = o
    BY <2>2, LastRowKept
  <2>4. o \in {f.outcome : f \in settled}
    BY <2>3
  <2>5. PICK p : p = <<w, o, e>>
    OBVIOUS
  <2>6. p \in OpenPositions /\ p[1] = w /\ p[2] = o /\ p[3] = e
    BY <2>1, <2>2, <2>3, <2>4, <2>5 DEF OpenPositions
  <2>7. Mtm(d)[w] = {Valued(w, q[2], q[3], d) : q \in {q \in OpenPositions : q[1] = w}}
    BY <1>1 DEF Mtm
  <2>8. Valued(w, o, e, d) \in Mtm(d)[w]
    BY <2>6, <2>7
  <2>9. Valued(w, o, e, d).outcome = o /\ Valued(w, o, e, d).qty = QtyAt(w, o, e)
    BY DEF Valued
  <2> QED
    BY <2>3, <2>8, <2>9, QtyIs
<1>2. ASSUME NEW w \in DOMAIN Mtm(d), NEW r \in Mtm(d)[w]
      PROVE  ValueRight(w, r, d, settled)
  <2>1. Mtm(d)[w] = {Valued(w, q[2], q[3], d) : q \in {q \in OpenPositions : q[1] = w}}
    BY <1>2 DEF Mtm
  <2>2. PICK p \in OpenPositions : p[1] = w /\ r = Valued(w, p[2], p[3], d)
    BY <1>2, <2>1
  <2>3. r.outcome = p[2] /\ r.day = p[3] /\ r.qty = QtyAt(w, p[2], p[3])
    BY <2>2 DEF Valued
  <2>4. r.qty = QtyAt(p[1], p[2], p[3])
    BY <2>2, <2>3
  <2> QED
    BY <2>2, <2>3, <2>4, ReadRight
<1>3. RightValuation(d, Mtm(d), settled)
  BY <1>1, <1>2 DEF RightValuation
<1> QED
  BY <1>3 DEF RightRows, Snapshots, Days

LEMMA SnapshotRight ==
  ASSUME TypeOK, SourceInv, NEW d \in Days, processed = d, NEW gap
  PROVE  RightRows(Snapshots, d, Snapshot(d), settled, processed, gap)
<1>1. ASSUME NEW k \in DOMAIN Snapshot(d), NEW r \in Snapshot(d)[k]
      PROVE  r.outcome = k[2] /\ ValueRight(k[1], r, d, settled)
  <2> DEFINE marked == {p \in OpenPositions : MarkOf(p[2], d) # 0}
  <2>1. Snapshot(d)[k] = {Valued(k[1], k[2], p[3], d) : p \in {q \in marked : <<q[1], q[2]>> = k}}
    BY <1>1 DEF Snapshot
  <2>2. PICK p \in OpenPositions : <<p[1], p[2]>> = k /\ r = Valued(k[1], k[2], p[3], d)
    BY <1>1, <2>1
  <2>3. k[1] = p[1] /\ k[2] = p[2]
    BY <2>2
  <2>4. r.outcome = k[2] /\ r.day = p[3] /\ r.qty = QtyAt(k[1], k[2], p[3])
    BY <2>2 DEF Valued
  <2> QED
    BY <2>3, <2>4, ReadRight
<1>2. RightSnapshot(d, Snapshot(d), settled)
  BY <1>1 DEF RightSnapshot
<1> QED
  BY <1>2 DEF RightRows, Snapshots, Days

(* The last fill that a replay of all days finds is the last one there is. *)
LEMMA ReplayedAmount ==
  ASSUME TypeOK, NEW d \in Days, \A e \in 1..d : copies[e] > 0,
         NEW w, NEW o, NEW L, L = LastFill(w, o, 1..d)
  PROVE  QtyAt(w, o, L) = Amount(FilledTill(settled, w, o, d))
<1> DEFINE filled == {e \in 1..d : copies[e] > 0 /\ \E f \in LedgerOf(w, e) : f.outcome = o}
<1>0. 1..d \subseteq Days /\ d \in Nat /\ LastDay \in Nat
  BY GoldDailyAssumption DEF Days
<1>1. L = IF filled = {} THEN 0 ELSE Max(filled)
  BY DEF LastFill
<1>2. \A f \in settled : f.day \in Days
  BY GoldDailyAssumption DEF TypeOK
<1>3. \A f \in settled : f.wallet = w /\ f.outcome = o /\ f.day <= d => f.day \in filled
  BY <1>0, <1>2 DEF LedgerOf, Days
<1>4. FilledTill(settled, w, o, L) = FilledTill(settled, w, o, d)
  <2>1. CASE filled = {}
    <3>1. L = 0 /\ \A f \in settled : f.day >= 1
      BY <1>1, <1>2, <2>1 DEF Days
    <3>2. FilledTill(settled, w, o, L) = {} /\ FilledTill(settled, w, o, d) = {}
      BY <1>2, <1>3, <2>1, <3>1 DEF FilledTill, Days
    <3> QED
      BY <3>2
  <2>2. CASE filled # {}
    <3>1. filled \in SUBSET Days
      BY <1>0
    <3> HIDE DEF filled
    <3>2. L \in filled /\ \A e \in filled : e <= L
      BY <1>1, <2>2, <3>1, LastOfDays
    <3>3. L \in Int /\ L <= d
      BY <1>0, <3>2 DEF filled
    <3> QED
      BY <1>0, <1>2, <1>3, <3>2, <3>3 DEF FilledTill, Days
  <2> QED
    BY <2>1, <2>2
<1> QED
  BY <1>4, QtyIs, Zenon

LEMMA ReplayRight ==
  ASSUME TypeOK, SourceInv, NEW missing \in SUBSET Days, NEW d \in missing, d <= processed,
         \A e \in 1..d : copies[e] > 0, NEW w, NEW gap, Gap(missing) = {} \/ gap
  PROVE  RightRows(Snapshots, d, Replay(w, d, missing), settled, processed, gap)
<1>0. d \in Days /\ d \in Nat
  BY DEF Days
<1>1. CASE gap
  BY <1>1 DEF RightRows, Snapshots
<1>2. CASE Gap(missing) = {}
  <2>1. {e \in Days : (\A m \in missing : e < m) \/ (e \in missing /\ e <= d)} = 1..d
    <3>1. \A e \in Days : (\A m \in missing : e < m) => e <= d
      BY <1>0 DEF Days
    <3>2. ASSUME NEW e \in Days, e <= d, e \notin missing, NEW m \in missing PROVE e < m
      <4>1. e < d /\ e \in Int /\ m \in Int
        BY <1>0, <3>2 DEF Days
      <4> SUFFICES ASSUME m < e PROVE FALSE
        BY <3>2, <4>1
      <4> QED
        BY <1>2, <3>2, <4>1 DEF Gap
    <3>3. \A e : e \in 1..d <=> e \in Days /\ e <= d
      BY <1>0, GoldDailyAssumption DEF Days
    <3> QED
      BY <3>1, <3>2, <3>3
  <2>2. Replay(w, d, missing) = ReplayOf(w, d, 1..d)
    BY <2>1, Zenon DEF Replay
  <2> DEFINE qty(o) == QtyAt(w, o, LastFill(w, o, 1..d))
             open == {o \in OutcomesOf(w) : qty(o) # 0}
  <2>3. ReplayOf(w, d, 1..d) =
          [p \in {w} \X open |->
             {[outcome |-> p[2], day |-> d, qty |-> qty(p[2]), mark |-> MarkOf(p[2], d)]}]
    BY DEF ReplayOf
  <2>4. ASSUME NEW o PROVE qty(o) = Amount(FilledTill(settled, w, o, d))
    BY <1>0, ReplayedAmount
  <2> HIDE DEF qty
  <2>5. open = OpenIn(settled, w, d)
    BY <2>4, OpenIs DEF OpenIn
  <2> HIDE DEF open
  <2>6. ASSUME NEW k \in {w} \X open, NEW r \in ReplayOf(w, d, 1..d)[k]
        PROVE  r.outcome = k[2] /\ ValueRight(k[1], r, d, settled)
    <3>1. k[1] = w /\ k[2] \in open
      BY <2>6
    <3>2. r = [outcome |-> k[2], day |-> d, qty |-> qty(k[2]), mark |-> MarkOf(k[2], d)]
      BY <2>3, <2>6
    <3>3. r.outcome = k[2] /\ r.day = d /\ r.qty = qty(k[2])
      BY <3>2
    <3> QED
      BY <1>0, <2>4, <2>5, <3>1, <3>3 DEF ValueRight
  <2>7. RightSnapshot(d, ReplayOf(w, d, 1..d), settled)
    BY <2>3, <2>6 DEF RightSnapshot
  <2> QED
    BY <2>2, <2>7 DEF RightRows, Snapshots
<1> QED
  BY <1>1, <1>2

Found == "gap" \in events

LEMMA SourceStep ==
  ASSUME TypeInv, SourceInv, [Next]_vars
  PROVE  /\ SourceInv'
         /\ SettledAfter(settled, settled', processed)
         /\ processed \in Int /\ processed' \in Int /\ processed <= processed'
<1>0. TypeOK /\ TypeInv' /\ TypeOK'
  <2>1. TypeInv'
    BY StepType
  <2> QED
    BY <2>1 DEF TypeInv
<1>1. /\ processed \in Int /\ processed' \in Int /\ settled' \subseteq Fills /\ settled \subseteq Fills
      /\ \A f \in Fills : f.day \in Int
      /\ copies \in [Days -> Nat]
  BY <1>0, GoldDailyAssumption DEF TypeOK, Days
<1>2. CASE ProcessTrades
  <2>1. /\ processed' = processed + 1
        /\ settled' = settled \cup (arrived \cap FillsOf(processed + 1))
        /\ copies' = [copies EXCEPT ![processed + 1] = 1]
    BY <1>2 DEF ProcessTrades
  <2>2. \A f \in settled' \ settled : f.day = processed + 1
    BY <2>1 DEF FillsOf
  <2>3. SettledAfter(settled, settled', processed)
    BY <1>1, <2>1, <2>2 DEF SettledAfter
  <2>4. \A f \in settled' : f.day <= processed'
    BY <1>1, <2>1, <2>2 DEF SourceInv
  <2>5. \A d \in Days : copies'[d] > 0 => d <= processed'
    BY <1>1, <2>1 DEF SourceInv, Days
  <2> QED
    BY <1>1, <2>1, <2>3, <2>4, <2>5 DEF SourceInv
<1>3. ASSUME processed' = processed, settled' = settled,
             \A d \in Days : copies'[d] > 0 => copies[d] > 0 \/ d <= processed
      PROVE  /\ SourceInv' /\ SettledAfter(settled, settled', processed)
             /\ processed <= processed'
  BY <1>1, <1>3 DEF SourceInv, SettledAfter
<1>4. CASE Inputs /\ ~ProcessTrades
  <2>1. /\ processed' = processed /\ settled' = settled
        /\ copies' = copies \/ \E d \in Days : copies' = [copies EXCEPT ![d] = 0]
    BY <1>4 DEF Inputs, NextDay, Arrive, Merge, ExpireLedger, AddWallet, RemoveWallet
  <2>2. \A d \in Days : copies'[d] > 0 => copies[d] > 0 \/ d <= processed
    BY <1>1, <2>1
  <2> QED
    BY <1>1, <1>3, <2>1, <2>2
<1>5. ASSUME NEW j \in Jobs, Begin(j)
      PROVE  UNCHANGED sources
  BY <1>0, <1>5, BeginStarts DEF Started, Start
<1>6. ASSUME NEW j \in Jobs, Step(j)
      PROVE  /\ processed' = processed /\ settled' = settled
             /\ \A d \in Days : copies'[d] > 0 => copies[d] > 0 \/ d <= processed
  <2>1. CASE LoadLedger(j)
    BY <1>1, <2>1 DEF LoadLedger
  <2>2. CASE ~LoadLedger(j)
    <3>1. UNCHANGED sources
      BY <1>6, <2>2 DEF Step, SkipExisting, NoWatchlist, Plan, ComputeMarketMarks, ComputeWalletPnl,
        ComputeWalletMtm, ComputeWalletPositionSnapshot, Computed, Delete, PassOver, Put, Insert,
        LoadRead, Fail
    <3> QED
      BY <3>1 DEF sources
  <2> QED
    BY <2>1, <2>2
<1>7. CASE (\E j \in Jobs : Begin(j)) \/ UNCHANGED vars
  <2>1. processed' = processed /\ settled' = settled /\ copies' = copies
    BY <1>5, <1>7 DEF sources, vars
  <2> QED
    BY <1>1, <1>3, <2>1
<1>8. CASE \E j \in Jobs : Step(j)
  BY <1>1, <1>3, <1>6, <1>8
<1> QED
  BY <1>2, <1>4, <1>7, <1>8 DEF Next

(* What was right stays right.                                             *)
LEMMA RightStays ==
  ASSUME TypeInv, SourceInv, [Next]_vars
  PROVE  \A t, d, rows :
           RightRows(t, d, rows, settled, processed, Found) =>
           RightRows(t, d, rows, settled', processed', Found')
<1>1. /\ SettledAfter(settled, settled', processed)
      /\ processed \in Int /\ processed' \in Int /\ processed <= processed'
  BY SourceStep
<1>2. Found => Found'
  BY EventsGrow DEF Found
<1>3. Found \in BOOLEAN /\ Found' \in BOOLEAN
  BY DEF Found
<1> HIDE DEF Found
<1>4. ASSUME NEW t, NEW d, NEW rows, RightRows(t, d, rows, settled, processed, Found)
      PROVE  RightRows(t, d, rows, settled', processed', Found')
  <2>1. d \in Days
    BY <1>4 DEF RightRows
  <2> QED
    BY <1>1, <1>2, <1>3, <1>4, <2>1, StaysRight
<1> QED
  BY <1>4

(* A process that is not about to write.                                   *)
LEMMA RestingRight ==
  ASSUME NEW r, r.cmd = "idle" \/ r.step \notin {"delete", "put"}, NEW fills, NEW done, NEW gap
  PROVE  JobRight(r, fills, done, gap)
  BY DEF JobRight

LEMMA AfterPutRight ==
  ASSUME NEW j \in Jobs, JobOK(job[j]), DaysOK(job[j]), job[j].step \in {"delete", "put"},
         NEW fills, NEW done, NEW gap, JobRight(job[j], fills, done, gap)
  PROVE  JobRight(AfterPut(j), fills, done, gap)
<1>1. /\ job[j].cmd # "idle" /\ job[j].todo \in Seq(TasksOf(job[j].cmd)) /\ job[j].todo # <<>>
      /\ job[j].cmd \in OnDemandCmds => T(j) = Snapshots
  BY TaskFacts DEF JobOK, Writing
<1>2. CASE AfterPut(j) = NextTask(j)
  BY <1>1, <1>2, NextTaskShape, RestingRight
<1>3. CASE AfterPut(j) = IdleJob
  BY <1>3, IdleJobOK, RestingRight
<1>4. CASE AfterPut(j) = With(j, "insert", job[j].todo, job[j].rows, job[j].timely)
  <2>1. AfterPut(j) = Doing(job[j].cmd, "insert", job[j].todo, job[j].wallet, job[j].rows,
                            job[j].timely)
    BY <1>1, <1>4, SameTasks
  <2>2. AfterPut(j).step = "insert"
    BY <2>1 DEF Doing
  <2> QED
    BY <2>2, RestingRight
<1>5. CASE /\ AfterPut(j) = With(j, "delete", Tail(job[j].todo), job[j].rows, job[j].timely)
           /\ Is(j, OnDemandCmds) /\ Len(job[j].todo) > 1
  <2>1. Tail(job[j].todo) # <<>> /\ Tail(job[j].todo) \in Seq(TasksOf(job[j].cmd))
    BY <1>1, <1>5, TailLeft, HeadTask
  <2>2. Head(Tail(job[j].todo)) \in TasksOf(job[j].cmd)
    BY <2>1, HeadTask
  <2>3. Head(Tail(job[j].todo)).table = Snapshots /\ Head(job[j].todo).table = Snapshots
    BY <1>1, <1>5, <2>2, CommandsApart DEF TasksOf, Is, T
  <2>4. PICK r : r = Doing(job[j].cmd, "delete", Tail(job[j].todo), job[j].wallet, job[j].rows,
                           job[j].timely)
    OBVIOUS
  <2>5. /\ r.todo = Tail(job[j].todo) /\ r.rows = job[j].rows /\ r.timely = job[j].timely
        /\ r.step = "delete"
    BY <2>4 DEF Doing
  <2>6. AfterPut(j) = r
    BY <1>5, <2>1, <2>4 DEF With
  <2> QED
    BY <1>1, <2>3, <2>5, <2>6 DEF JobRight
<1> QED
  BY <1>2, <1>3, <1>4, <1>5 DEF AfterPut

(* What a process computes is right if it is timely.                       *)
LEMMA CarryingRight ==
  ASSUME NEW j \in Jobs, job[j].todo # <<>>, NEW rows, NEW own, NEW fills, NEW done, NEW gap,
         NEW step, step = "put" => D(j) \in DOMAIN rows,
         \A d \in own \cap DOMAIN rows : RightRows(T(j), d, rows[d], fills, done, gap)
  PROVE  JobRight(With(j, step, job[j].todo, rows, own), fills, done, gap)
<1>1. PICK r : r = Doing(job[j].cmd, step, job[j].todo, job[j].wallet, rows, own)
  OBVIOUS
<1>2. r.todo = job[j].todo /\ r.rows = rows /\ r.timely = own /\ r.step = step
  BY <1>1 DEF Doing
<1>3. With(j, step, job[j].todo, rows, own) = r
  BY <1>1, SameTasks
<1> QED
  BY <1>2, <1>3 DEF JobRight, T, D

LEMMA PlanRight ==
  ASSUME ShapeInv, SourceInv, NEW j \in Jobs, Plan(j), NEW r, job' = [job EXCEPT ![j] = r]
  PROVE  JobRight(r, settled, processed, Found')
<1>0. /\ TypeInv /\ TypeOK /\ JobOK(job[j]) /\ job[j].cmd # "idle" /\ job[j].step = "plan"
      /\ job[j].cmd # "load"
  BY CommandsApart DEF ShapeInv, TypeInv, Plan, At, JobOK
<1>1. /\ job[j].todo \in Seq(TasksOf(job[j].cmd)) /\ job[j].todo # <<>>
      /\ T(j) = Snapshots
  BY <1>0, TaskFacts DEF JobOK
<1> DEFINE asked == {job[j].todo[n].day : n \in DOMAIN job[j].todo}
           missing == {d \in asked : ~Exists(Snapshots, d)}
           rows == [d \in {e \in missing : Replay(job[j].wallet, e, missing) # NoRows} |->
                      Replay(job[j].wallet, d, missing)]
           own == {d \in missing : d <= processed /\ \A e \in 1..d : copies[e] > 0}
<1>2. /\ job' = [job EXCEPT ![j] = With(j, "delete", job[j].todo, rows, own)]
      /\ events' = IF Gap(missing) = {} THEN events ELSE events \cup {"gap"}
  BY DEF Plan, Become
<1>3. r = With(j, "delete", job[j].todo, rows, own)
  <2>1. job = [i \in Jobs |-> job[i]]
    BY <1>0 DEF TypeInv
  <2> HIDE DEF rows, own
  <2> QED
    BY <1>2, <2>1
<1>4. missing \in SUBSET Days
  <2>1. \A n \in DOMAIN job[j].todo : job[j].todo[n] \in TasksOf(job[j].cmd)
    BY <1>1
  <2> QED
    BY <1>0, <2>1 DEF TasksOf
<1>5. Gap(missing) = {} \/ Found'
  BY <1>2 DEF Found
<1>6. \A d \in own \cap DOMAIN rows : d \in missing /\ d <= processed /\ (\A e \in 1..d : copies[e] > 0)
                                     /\ rows[d] = Replay(job[j].wallet, d, missing)
  OBVIOUS
<1> HIDE DEF rows, own, missing
<1>7. ASSUME NEW d \in own \cap DOMAIN rows
      PROVE  RightRows(T(j), d, rows[d], settled, processed, Found')
  <2>1. d \in missing /\ d <= processed /\ (\A e \in 1..d : copies[e] > 0)
        /\ rows[d] = Replay(job[j].wallet, d, missing)
    BY <1>6
  <2>2. RightRows(Snapshots, d, Replay(job[j].wallet, d, missing), settled, processed, Found')
    BY <1>0, <1>4, <1>5, <2>1, ReplayRight
  <2> QED
    BY <1>1, <2>1, <2>2
<1> QED
  BY <1>1, <1>3, <1>7, CarryingRight

LEMMA ComputedRight ==
  ASSUME ShapeInv, NEW j \in Jobs, NEW x, NEW own \in BOOLEAN, Computed(j, x, own),
         NEW r, job' = [job EXCEPT ![j] = r], NEW fills, NEW done, NEW gap,
         own => RightRows(T(j), D(j), x, fills, done, gap)
  PROVE  JobRight(r, fills, done, gap)
<1>0. /\ JobOK(job[j]) /\ job[j].cmd # "idle" /\ job = [i \in Jobs |-> job[i]]
      /\ job[j].todo # <<>>
  BY DEF ShapeInv, TypeInv, Computed, At, JobOK
<1>1. PICK days : days = IF own THEN {D(j)} ELSE {}
  OBVIOUS
<1>2. r = With(j, "delete", job[j].todo, Only(D(j), x), days)
  <2>1. job' = [job EXCEPT ![j] = With(j, "delete", job[j].todo, Only(D(j), x), days)]
    BY <1>1 DEF Computed, Become
  <2> QED
    BY <1>0, <2>1
<1>3. \A d \in days \cap DOMAIN Only(D(j), x) :
         RightRows(T(j), d, Only(D(j), x)[d], fills, done, gap)
  BY <1>1, OnlyRows
<1> QED
  BY <1>0, <1>2, <1>3, CarryingRight

LEMMA ComputationsRight ==
  ASSUME ShapeInv, SourceInv, NEW j \in Jobs,
         \/ ComputeMarketMarks(j) \/ ComputeWalletPnl(j)
         \/ ComputeWalletMtm(j) \/ ComputeWalletPositionSnapshot(j),
         NEW r, job' = [job EXCEPT ![j] = r]
  PROVE  JobRight(r, settled, processed, Found')
<1>0. TypeOK /\ JobOK(job[j]) /\ job[j].cmd # "idle" /\ D(j) \in Days
  <2>1. TypeOK /\ JobOK(job[j])
    BY DEF ShapeInv, TypeInv
  <2>2. job[j].cmd # "idle" /\ job[j].cmd # "load"
    BY DEF ComputeMarketMarks, ComputeWalletPnl, ComputeWalletMtm,
           ComputeWalletPositionSnapshot, Computed, Is, At
  <2> QED
    BY <2>1, <2>2, TaskFacts
<1>1. ASSUME NEW x, NEW own \in BOOLEAN, Computed(j, x, own),
             own => RightRows(T(j), D(j), x, settled, processed, Found')
      PROVE  JobRight(r, settled, processed, Found')
  BY <1>1, ComputedRight
<1>2. CASE ComputeMarketMarks(j)
  <2>1. T(j) = "market_mark_daily" /\ Computed(j, Marks(D(j)), FillsOf(D(j)) \subseteq arrived)
    BY <1>2 DEF ComputeMarketMarks
  <2>2. FillsOf(D(j)) \subseteq arrived =>
          RightRows(T(j), D(j), Marks(D(j)), settled, processed, Found')
    BY <1>0, <2>1, MarksRight
  <2> QED
    BY <1>1, <2>1, <2>2
<1>3. CASE ComputeWalletPnl(j)
  <2>1. T(j) = "wallet_pnl_daily" /\ Computed(j, Pnl(D(j)), copies[D(j)] = 1)
    BY <1>3 DEF ComputeWalletPnl
  <2>2. copies[D(j)] = 1 => RightRows(T(j), D(j), Pnl(D(j)), settled, processed, Found')
    BY <1>0, <2>1, PnlRight
  <2> QED
    BY <1>1, <2>1, <2>2
<1>4. CASE ComputeWalletMtm(j)
  <2>1. T(j) = "wallet_mtm_daily" /\ Computed(j, Mtm(D(j)), processed = D(j))
    BY <1>4 DEF ComputeWalletMtm
  <2>2. processed = D(j) => RightRows(T(j), D(j), Mtm(D(j)), settled, processed, Found')
    BY <1>0, <2>1, ValuationRight
  <2> QED
    BY <1>1, <2>1, <2>2
<1>5. CASE ComputeWalletPositionSnapshot(j)
  <2>1. T(j) = Snapshots /\ Computed(j, Snapshot(D(j)), processed = D(j))
    BY <1>5 DEF ComputeWalletPositionSnapshot
  <2>2. processed = D(j) => RightRows(T(j), D(j), Snapshot(D(j)), settled, processed, Found')
    BY <1>0, <2>1, SnapshotRight
  <2> QED
    BY <1>1, <2>1, <2>2
<1> QED
  BY <1>2, <1>3, <1>4, <1>5

(* One step of a process leaves what is timely, in S3 or about to be       *)
(* there, right.                                                           *)
LEMMA StepRight ==
  ASSUME ShapeInv, SourceInv, NEW j \in Jobs, Step(j), NEW r, job' = [job EXCEPT ![j] = r],
         NEW fills, NEW done, NEW gap, gap = Found', fills = settled, done = processed,
         PartsRight(timely, s3, fills, done, gap), JobRight(job[j], fills, done, gap)
  PROVE  PartsRight(timely', s3', fills, done, gap) /\ JobRight(r, fills, done, gap)
<1>0. /\ TypeInv /\ TypeOK /\ JobOK(job[j]) /\ DaysOK(job[j]) /\ RowsOK(job[j])
      /\ job[j].cmd # "idle" /\ job = [i \in Jobs |-> job[i]]
      /\ timely \subseteq Tables \X Days /\ s3 = [t \in Tables |-> s3[t]]
  BY StepRecord DEF ShapeInv, TypeInv, TypeOK
<1>1. ASSUME NEW x, job' = [job EXCEPT ![j] = x] PROVE r = x
  BY <1>0, <1>1
<1>2. JobRight(NextTask(j), fills, done, gap) /\ JobRight(IdleJob, fills, done, gap)
  BY <1>0, NextTaskShape, IdleJobOK, RestingRight
<1>3. job[j].todo # <<>>
  BY <1>0 DEF JobOK
<1>4. CASE Plan(j)
  BY <1>4, PlanRight DEF Plan
<1>5. CASE \/ ComputeMarketMarks(j) \/ ComputeWalletPnl(j)
           \/ ComputeWalletMtm(j) \/ ComputeWalletPositionSnapshot(j)
  <2>1. s3' = s3 /\ timely' = timely
    BY <1>5 DEF ComputeMarketMarks, ComputeWalletPnl, ComputeWalletMtm,
                ComputeWalletPositionSnapshot, Computed
  <2> QED
    BY <1>5, <2>1, ComputationsRight
<1>6. CASE SkipExisting(j) \/ NoWatchlist(j) \/ LoadLedger(j) \/ Insert(j)
  <2>1. r = NextTask(j) /\ s3' = s3 /\ timely' = timely
    BY <1>1, <1>6 DEF SkipExisting, NoWatchlist, LoadLedger, Insert, Become, history
  <2> QED
    BY <1>2, <2>1
<1>7. CASE LoadRead(j)
  <2>1. s3' = s3 /\ timely' = timely
    BY <1>7 DEF LoadRead
  <2>2. \/ r = NextTask(j)
        \/ \E x : r = With(j, "insert", job[j].todo, x, {})
    BY <1>1, <1>7 DEF LoadRead, Become
  <2>3. ASSUME NEW x PROVE JobRight(With(j, "insert", job[j].todo, x, {}), fills, done, gap)
    BY <1>3, CarryingRight
  <2> QED
    BY <1>2, <2>1, <2>2, <2>3
<1>8. CASE Fail(j)
  <2>1. s3' = s3 /\ timely' = timely
    BY <1>8 DEF Fail
  <2>2. r = IdleJob \/ \E todo : r = With(j, "next", todo, NoRows, {})
    BY <1>1, <1>8 DEF Fail, Become
  <2>3. ASSUME NEW todo PROVE JobRight(With(j, "next", todo, NoRows, {}), fills, done, gap)
    BY <1>2, RestingRight DEF With, Doing
  <2> QED
    BY <1>2, <2>1, <2>2, <2>3
<1>9. CASE PassOver(j)
  <2>1. r = AfterPut(j) /\ s3' = s3 /\ timely' = timely /\ job[j].step = "delete"
    BY <1>1, <1>9 DEF PassOver, Become, history, At
  <2> QED
    BY <1>0, <2>1, AfterPutRight
<1>10. CASE Delete(j)
  <2>1. /\ r = With(j, "put", job[j].todo, job[j].rows, job[j].timely)
        /\ timely' = timely /\ job[j].step = "delete"
    BY <1>1, <1>10 DEF Delete, Become, history, At
  <2>2. \A d \in job[j].timely \cap DOMAIN job[j].rows :
          RightRows(T(j), d, job[j].rows[d], fills, done, gap)
    BY <1>0, <2>1 DEF JobRight, T
  <2>3. JobRight(r, fills, done, gap)
    <3>1. D(j) \in DOMAIN job[j].rows
      BY <1>10 DEF Delete
    <3> QED
      BY <1>3, <2>1, <2>2, <3>1, CarryingRight
  <2>4. \A t \in Tables : s3'[t] = IF t = T(j) THEN Restrict(s3[t], DOMAIN s3[t] \ {D(j)})
                                   ELSE s3[t]
    BY <1>0, <1>10 DEF Delete
  <2>5. ASSUME NEW f, NEW S, NEW d \in DOMAIN Restrict(f, DOMAIN f \ S)
        PROVE  d \in DOMAIN f /\ Restrict(f, DOMAIN f \ S)[d] = f[d]
    BY <2>5 DEF Restrict
  <2>6. \A t \in Tables : \A d \in DOMAIN s3'[t] : d \in DOMAIN s3[t] /\ s3'[t][d] = s3[t][d]
    <3>1. ASSUME NEW t \in Tables, NEW d \in DOMAIN s3'[t]
          PROVE  d \in DOMAIN s3[t] /\ s3'[t][d] = s3[t][d]
      <4>1. CASE t = T(j)
        <5>1. PICK f, e : f = s3[t] /\ e = D(j)
          OBVIOUS
        <5>2. s3'[t] = Restrict(f, DOMAIN f \ {e})
          BY <2>4, <4>1, <5>1
        <5>3. \A c \in DOMAIN Restrict(f, DOMAIN f \ {e}) :
                c \in DOMAIN f /\ Restrict(f, DOMAIN f \ {e})[c] = f[c]
          BY <2>5
        <5> QED
          BY <3>1, <5>1, <5>2, <5>3
      <4>2. CASE t # T(j)
        BY <2>4, <3>1, <4>2
      <4> QED
        BY <4>1, <4>2
    <3> QED
      BY <3>1
  <2>7. PartsRight(timely', s3', fills, done, gap)
    BY <1>0, <2>1, <2>6 DEF PartsRight
  <2> QED
    BY <2>3, <2>7
<1>11. CASE Put(j)
  <2>1. /\ r = AfterPut(j) /\ job[j].step = "put"
        /\ s3' = [s3 EXCEPT ![T(j)] = Over(Only(D(j), job[j].rows[D(j)]), s3[T(j)])]
        /\ timely' = IF D(j) \in job[j].timely THEN timely \cup {<<T(j), D(j)>>}
                     ELSE timely \ {<<T(j), D(j)>>}
    BY <1>1, <1>11 DEF Put, Become, At
  <2>2. JobRight(r, fills, done, gap)
    BY <1>0, <2>1, AfterPutRight
  <2>3. T(j) \in Tables /\ D(j) \in DOMAIN job[j].rows
    BY <1>0, <2>1, TaskFacts DEF JobOK, JobRight, D
  <2>4. /\ s3'[T(j)] = Over(Only(D(j), job[j].rows[D(j)]), s3[T(j)])
        /\ \A t \in Tables \ {T(j)} : s3'[t] = s3[t]
    BY <1>0, <2>1, <2>3
  <2>5. /\ s3'[T(j)][D(j)] = job[j].rows[D(j)]
        /\ \A d \in DOMAIN s3'[T(j)] : d # D(j) =>
             d \in DOMAIN s3[T(j)] /\ s3'[T(j)][d] = s3[T(j)][d]
    <3>1. PICK x, f, e : x = job[j].rows[D(j)] /\ f = s3[T(j)] /\ e = D(j)
      OBVIOUS
    <3>2. PICK g : g = Over(Only(e, x), f)
      OBVIOUS
    <3>4. DOMAIN g = {e} \cup DOMAIN f
      BY <3>2, OneDay
    <3>5. g[e] = x
      BY <3>2 DEF Over, Only
    <3>6. \A c \in DOMAIN f \ {e} : g[c] = f[c]
      BY <3>2 DEF Over, Only
    <3>3. s3'[T(j)] = Over(Only(e, x), f)
      BY <2>4, <3>1
    <3> QED
      BY <3>1, <3>2, <3>3, <3>4, <3>5, <3>6
  <2>6. ASSUME NEW p \in timely', p[2] \in DOMAIN s3'[p[1]]
        PROVE  RightRows(p[1], p[2], s3'[p[1]][p[2]], fills, done, gap)
    <3>1. CASE p = <<T(j), D(j)>>
      <4>1. D(j) \in job[j].timely
        BY <2>1, <2>6, <3>1
      <4>2. RightRows(T(j), D(j), job[j].rows[D(j)], fills, done, gap)
        BY <1>0, <2>1, <2>3, <4>1 DEF JobRight, T
      <4> QED
        BY <2>5, <3>1, <4>2
    <3>2. CASE p # <<T(j), D(j)>>
      <4>1. p \in timely /\ p[1] \in Tables /\ (p[1] # T(j) \/ p[2] # D(j))
        BY <1>0, <2>1, <2>6, <3>2
      <4>2. p[2] \in DOMAIN s3[p[1]] /\ s3'[p[1]][p[2]] = s3[p[1]][p[2]]
        BY <2>4, <2>5, <2>6, <4>1
      <4> QED
        BY <4>1, <4>2 DEF PartsRight
    <3> QED
      BY <3>1, <3>2
  <2> QED
    BY <2>2, <2>6 DEF PartsRight
<1> QED
  BY <1>4, <1>5, <1>6, <1>7, <1>8, <1>9, <1>10, <1>11 DEF Step

LEMMA RightStep ==
  ASSUME ShapeInv, RightInv, [Next]_vars
  PROVE  RightInv'
<1>0. TypeInv /\ TypeOK /\ SourceInv /\ SourceInv'
  BY SourceStep DEF ShapeInv, TypeInv, RightInv
<1>1. PICK fills, done, gap : fills = settled' /\ done = processed' /\ gap = Found'
  OBVIOUS
<1>2. /\ PartsRight(timely, s3, fills, done, gap)
      /\ \A j \in Jobs : JobRight(job[j], fills, done, gap)
  <2>1. \A t, d, rows : RightRows(t, d, rows, settled, processed, Found) =>
                        RightRows(t, d, rows, fills, done, gap)
    BY <1>0, <1>1, RightStays
  <2>2. /\ PartsRight(timely, s3, settled, processed, Found)
        /\ \A j \in Jobs : JobRight(job[j], settled, processed, Found)
    BY DEF RightInv, Found
  <2> HIDE DEF Found
  <2>3. PartsRight(timely, s3, fills, done, gap)
    BY <2>1, <2>2 DEF PartsRight
  <2>4. ASSUME NEW j \in Jobs PROVE JobRight(job[j], fills, done, gap)
    BY <2>1, <2>2 DEF JobRight
  <2> QED
    BY <2>3, <2>4
<1>3. ASSUME PartsRight(timely', s3', fills, done, gap),
             \A j \in Jobs : JobRight(job'[j], fills, done, gap)
      PROVE  RightInv'
  BY <1>0, <1>1, <1>3 DEF RightInv, Found
<1>4. CASE Inputs \/ UNCHANGED vars
  <2>1. job' = job /\ s3' = s3 /\ timely' = timely
    BY <1>4 DEF Inputs, NextDay, Arrive, ProcessTrades, Merge, ExpireLedger, AddWallet, RemoveWallet,
                history, vars
  <2> QED
    BY <1>2, <1>3, <2>1
<1>5. ASSUME NEW j \in Jobs, Begin(j) PROVE RightInv'
  <2>1. PICK cmd, todo, wallet : Started(j, cmd, todo, wallet)
    BY <1>0, <1>5, BeginStarts
  <2> DEFINE r == Doing(cmd, IF cmd \in OnDemandCmds THEN "plan" ELSE "next", todo, wallet,
                        NoRows, {})
  <2>2. JobOK(r) /\ job' = [job EXCEPT ![j] = r]
    BY <2>1, StartRecord
  <2>3. r.step \notin {"delete", "put"}
    BY DEF Doing
  <2> HIDE DEF r
  <2>4. s3' = s3 /\ timely' = timely
    BY <2>1 DEF Started, Start
  <2>5. job'[j] = r /\ \A i \in Jobs \ {j} : job'[i] = job[i]
    BY <1>0, <2>2, JobUpdate
  <2> QED
    BY <1>2, <1>3, <2>3, <2>4, <2>5, RestingRight
<1>6. ASSUME NEW j \in Jobs, Step(j) PROVE RightInv'
  <2>1. PICK r : JobOK(r) /\ job' = [job EXCEPT ![j] = r]
    BY <1>0, <1>6, StepRecord
  <2>2. job'[j] = r /\ \A i \in Jobs \ {j} : job'[i] = job[i]
    BY <1>0, <2>1, JobUpdate
  <2>3. fills = settled /\ done = processed
    BY <1>1, <1>6 DEF sources, Step, SkipExisting, NoWatchlist, Plan, ComputeMarketMarks,
        ComputeWalletPnl, ComputeWalletMtm, ComputeWalletPositionSnapshot, Computed, Delete,
        PassOver, Put, Insert, LoadRead, LoadLedger, Fail
  <2>4. PartsRight(timely', s3', fills, done, gap) /\ JobRight(r, fills, done, gap)
    BY <1>0, <1>1, <1>2, <1>6, <2>1, <2>3, StepRight
  <2> QED
    BY <1>2, <1>3, <2>2, <2>4
<1> QED
  BY <1>4, <1>5, <1>6 DEF Next

(* What a partition holds that was computed from the fills up to its day.  *)
LEMMA RightIsTheirDay ==
  ASSUME ShapeInv, RightInv
  PROVE  RowsOfTheirDay
<1>0. timely \subseteq Tables \X Days
  BY DEF ShapeInv, TypeInv, TypeOK
<1>1. ASSUME NEW p \in timely, Exists(p[1], p[2])
      PROVE  /\ RightRows(p[1], p[2], s3[p[1]][p[2]], settled, processed, Found)
             /\ p[1] \in Tables /\ p[2] \in Days
  BY <1>0, <1>1 DEF RightInv, PartsRight, Exists, Found
<1>2. ValuesOfTheirDay
  <2>1. ASSUME NEW p \in timely, Exists(p[1], p[2])
        PROVE  /\ p[1] = "market_mark_daily" =>
                    DOMAIN s3[p[1]][p[2]] = {f.outcome : f \in FillsOf(p[2])}
               /\ p[1] = "wallet_pnl_daily" =>
                    /\ DOMAIN s3[p[1]][p[2]] = {f.wallet : f \in settled \cap FillsOf(p[2])}
                    /\ \A w \in DOMAIN s3[p[1]][p[2]] :
                         s3[p[1]][p[2]][w] = Cardinality(LedgerOf(w, p[2]))
               /\ p[1] = "wallet_mtm_daily" =>
                    \A w \in DOMAIN s3[p[1]][p[2]] :
                      /\ \A o \in OpenAt(w, p[2]) :
                           \E r \in s3[p[1]][p[2]][w] : r.outcome = o /\ r.qty = QtyAt(w, o, p[2])
                      /\ \A r \in s3[p[1]][p[2]][w] :
                           /\ r.day <= p[2] /\ r.outcome \in OpenAt(w, r.day)
                           /\ r.qty = QtyAt(w, r.outcome, r.day)
    <3>0. PICK d, rows : d = p[2] /\ rows = s3[p[1]][p[2]]
      OBVIOUS
    <3>1. RightRows(p[1], d, rows, settled, processed, Found)
      BY <1>1, <2>1, <3>0
    <3>2. \A w : Cardinality(DayFills(settled, w, d)) = Cardinality(LedgerOf(w, d))
      BY DEF DayFills, LedgerOf
    <3>3. ASSUME NEW w, NEW r, ValueRight(w, r, d, settled)
          PROVE  /\ r.day <= d /\ r.outcome \in OpenAt(w, r.day)
                 /\ r.qty = QtyAt(w, r.outcome, r.day)
      BY <3>3, QtyIs, OpenIs DEF ValueRight
    <3>4. p[1] = "market_mark_daily" => DOMAIN rows = {f.outcome : f \in FillsOf(d)}
      BY <3>1 DEF RightRows
    <3>5. p[1] = "wallet_pnl_daily" => RightPnl(d, rows, settled)
      BY <3>1 DEF RightRows
    <3>6. p[1] = "wallet_mtm_daily" => RightValuation(d, rows, settled)
      BY <3>1 DEF RightRows
    <3>7. p[1] = "wallet_mtm_daily" =>
            \A w \in DOMAIN rows :
              /\ \A o \in OpenAt(w, d) : \E r \in rows[w] : r.outcome = o /\ r.qty = QtyAt(w, o, d)
              /\ \A r \in rows[w] : /\ r.day <= d /\ r.outcome \in OpenAt(w, r.day)
                                    /\ r.qty = QtyAt(w, r.outcome, r.day)
      <4>1. ASSUME NEW w, NEW o \in OpenAt(w, d) PROVE o \in OpenIn(settled, w, d)
        BY <4>1, OpenIs
      <4>2. \A w, o : QtyAt(w, o, d) = Amount(FilledTill(settled, w, o, d))
        BY QtyIs
      <4> QED
        BY <3>3, <3>6, <4>1, <4>2 DEF RightValuation
    <3>8. p[1] = "wallet_pnl_daily" =>
                    /\ DOMAIN rows = {f.wallet : f \in settled \cap FillsOf(d)}
                    /\ \A w \in DOMAIN rows : rows[w] = Cardinality(LedgerOf(w, d))
      BY <3>2, <3>5 DEF RightPnl
    <3> QED
      BY <3>0, <3>4, <3>7, <3>8
  <2> QED
    BY <2>1 DEF ValuesOfTheirDay
<1>3. ASSUME Without({"gap"}) PROVE SnapshotsOfTheirDay
  <2>1. ASSUME NEW p \in timely, p[1] = Snapshots, Exists(p[1], p[2]),
               NEW k \in DOMAIN s3[Snapshots][p[2]], NEW r \in s3[Snapshots][p[2]][k]
        PROVE  /\ r.day <= p[2] /\ r.outcome = k[2] /\ k[2] \in OpenAt(k[1], r.day)
               /\ r.qty = QtyAt(k[1], k[2], r.day)
    <3>1. RightSnapshot(p[2], s3[Snapshots][p[2]], settled)
      BY <1>1, <1>3, <2>1 DEF RightRows, Found, Without
    <3> QED
      BY <2>1, <3>1, QtyIs, OpenIs DEF RightSnapshot, ValueRight
  <2> QED
    BY <2>1 DEF SnapshotsOfTheirDay
<1> QED
  BY <1>2, <1>3 DEF RowsOfTheirDay

(* A partition that was computed when the ledger and the positions were    *)
(* those of its day keeps a mark of every outcome traded on it, a PnL of   *)
(* every wallet that traded, and of a wallet it values every position open *)
(* after that day; whatever else it values was such a position at the end  *)
(* of an earlier day.  This is so whatever is merged or fails, and stays   *)
(* so whatever is settled or expires afterwards.                           *)
THEOREM RowsAreOfTheirDay == Spec => []RowsOfTheirDay
<1>1. Init => RightInv
  <2> SUFFICES ASSUME Init PROVE RightInv
    OBVIOUS
  <2>1. SourceInv
    BY DEF Init, SourceInv
  <2>2. PartsRight(timely, s3, settled, processed, "gap" \in events)
    BY DEF Init, PartsRight
  <2>3. \A j \in Jobs : JobRight(job[j], settled, processed, "gap" \in events)
    BY IdleJobOK, RestingRight DEF Init
  <2> QED
    BY <2>1, <2>2, <2>3 DEF RightInv
<1>2. ShapeInv /\ RightInv /\ [Next]_vars => RightInv'
  BY RightStep
<1>3. ShapeInv /\ RightInv => RowsOfTheirDay
  BY RightIsTheirDay
<1> QED
  BY ShapeHolds, <1>1, <1>2, <1>3, PTL DEF Spec

===============================================================================
