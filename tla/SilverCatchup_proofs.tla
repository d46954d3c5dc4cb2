------------------------ MODULE SilverCatchup_proofs ------------------------
(***************************************************************************)
(* The Silver job for every set of jobs, ingestion runs, days and part     *)
(* files: types, what an entry in the log of processed manifests says      *)
(* about the table, when a part file can be in it twice, and when the log  *)
(* can lose an entry.                                                      *)
(***************************************************************************)
EXTENDS SilverCatchup, TLAPS

(* ------------------------- type correctness --------------------------- *)

LEMMA ManifestType ==
  ASSUME TypeOK, NEW r \in Runs
  PROVE  Manifest(r) \in ManifestRecord
  BY DEF TypeOK, Manifest, ManifestRecord

LEMMA NoManifestType == NoManifest \in ManifestRecord
<1>1. (CHOOSE r \in Runs : TRUE) \in Runs
  BY SilverAssumption
<1> QED
  BY <1>1 DEF NoManifest, ManifestRecord

LEMMA IdleJobType == IdleJob \in JobRecord
  BY NoManifestType, SilverAssumption DEF IdleJob, JobRecord, Days, CommandNames

(* The manifests chosen for processing are among the discovered ones.      *)
LEMMA SelectionIsFound ==
  ASSUME NEW found
  PROVE  SelectPerDay(found) \subseteq found
  BY DEF SelectPerDay, SnapshotAndDeltas

(* The file a job is at is one of the files of its manifest.               *)
LEMMA FileType ==
  ASSUME TypeOK, NEW j \in Jobs, job[j].current.files <= Parts[job[j].current.run],
         AtFile(j)
  PROVE  File(j) \in Files
<1>1. /\ job[j].current.run \in Runs
      /\ job[j].current.files \in Nat
      /\ job[j].file \in Nat \ {0}
  BY DEF TypeOK, JobRecord, ManifestRecord
<1>2. Parts[job[j].current.run] \in Nat
  BY <1>1, SilverAssumption
<1>3. job[j].file \in 1..Parts[job[j].current.run]
  BY <1>1, <1>2 DEF AtFile
<1> QED
  BY <1>1, <1>3 DEF File, Files

LEMMA WrittenType ==
  ASSUME TypeOK, NEW j \in Jobs, File(j) \in Files
  PROVE  Written(j) \in [Files -> Nat]
<1>1. silver \in [Files -> Nat]
  BY DEF TypeOK
<1>2. silver[File(j)] \in Nat
  BY <1>1
<1> QED
  BY <1>1, <1>2 DEF Written

EventNames == Kinds \cup CommandNames

(* What a job holds was in Bronze: no manifest lists more files than its   *)
(* run has parts.                                                          *)
HeldParts ==
  \A j \in Jobs :
    /\ job[j].current.files <= Parts[job[j].current.run]
    /\ \A m \in job[j].found \cup job[j].queue : m.files <= Parts[m.run]

TypeInv == TypeOK /\ HeldParts

LEMMA InitType == Init => TypeInv
<1> SUFFICES ASSUME Init PROVE TypeInv
  OBVIOUS
<1>1. job \in [Jobs -> JobRecord]
  BY IdleJobType DEF Init
<1>2. \A j \in Jobs : job[j] = IdleJob
  BY DEF Init
<1>3. IdleJob.current.files = 0 /\ IdleJob.found = {} /\ IdleJob.queue = {}
  BY DEF IdleJob, NoManifest
<1>4. Parts[NoManifest.run] \in Nat /\ IdleJob.current = NoManifest
  BY SilverAssumption DEF NoManifest, IdleJob
<1>5. HeldParts
  BY <1>2, <1>3, <1>4 DEF HeldParts
<1>6. \A r \in Runs : bronze[r].files <= Parts[r]
  BY SilverAssumption DEF Init
<1> QED
  BY <1>1, <1>5, <1>6 DEF Init, TypeInv, TypeOK

(* A step that gives job j a new record of the right type and leaves the   *)
(* others alone keeps the types of jobs and what they hold.                *)
LEMMA JobUpdate ==
  ASSUME TypeInv, NEW j \in Jobs, NEW record,
         record \in JobRecord,
         record.current.files <= Parts[record.current.run],
         \A m \in record.found \cup record.queue : m.files <= Parts[m.run],
         job' = [job EXCEPT ![j] = record]
  PROVE  job' \in [Jobs -> JobRecord] /\ HeldParts'
<1>1. job' \in [Jobs -> JobRecord]
  BY DEF TypeInv, TypeOK
<1>2. \A i \in Jobs : job'[i] = IF i = j THEN record ELSE job[i]
  BY DEF TypeInv, TypeOK
<1>3. HeldParts'
  BY <1>2 DEF HeldParts, TypeInv
<1> QED
  BY <1>1, <1>3

LEMMA IdleHolds ==
  /\ IdleJob \in JobRecord
  /\ IdleJob.current.files <= Parts[IdleJob.current.run]
  /\ \A m \in IdleJob.found \cup IdleJob.queue : m.files <= Parts[m.run]
<1>1. IdleJob.current = NoManifest /\ NoManifest.files = 0 /\ NoManifest.run \in Runs
  BY SilverAssumption DEF IdleJob, NoManifest
<1>2. Parts[NoManifest.run] \in Nat
  BY <1>1, SilverAssumption
<1>3. IdleJob.found = {} /\ IdleJob.queue = {}
  BY DEF IdleJob
<1> QED
  BY <1>1, <1>2, <1>3, IdleJobType

LEMMA StepType == TypeInv /\ [Next]_vars => TypeInv'
<1> SUFFICES ASSUME TypeInv, [Next]_vars PROVE TypeInv'
  OBVIOUS
<1> USE SilverAssumption
<1>0. TypeOK /\ HeldParts
  BY DEF TypeInv
<1>1. ASSUME NEW r \in Runs, NEW n \in 1..Parts[r], Upload(r, n) PROVE TypeInv'
  <2>1. bronze' \in [Runs -> [files : Nat, at : Nat]]
        /\ \A q \in Runs : bronze'[q].files <= Parts[q]
    BY <1>0, <1>1 DEF Upload, TypeOK
  <2>2. uploads' \in Nat /\ shocks' \in Nat /\ events' \subseteq EventNames
    BY <1>0, <1>1 DEF Upload, Admit, Disturb, Calm, TypeOK, EventNames
  <2> QED
    BY <1>0, <1>1, <2>1, <2>2 DEF Upload, TypeOK, TypeInv, HeldParts, EventNames
<1>2. ASSUME NEW j \in Jobs, JobStep(j) PROVE TypeInv'
  <2>0. /\ job[j] \in JobRecord
        /\ job[j].current.files <= Parts[job[j].current.run]
        /\ \A m \in job[j].found \cup job[j].queue : m.files <= Parts[m.run]
        /\ TypeOK
    BY <1>0 DEF TypeOK, HeldParts
  (* Every step of a job leaves Bronze alone and ends in a known place.    *)
  <2>a. ASSUME bronze' = bronze, state_log' \subseteq Runs, silver' \in [Files -> Nat],
               pc' \in [Jobs -> Steps \cup {"idle"}], job' \in [Jobs -> JobRecord],
               HeldParts', uploads' = uploads, shocks' \in Nat, events' \subseteq EventNames,
               unread' \subseteq Files, refused' \subseteq Files
        PROVE  TypeInv'
    BY <2>0, <2>a DEF TypeOK, TypeInv, EventNames
  <2>b. ASSUME NEW step \in Steps \cup {"idle"}, Goto(j, step)
        PROVE  pc' \in [Jobs -> Steps \cup {"idle"}]
    BY <2>0, <2>b DEF Goto, TypeOK
  <2>c. ASSUME Stop(j)
        PROVE  /\ pc' \in [Jobs -> Steps \cup {"idle"}] /\ job' \in [Jobs -> JobRecord]
               /\ HeldParts'
    BY <2>b, <2>c, IdleHolds, JobUpdate DEF Stop
  <2>d. ASSUME Calm \/ \E kind, matters : Disturb(kind, matters)
        PROVE  shocks' \in Nat /\ events' \subseteq EventNames
    BY <2>0, <2>d DEF Calm, Admit, Disturb, TypeOK, EventNames
  <2>1. ASSUME NEW command \in Commands, NEW force \in BOOLEAN,
               NEW from \in Days, NEW to \in Days, Start(j, command, force, from, to)
        PROVE  TypeInv'
    <3> DEFINE record == [IdleJob EXCEPT !.command = command, !.force = force,
                                         !.from = from, !.to = to]
    <3>1. record \in JobRecord
      BY IdleJobType DEF JobRecord
    <3>2. /\ record.current = IdleJob.current /\ record.found = IdleJob.found
          /\ record.queue = IdleJob.queue
      BY IdleJobType DEF JobRecord
    <3> HIDE DEF record
    <3>3. job' = [job EXCEPT ![j] = record]
      BY <2>1 DEF Start, record
    <3>4. job' \in [Jobs -> JobRecord] /\ HeldParts'
      BY <1>0, <3>1, <3>2, <3>3, IdleHolds, JobUpdate DEF TypeInv
    <3>5. shocks' \in Nat /\ events' \subseteq EventNames
      <4>1. command \in CommandNames /\ "overlap" \in Kinds /\ "force" \in Kinds
        BY DEF Kinds
      <4>2. shocks \in Nat /\ events \subseteq EventNames
        BY <2>0 DEF TypeOK, EventNames
      <4>3. events' \subseteq events \cup {command, "overlap", "force"}
        BY <2>1 DEF Start, Admit
      <4>4. shocks' \in Nat
        BY <2>1, <4>2 DEF Start, Admit
      <4> QED
        BY <4>1, <4>2, <4>3, <4>4 DEF EventNames
    <3>6. pc' \in [Jobs -> Steps \cup {"idle"}]
      BY <2>1, <2>b DEF Start, Steps
    <3> QED
      BY <2>0, <2>1, <2>a, <3>4, <3>5, <3>6 DEF Start, TypeOK
  <2>2. ASSUME Load(j) PROVE TypeInv'
    <3>1. PICK runs \in {state_log, {}}, d \in Days :
            /\ IF runs = state_log THEN Calm ELSE Disturb("getError", TRUE)
            /\ job' = [job EXCEPT ![j].processed = runs, ![j].from = d]
      BY <2>2 DEF Load
    <3> DEFINE record == [job[j] EXCEPT !.processed = runs, !.from = d]
    <3>2. runs \subseteq Runs
      BY <2>0 DEF TypeOK
    <3>3. /\ record \in JobRecord /\ record.current = job[j].current
          /\ record.found = job[j].found /\ record.queue = job[j].queue
      BY <2>0, <3>2 DEF JobRecord
    <3>4. job' = [job EXCEPT ![j] = record]
      BY <2>0, <3>1 DEF TypeOK, JobRecord
    <3> HIDE DEF record
    <3>5. job' \in [Jobs -> JobRecord] /\ HeldParts'
      BY <2>0, <3>3, <3>4, JobUpdate
    <3>6. shocks' \in Nat /\ events' \subseteq EventNames
      BY <3>1, <2>d
    <3>7. pc' \in [Jobs -> Steps \cup {"idle"}]
      BY <2>2, <2>b DEF Load, Steps
    <3> QED
      BY <2>0, <2>2, <2>a, <3>5, <3>6, <3>7 DEF Load, TypeOK
  <2>3. ASSUME ListDates(j) PROVE TypeInv'
    <3> DEFINE dates == {Dt[r] : r \in Published} \cap (job[j].from..job[j].to)
               record == [job[j] EXCEPT !.dates = dates, !.from = 1, !.to = LastDay]
    <3>1. dates \subseteq Days /\ 1 \in Days /\ LastDay \in Days
      BY DEF Published, Days
    <3> HIDE DEF dates
    <3>2. /\ record \in JobRecord /\ record.current = job[j].current
          /\ record.found = job[j].found /\ record.queue = job[j].queue
      BY <2>0, <3>1 DEF JobRecord
    <3> USE DEF dates
    <3>3. Stop(j) \/ (Goto(j, "list") /\ job' = [job EXCEPT ![j] = record])
      BY <2>0, <2>3 DEF ListDates, TypeOK, JobRecord
    <3> HIDE DEF record
    <3>4. job' \in [Jobs -> JobRecord] /\ HeldParts' /\ pc' \in [Jobs -> Steps \cup {"idle"}]
      BY <2>0, <2>b, <2>c, <3>2, <3>3, JobUpdate DEF Steps
    <3> QED
      BY <2>0, <2>3, <2>a, <3>4 DEF ListDates, TypeOK, EventNames, history
  <2>4. ASSUME ListManifests(j) PROVE TypeInv'
    <3>1. PICK d \in job[j].dates, lost \in SUBSET Published :
            /\ IF lost = {} THEN Calm ELSE Disturb("manifestError", TRUE)
            /\ job' = [job EXCEPT ![j].dates = @ \ {d},
                 ![j].found = @ \cup {Manifest(r) : r \in {q \in Published \ lost : Dt[q] = d}}]
            /\ IF job[j].dates # {d} THEN UNCHANGED pc
               ELSE Goto(j, IF job[j].command = "catchup" THEN "select" ELSE "load")
      BY <2>4 DEF ListManifests
    <3> DEFINE listed == {Manifest(r) : r \in {q \in Published \ lost : Dt[q] = d}}
               record == [job[j] EXCEPT !.dates = @ \ {d}, !.found = @ \cup listed]
    <3>2. listed \subseteq ManifestRecord
      BY <2>0, ManifestType DEF Published
    <3>3. \A m \in listed : m.files <= Parts[m.run]
      BY <2>0 DEF Published, Manifest, TypeOK
    <3>4. job' = [job EXCEPT ![j] = record]
      BY <2>0, <3>1 DEF TypeOK, JobRecord
    <3> HIDE DEF listed
    <3>5. /\ record \in JobRecord /\ record.current = job[j].current
          /\ record.found = job[j].found \cup listed /\ record.queue = job[j].queue
      BY <2>0, <3>2 DEF JobRecord
    <3> HIDE DEF record
    <3>6. job' \in [Jobs -> JobRecord] /\ HeldParts'
      BY <2>0, <3>3, <3>4, <3>5, JobUpdate
    <3>7. pc' \in [Jobs -> Steps \cup {"idle"}]
      BY <2>0, <2>b, <3>1 DEF Steps, TypeOK
    <3>8. shocks' \in Nat /\ events' \subseteq EventNames
      BY <3>1, <2>d
    <3> QED
      BY <2>0, <2>4, <2>a, <3>6, <3>7, <3>8 DEF ListManifests, TypeOK
  <2>5. ASSUME Select(j) PROVE TypeInv'
    <3>1. PICK chosen \in SUBSET job[j].found : job' = [job EXCEPT ![j].queue = chosen]
      BY <2>5, SelectionIsFound DEF Select
    <3> DEFINE record == [job[j] EXCEPT !.queue = chosen]
    <3>2. /\ record \in JobRecord /\ record.current = job[j].current
          /\ record.found = job[j].found /\ record.queue = chosen
      BY <2>0, <3>1 DEF JobRecord
    <3>3. job' = [job EXCEPT ![j] = record]
      BY <2>0, <3>1 DEF TypeOK, JobRecord
    <3> HIDE DEF record
    <3>4. job' \in [Jobs -> JobRecord] /\ HeldParts'
      BY <2>0, <3>2, <3>3, JobUpdate
    <3> QED
      BY <2>0, <2>5, <2>a, <2>b, <3>4 DEF Select, TypeOK, EventNames, history, Steps
  <2>6. ASSUME Take(j) PROVE TypeInv'
    <3>0. PICK no \in BOOLEAN : no = FALSE
      OBVIOUS
    <3>1. PICK m \in job[j].queue :
            job' = [job EXCEPT ![j].current = m, ![j].queue = @ \ {m}, ![j].file = 1,
                               ![j].read = no, ![j].overwritten = no]
      BY <2>6, <3>0 DEF Take
    <3> DEFINE rest == job[j].queue \ {m}
               r1 == [job[j] EXCEPT !.current = m, !.queue = rest]
               r2 == [r1 EXCEPT !.file = 1]
               r3 == [r2 EXCEPT !.read = no, !.overwritten = no]
    <3>2. m \in ManifestRecord /\ rest \in SUBSET ManifestRecord
      BY <2>0 DEF JobRecord
    <3>3. job' = [job EXCEPT ![j] = r3]
      BY <2>0, <3>1 DEF TypeOK, JobRecord
    <3>4. rest \subseteq job[j].queue
      OBVIOUS
    <3> HIDE DEF rest
    <3>5. /\ r1 \in JobRecord
          /\ r1.current = m /\ r1.found = job[j].found /\ r1.queue = rest
      BY <2>0, <3>2 DEF JobRecord
    <3> HIDE DEF r1
    <3>a. /\ r2 \in JobRecord
          /\ r2.current = m /\ r2.found = job[j].found /\ r2.queue = rest
      BY <3>5 DEF JobRecord
    <3> HIDE DEF r2
    <3>6. /\ r3 \in JobRecord
          /\ r3.current = m /\ r3.found = job[j].found /\ r3.queue = rest
      BY <3>a DEF JobRecord
    <3> HIDE DEF r3
    <3>7. job' \in [Jobs -> JobRecord] /\ HeldParts'
      BY <2>0, <3>2, <3>3, <3>4, <3>6, JobUpdate
    <3> QED
      BY <2>0, <2>6, <2>a, <2>b, <3>7 DEF Take, TypeOK, EventNames, history, Steps
  <2>7. ASSUME Finish(j) PROVE TypeInv'
    BY <2>0, <2>7, <2>a, <2>c DEF Finish, TypeOK, EventNames, history
  <2>8. ASSUME WriteFile(j) \/ SkipUnread(j) \/ SkipRefused(j) PROVE TypeInv'
    <3>1. File(j) \in Files
      BY <2>0, <2>8, FileType DEF WriteFile, SkipUnread, SkipRefused
    <3>2. silver' \in [Files -> Nat] /\ unread' \subseteq Files /\ refused' \subseteq Files
      <4>1. CASE WriteFile(j)
        BY <2>0, <3>1, <4>1, WrittenType DEF WriteFile, TypeOK, EventNames, history
      <4>2. CASE SkipUnread(j) \/ SkipRefused(j)
        BY <2>0, <3>1, <4>2 DEF SkipUnread, SkipRefused, TypeOK
      <4> QED
        BY <2>8, <4>1, <4>2
    <3>3. shocks' \in Nat /\ events' \subseteq EventNames
      BY <2>0, <2>8, <2>d DEF WriteFile, SkipUnread, SkipRefused, TypeOK, EventNames, history
    <3> DEFINE next == job[j].file + 1
               done == job[j].written \cup {File(j)}
               r1 == [job[j] EXCEPT !.file = next, !.read = TRUE, !.overwritten = TRUE,
                                    !.written = done]
               r2 == [job[j] EXCEPT !.file = next]
               r3 == [job[j] EXCEPT !.file = next, !.read = TRUE]
    <3>4. next \in Nat \ {0} /\ done \subseteq Files
      BY <2>0, <3>1 DEF JobRecord
    <3>5. \/ job' = [job EXCEPT ![j] = r1]
          \/ job' = [job EXCEPT ![j] = r2]
          \/ job' = [job EXCEPT ![j] = r3]
      BY <2>0, <2>8 DEF WriteFile, SkipUnread, SkipRefused, TypeOK, JobRecord
    <3> HIDE DEF next, done
    <3>a. /\ r1 \in JobRecord /\ r1.current = job[j].current
          /\ r1.found = job[j].found /\ r1.queue = job[j].queue
      BY <2>0, <3>4 DEF JobRecord
    <3>b. /\ r2 \in JobRecord /\ r2.current = job[j].current
          /\ r2.found = job[j].found /\ r2.queue = job[j].queue
      BY <2>0, <3>4 DEF JobRecord
    <3>c. /\ r3 \in JobRecord /\ r3.current = job[j].current
          /\ r3.found = job[j].found /\ r3.queue = job[j].queue
      BY <2>0, <3>4 DEF JobRecord
    <3> HIDE DEF r1, r2, r3
    <3>7. job' \in [Jobs -> JobRecord] /\ HeldParts'
      BY <2>0, <3>5, <3>a, <3>b, <3>c, JobUpdate
    <3> QED
      BY <2>0, <2>8, <2>a, <3>2, <3>3, <3>7
      DEF WriteFile, SkipUnread, SkipRefused, TypeOK, EventNames, history
  <2>9. ASSUME FailWrite(j) \/ EndManifest(j) PROVE TypeInv'
    <3>1. pc' \in [Jobs -> Steps \cup {"idle"}]
      BY <2>9, <2>b DEF FailWrite, EndManifest, Steps
    <3>2. shocks' \in Nat /\ events' \subseteq EventNames
      BY <2>0, <2>9, <2>d DEF FailWrite, EndManifest, TypeOK, EventNames, history
    <3> QED
      BY <1>0, <2>9, <2>a, <3>1, <3>2 DEF FailWrite, EndManifest, TypeOK, EventNames, history, HeldParts
  <2>10. ASSUME MarkGet(j) PROVE TypeInv'
    <3>1. PICK runs \in {state_log, {}} :
            /\ IF runs = state_log THEN Calm ELSE Disturb("getError", TRUE)
            /\ job' = [job EXCEPT ![j].log = runs]
      BY <2>10 DEF MarkGet
    <3> DEFINE record == [job[j] EXCEPT !.log = runs]
    <3>2. runs \subseteq Runs
      BY <2>0 DEF TypeOK
    <3>3. /\ record \in JobRecord /\ record.current = job[j].current
          /\ record.found = job[j].found /\ record.queue = job[j].queue
      BY <2>0, <3>2 DEF JobRecord
    <3>4. job' = [job EXCEPT ![j] = record]
      BY <2>0, <3>1 DEF TypeOK, JobRecord
    <3> HIDE DEF record
    <3>5. job' \in [Jobs -> JobRecord] /\ HeldParts'
      BY <2>0, <3>3, <3>4, JobUpdate
    <3>6. shocks' \in Nat /\ events' \subseteq EventNames
      BY <3>1, <2>d
    <3> QED
      BY <2>0, <2>10, <2>a, <2>b, <3>5, <3>6 DEF MarkGet, TypeOK, Steps
  <2>11. ASSUME MarkPut(j) PROVE TypeInv'
    <3> DEFINE record == [job[j] EXCEPT !.log = {}]
    <3>1. /\ record \in JobRecord /\ record.current = job[j].current
          /\ record.found = job[j].found /\ record.queue = job[j].queue
      BY <2>0 DEF JobRecord
    <3>2. job' = [job EXCEPT ![j] = record]
      BY <2>0, <2>11 DEF MarkPut, TypeOK, JobRecord
    <3> HIDE DEF record
    <3>3. job' \in [Jobs -> JobRecord] /\ HeldParts'
      BY <2>0, <3>1, <3>2, JobUpdate
    <3>4. state_log' \subseteq Runs
      BY <2>0, <2>11 DEF MarkPut, JobRecord, ManifestRecord
    <3> QED
      BY <2>0, <2>11, <2>a, <2>b, <3>3, <3>4 DEF MarkPut, TypeOK, EventNames, history, Steps
  <2>12. ASSUME Crash(j) PROVE TypeInv'
    BY <2>0, <2>12, <2>a, <2>c, <2>d DEF Crash, TypeOK
  <2> QED
    BY <1>2, <2>1, <2>2, <2>3, <2>4, <2>5, <2>6, <2>7, <2>8, <2>9, <2>10, <2>11, <2>12
    DEF JobStep, Progress
<1>3. CASE UNCHANGED vars
  BY <1>0, <1>3 DEF vars, history, TypeOK, TypeInv, HeldParts
<1> QED
  BY <1>1, <1>2, <1>3 DEF Next

(* The state is well typed whatever Bronze writes, whichever storage calls *)
(* fail and however many jobs run.                                         *)
THEOREM TypeCorrect == Spec => []TypeOK
<1>1. Init => TypeInv
  BY InitType
<1>2. TypeInv /\ [Next]_vars => TypeInv'
  BY StepType
<1>3. TypeInv => TypeOK
  BY DEF TypeInv
<1> QED
  BY <1>1, <1>2, <1>3, PTL DEF Spec

(* ---------------------- what the log of marks says -------------------- *)

Accounted(f) == silver[f] > 0 \/ f \in unread \cup refused

(* Every run in a set has a manifest, and all its files are accounted for  *)
(* unless a manifest grew after a job saw it.                              *)
LogHonest(runs) ==
  \A r \in runs :
    /\ bronze[r].files > 0
    /\ Without({"growing"}) => \A i \in 1..bronze[r].files : Accounted(<<r, i>>)

(* A job does not overwrite, works on manifests it discovered, which exist *)
(* and are as it saw them, has accounted for the files it has gone past,   *)
(* and holds an honest copy of the log.                                    *)
JobHonest(record, step) ==
  /\ record.command # "overwrite"
  /\ record.queue \subseteq record.found
  /\ step \in {"work", "mark", "put"} => record.current \in record.found
  /\ \A m \in record.found :
       /\ bronze[m.run].files > 0
       /\ Without({"growing"}) => m.files = bronze[m.run].files
  /\ \A i \in 1..record.current.files :
       (step = "work" /\ i < record.file) \/ step \in {"mark", "put"} =>
         Accounted(<<record.current.run, i>>)
  /\ LogHonest(record.log)

MarkInv ==
  /\ LogHonest(state_log)
  /\ \A j \in Jobs : JobHonest(job[j], pc[j])

(* The files a well-typed run or manifest lists.                           *)
LEMMA ListedFiles ==
  ASSUME TypeInv
  PROVE  /\ \A r \in Runs : \A i \in 1..bronze[r].files : <<r, i>> \in Files
         /\ \A j \in Jobs : \A i \in 1..job[j].current.files :
              <<job[j].current.run, i>> \in Files
<1>1. \A r \in Runs, n \in Nat : n <= Parts[r] => \A i \in 1..n : <<r, i>> \in Files
  <2> SUFFICES ASSUME NEW r \in Runs, NEW n \in Nat, n <= Parts[r], NEW i \in 1..n
               PROVE  <<r, i>> \in Files
    OBVIOUS
  <2>1. i \in 1..Parts[r]
    BY SilverAssumption
  <2> QED
    BY <2>1 DEF Files
<1>2. \A r \in Runs : bronze[r].files \in Nat /\ bronze[r].files <= Parts[r]
  BY DEF TypeInv, TypeOK
<1>3. \A j \in Jobs : /\ job[j].current.run \in Runs /\ job[j].current.files \in Nat
                      /\ job[j].current.files <= Parts[job[j].current.run]
  BY DEF TypeInv, TypeOK, HeldParts, JobRecord, ManifestRecord
<1> QED
  BY <1>1, <1>2, <1>3

(* Honest marks survive while Bronze does not change and no file is lost.  *)
LEMMA LogStaysHonest ==
  ASSUME TypeInv, NEW runs \in SUBSET Runs, LogHonest(runs),
         bronze' = bronze, events \subseteq events',
         \A f \in Files : Accounted(f) => Accounted(f)'
  PROVE  LogHonest(runs)'
<1>1. \A r \in Runs : \A i \in 1..bronze[r].files : <<r, i>> \in Files
  BY ListedFiles
<1>2. Without({"growing"})' => Without({"growing"})
  BY DEF Without
<1> QED
  BY <1>1, <1>2 DEF LogHonest

LEMMA OthersHonest ==
  ASSUME TypeInv, MarkInv, NEW j \in Jobs, NEW record, NEW step,
         bronze' = bronze, events \subseteq events',
         \A f \in Files : Accounted(f) => Accounted(f)',
         job' = [job EXCEPT ![j] = record], pc' = [pc EXCEPT ![j] = step],
         JobHonest(record, step)', LogHonest(state_log)'
  PROVE  MarkInv'
<1> SUFFICES ASSUME NEW i \in Jobs PROVE JobHonest(job[i], pc[i])'
  BY DEF MarkInv
<1>1. CASE i = j
  <2>1. job'[i] = record /\ pc'[i] = step
    BY <1>1 DEF TypeInv, TypeOK
  <2> QED
    BY <2>1 DEF JobHonest
<1>2. CASE i # j
  <2>1. job'[i] = job[i] /\ pc'[i] = pc[i]
    BY <1>2 DEF TypeInv, TypeOK
  <2>2. JobHonest(job[i], pc[i])
    BY DEF MarkInv
  <2>3. \A n \in 1..job[i].current.files : <<job[i].current.run, n>> \in Files
    BY ListedFiles
  <2>4. Without({"growing"})' => Without({"growing"})
    BY DEF Without
  <2>5. job[i].log \in SUBSET Runs
    BY DEF TypeInv, TypeOK, JobRecord
  <2>6. LogHonest(job[i].log)
    BY <2>2 DEF JobHonest
  <2>7. \A r \in Runs : \A n \in 1..bronze[r].files : <<r, n>> \in Files
    BY ListedFiles
  <2>8. LogHonest(job[i].log)'
    BY <2>1, <2>4, <2>5, <2>6, <2>7 DEF LogHonest
  <2> QED
    BY <2>1, <2>2, <2>3, <2>4, <2>8 DEF JobHonest
<1> QED
  BY <1>1, <1>2

LEMMA InitHonest == Init => MarkInv
<1> SUFFICES ASSUME Init PROVE MarkInv
  OBVIOUS
<1>1. \A j \in Jobs : job[j] = IdleJob /\ pc[j] = "idle" /\ state_log = {}
  BY DEF Init
<1>2. state_log = {}
  BY DEF Init
<1> QED
  BY <1>1, <1>2 DEF MarkInv, JobHonest, LogHonest, IdleJob

(* Nothing enters the table by reading; nothing leaves it unless a run     *)
(* overwrites.                                                             *)
LEMMA WriteKeeps ==
  ASSUME TypeInv, NEW j \in Jobs, File(j) \in Files, job[j].command # "overwrite",
         silver' = Written(j), UNCHANGED <<unread, refused>>
  PROVE  /\ \A f \in Files : Accounted(f) => Accounted(f)'
         /\ \A f \in Files : f = File(j) => Accounted(f)'
<1>1. silver \in [Files -> Nat]
  BY DEF TypeInv, TypeOK
<1>2. \A f \in Files : silver'[f] = IF f # File(j) THEN silver[f]
                                    ELSE IF job[j].command = "merge" /\ silver[f] # 0
                                    THEN silver[f]
                                    ELSE IF job[j].command = "merge" THEN 1
                                    ELSE silver[f] + 1
  BY <1>1 DEF Written
<1>3. \A f \in Files : silver[f] \in Nat
  BY <1>1
<1>4. \A f \in Files : silver[f] > 0 => silver'[f] > 0
  BY <1>2, <1>3
<1>5. silver'[File(j)] > 0
  BY <1>2, <1>3
<1> QED
  BY <1>4, <1>5 DEF Accounted

LEMMA StepHonest == TypeInv /\ MarkInv /\ "overwrite" \notin events' /\ [Next]_vars => MarkInv'
<1> SUFFICES ASSUME TypeInv, MarkInv, "overwrite" \notin events', [Next]_vars
             PROVE  MarkInv'
  OBVIOUS
<1>0. TypeOK /\ HeldParts
  BY DEF TypeInv
<1>1. ASSUME NEW r \in Runs, NEW n \in 1..Parts[r], Upload(r, n) PROVE MarkInv'
  <2>1. /\ bronze' = [bronze EXCEPT ![r] = [files |-> n, at |-> uploads + 1]]
        /\ bronze[r].files < n /\ bronze \in [Runs -> [files : Nat, at : Nat]]
        /\ UNCHANGED <<state_log, silver, pc, job, unread, refused>>
    BY <1>0, <1>1 DEF Upload, TypeOK
  <2>2. \A q \in Runs : /\ bronze[q].files > 0 => bronze'[q].files > 0
                        /\ q # r => bronze'[q] = bronze[q]
    BY <2>1
  <2>3. events \subseteq events'
    BY <1>1 DEF Upload, Admit, Disturb, Calm
  <2>4. Seen(r) /\ bronze[r].files > 0 => ~Without({"growing"})'
    <3> SUFFICES ASSUME Seen(r), bronze[r].files > 0 PROVE ~Without({"growing"})'
      OBVIOUS
    <3>1. bronze[r].files # 0
      BY <2>1
    <3>2. "growing" \in events'
      BY <1>1, <3>1 DEF Upload, Admit, Disturb
    <3> QED
      BY <3>2 DEF Without
  <2>5. Without({"growing"})' => Without({"growing"})
    BY <2>3 DEF Without
  <2>6. \A runs \in SUBSET Runs : LogHonest(runs) /\ (r \in runs => Seen(r)) => LogHonest(runs)'
    BY <2>1, <2>2, <2>4, <2>5 DEF LogHonest, Accounted
  <2>7. LogHonest(state_log)'
    <3>1. state_log \in SUBSET Runs
      BY <1>0 DEF TypeOK
    <3> QED
      BY <2>1, <2>6, <3>1 DEF MarkInv, Seen, LogHonest
  <2>8. ASSUME NEW j \in Jobs PROVE JobHonest(job[j], pc[j])'
    <3>1. JobHonest(job[j], pc[j]) /\ job[j] \in JobRecord
      BY <1>0 DEF MarkInv, TypeOK
    <3>2. job[j].log \in SUBSET Runs /\ \A m \in job[j].found : m.run \in Runs
      BY <3>1 DEF JobRecord, ManifestRecord
    <3>3. LogHonest(job[j].log)'
      BY <2>1, <2>6, <3>1, <3>2 DEF JobHonest, Seen, LogHonest
    <3>4. ASSUME NEW m \in job[j].found
          PROVE  /\ bronze'[m.run].files > 0
                 /\ Without({"growing"})' => m.files = bronze'[m.run].files
      <4>1. bronze[m.run].files > 0 /\ (Without({"growing"}) => m.files = bronze[m.run].files)
        BY <3>1 DEF JobHonest
      <4>2. m.run = r => Seen(r)
        BY DEF Seen
      <4> QED
        BY <2>2, <2>4, <2>5, <3>2, <4>1, <4>2
    <3> QED
      BY <2>1, <3>1, <3>3, <3>4 DEF JobHonest, Accounted
  <2> QED
    BY <2>7, <2>8 DEF MarkInv
<1>2. ASSUME NEW j \in Jobs, JobStep(j) PROVE MarkInv'
  <2>0. /\ JobHonest(job[j], pc[j]) /\ job[j] \in JobRecord /\ LogHonest(state_log)
        /\ pc \in [Jobs -> Steps \cup {"idle"}] /\ state_log \in SUBSET Runs
    BY <1>0 DEF MarkInv, TypeOK
  (* A step that leaves the table and the log alone.                       *)
  <2>a. ASSUME NEW record, NEW step, bronze' = bronze, state_log' = state_log,
               UNCHANGED <<silver, unread, refused>>, events \subseteq events',
               job' = [job EXCEPT ![j] = record], pc' = [pc EXCEPT ![j] = step],
               JobHonest(record, step)
        PROVE  MarkInv'
    <3>1. \A f \in Files : Accounted(f) => Accounted(f)'
      BY <2>a DEF Accounted
    <3>2. Without({"growing"})' => Without({"growing"})
      BY <2>a DEF Without
    <3>3. LogHonest(state_log)' /\ JobHonest(record, step)'
      BY <2>a, <2>0, <3>2 DEF LogHonest, JobHonest, Accounted
    <3> QED
      BY <2>a, <3>1, <3>3, OthersHonest
  <2>b. ASSUME Calm \/ \E kind, matters : Disturb(kind, matters)
        PROVE  events \subseteq events'
    BY <2>b DEF Calm, Admit, Disturb
  <2>c. ASSUME Stop(j), bronze' = bronze, state_log' = state_log,
               UNCHANGED <<silver, unread, refused>>, events \subseteq events'
        PROVE  MarkInv'
    <3>1. JobHonest(IdleJob, "idle")
      BY DEF JobHonest, LogHonest, IdleJob
    <3> QED
      BY <2>a, <2>c, <3>1 DEF Stop, Goto
  <2>1. ASSUME NEW command \in Commands, NEW force \in BOOLEAN,
               NEW from \in Days, NEW to \in Days, Start(j, command, force, from, to)
        PROVE  MarkInv'
    <3> DEFINE record == [IdleJob EXCEPT !.command = command, !.force = force,
                                         !.from = from, !.to = to]
               step == IF command = "catchup" THEN "load" ELSE "dates"
    <3>0. command # "overwrite" /\ events \subseteq events'
      BY <2>1 DEF Start, Admit
    <3>1. JobHonest(record, step)
      BY <3>0 DEF JobHonest, LogHonest, IdleJob
    <3> HIDE DEF record, step
    <3>2. job' = [job EXCEPT ![j] = record] /\ pc' = [pc EXCEPT ![j] = step]
      BY <2>1 DEF Start, Goto, record, step
    <3> QED
      BY <2>1, <2>a, <3>0, <3>1, <3>2 DEF Start
  <2>2. ASSUME Load(j) PROVE MarkInv'
    <3>1. PICK runs \in {state_log, {}}, d \in Days :
            /\ IF runs = state_log THEN Calm ELSE Disturb("getError", TRUE)
            /\ job' = [job EXCEPT ![j].processed = runs, ![j].from = d]
      BY <2>2 DEF Load
    <3> DEFINE record == [job[j] EXCEPT !.processed = runs, !.from = d]
               step == IF job[j].command = "catchup" THEN "dates" ELSE "select"
    <3>2. job' = [job EXCEPT ![j] = record]
      BY <1>0, <3>1 DEF TypeOK, JobRecord
    <3>3. JobHonest(record, step)
      BY <2>0 DEF JobHonest, JobRecord
    <3> HIDE DEF record
    <3>4. events \subseteq events'
      BY <3>1, <2>b
    <3>5. pc' = [pc EXCEPT ![j] = step]
      BY <2>2 DEF Load, Goto
    <3> HIDE DEF step
    <3> QED
      BY <2>2, <2>a, <3>2, <3>3, <3>4, <3>5 DEF Load
  <2>3. ASSUME ListDates(j) PROVE MarkInv'
    <3> DEFINE dates == {Dt[r] : r \in Published} \cap (job[j].from..job[j].to)
               record == [job[j] EXCEPT !.dates = dates, !.from = 1, !.to = LastDay]
    <3> HIDE DEF dates
    <3>1. JobHonest(record, "list")
      BY <2>0 DEF JobHonest, JobRecord
    <3> HIDE DEF record
    <3>2. \/ Stop(j)
          \/ job' = [job EXCEPT ![j] = record] /\ pc' = [pc EXCEPT ![j] = "list"]
      BY <1>0, <2>3 DEF ListDates, Goto, TypeOK, JobRecord, dates, record
    <3> QED
      BY <2>3, <2>a, <2>c, <3>1, <3>2 DEF ListDates, history
  <2>4. ASSUME ListManifests(j) PROVE MarkInv'
    <3>1. PICK d \in job[j].dates, lost \in SUBSET Published :
            /\ IF lost = {} THEN Calm ELSE Disturb("manifestError", TRUE)
            /\ job' = [job EXCEPT ![j].dates = @ \ {d},
                 ![j].found = @ \cup {Manifest(r) : r \in {q \in Published \ lost : Dt[q] = d}}]
            /\ IF job[j].dates # {d} THEN UNCHANGED pc
               ELSE Goto(j, IF job[j].command = "catchup" THEN "select" ELSE "load")
      BY <2>4 DEF ListManifests
    <3> DEFINE listed == {Manifest(r) : r \in {q \in Published \ lost : Dt[q] = d}}
               rest == job[j].dates \ {d}
               record == [job[j] EXCEPT !.dates = rest, !.found = @ \cup listed]
               step == IF job[j].dates # {d} THEN "list"
                       ELSE IF job[j].command = "catchup" THEN "select" ELSE "load"
    <3>2. \A m \in listed : bronze[m.run].files > 0 /\ m.files = bronze[m.run].files
      BY DEF Published, Manifest
    <3>3. job' = [job EXCEPT ![j] = record]
      BY <1>0, <3>1 DEF TypeOK, JobRecord
    <3>4. pc' = [pc EXCEPT ![j] = step]
      BY <2>0, <2>4, <3>1 DEF ListManifests, Goto
    <3> HIDE DEF listed, rest
    <3>5. /\ record.command = job[j].command /\ record.queue = job[j].queue
          /\ record.found = job[j].found \cup listed /\ record.current = job[j].current
          /\ record.file = job[j].file /\ record.log = job[j].log
      BY <2>0 DEF JobRecord
    <3>6. step \notin {"work", "mark", "put"}
      OBVIOUS
    <3> HIDE DEF record, step
    <3>7. JobHonest(record, step)
      BY <2>0, <3>2, <3>5, <3>6 DEF JobHonest
    <3>8. events \subseteq events'
      BY <3>1, <2>b
    <3> QED
      BY <2>4, <2>a, <3>3, <3>4, <3>7, <3>8 DEF ListManifests
  <2>5. ASSUME Select(j) PROVE MarkInv'
    <3>1. PICK chosen \in SUBSET job[j].found : job' = [job EXCEPT ![j].queue = chosen]
      BY <2>5, SelectionIsFound DEF Select
    <3> DEFINE record == [job[j] EXCEPT !.queue = chosen]
    <3>2. job' = [job EXCEPT ![j] = record]
      BY <1>0, <3>1 DEF TypeOK, JobRecord
    <3>3. JobHonest(record, "next")
      BY <2>0 DEF JobHonest, JobRecord
    <3> HIDE DEF record
    <3> QED
      BY <2>5, <2>a, <3>2, <3>3 DEF Select, Goto, history
  <2>6. ASSUME Take(j) PROVE MarkInv'
    <3>0. PICK no \in BOOLEAN : no = FALSE
      OBVIOUS
    <3>1. PICK m \in job[j].queue :
            job' = [job EXCEPT ![j].current = m, ![j].queue = @ \ {m}, ![j].file = 1,
                               ![j].read = no, ![j].overwritten = no]
      BY <2>6, <3>0 DEF Take
    <3> DEFINE rest == job[j].queue \ {m}
               record == [job[j] EXCEPT !.current = m, !.queue = rest, !.file = 1,
                                        !.read = no, !.overwritten = no]
    <3>2. job' = [job EXCEPT ![j] = record]
      BY <1>0, <3>1 DEF TypeOK, JobRecord
    <3>3. m \in job[j].found /\ rest \subseteq job[j].found /\ m.files \in Nat
      BY <2>0 DEF JobHonest, JobRecord, ManifestRecord
    <3> HIDE DEF rest
    <3>4. /\ record.command = job[j].command /\ record.queue = rest
          /\ record.found = job[j].found /\ record.current = m
          /\ record.file = 1 /\ record.log = job[j].log
      BY <2>0 DEF JobRecord
    <3> HIDE DEF record
    <3>5. JobHonest(record, "work")
      BY <2>0, <3>3, <3>4 DEF JobHonest
    <3> QED
      BY <2>6, <2>a, <3>2, <3>5 DEF Take, Goto, history
  <2>7. ASSUME Finish(j) PROVE MarkInv'
    BY <2>7, <2>c DEF Finish, history
  <2>8. ASSUME WriteFile(j) \/ SkipUnread(j) \/ SkipRefused(j) PROVE MarkInv'
    <3>1. File(j) \in Files
      BY <1>0, <2>8, FileType DEF HeldParts, WriteFile, SkipUnread, SkipRefused
    <3>2. job[j].command # "overwrite"
      BY <2>0 DEF JobHonest
    <3>3. /\ \A f \in Files : Accounted(f) => Accounted(f)'
          /\ \A f \in Files : f = File(j) => Accounted(f)'
      <4>1. CASE WriteFile(j)
        BY <3>1, <3>2, <4>1, WriteKeeps DEF WriteFile, history
      <4>2. CASE SkipUnread(j) \/ SkipRefused(j)
        BY <4>2 DEF SkipUnread, SkipRefused, Accounted
      <4> QED
        BY <2>8, <4>1, <4>2
    <3>4. events \subseteq events' /\ bronze' = bronze /\ state_log' = state_log
      BY <2>8, <2>b DEF WriteFile, SkipUnread, SkipRefused, history
    <3>5. pc[j] = "work" /\ pc' = [pc EXCEPT ![j] = "work"]
      BY <2>0, <2>8 DEF WriteFile, SkipUnread, SkipRefused, AtFile
    <3>6. PICK record :
            /\ job' = [job EXCEPT ![j] = record]
            /\ record.command = job[j].command /\ record.queue = job[j].queue
            /\ record.found = job[j].found /\ record.current = job[j].current
            /\ record.file = job[j].file + 1 /\ record.log = job[j].log
      <4> DEFINE next == job[j].file + 1
                 done == job[j].written \cup {File(j)}
                 r1 == [job[j] EXCEPT !.file = next, !.read = TRUE, !.overwritten = TRUE,
                                      !.written = done]
                 r2 == [job[j] EXCEPT !.file = next]
                 r3 == [job[j] EXCEPT !.file = next, !.read = TRUE]
                 Fits(r) == /\ r.command = job[j].command /\ r.queue = job[j].queue
                            /\ r.found = job[j].found /\ r.current = job[j].current
                            /\ r.file = next /\ r.log = job[j].log
      <4>1. \/ job' = [job EXCEPT ![j] = r1]
            \/ job' = [job EXCEPT ![j] = r2]
            \/ job' = [job EXCEPT ![j] = r3]
        BY <1>0, <2>8 DEF WriteFile, SkipUnread, SkipRefused, TypeOK, JobRecord
      <4> HIDE DEF next, done
      <4>2. Fits(r1) /\ Fits(r2) /\ Fits(r3)
        BY <2>0 DEF JobRecord
      <4> HIDE DEF r1, r2, r3
      <4> QED
        BY <4>1, <4>2 DEF next
    <3>7. LogHonest(state_log)' /\ LogHonest(job[j].log)'
      <4>1. LogHonest(job[j].log) /\ job[j].log \in SUBSET Runs
        BY <2>0 DEF JobHonest, JobRecord
      <4>2. record.log = job'[j].log
        BY <1>0, <3>6 DEF TypeOK
      <4>3. \A runs \in SUBSET Runs : LogHonest(runs) => LogHonest(runs)'
        BY <3>3, <3>4, LogStaysHonest
      <4> QED
        BY <2>0, <3>4, <3>6, <4>1, <4>2, <4>3 DEF LogHonest
    <3>8. JobHonest(record, "work")'
      <4>1. Without({"growing"})' => Without({"growing"})
        BY <3>4 DEF Without
      <4>2. \A i \in 1..job[j].current.files : <<job[j].current.run, i>> \in Files
        BY ListedFiles
      <4>3. job[j].file \in Nat \ {0}
        BY <2>0 DEF JobRecord
      <4>4. \A i \in 1..record.current.files :
              i < record.file => Accounted(<<record.current.run, i>>)'
        <5> SUFFICES ASSUME NEW i \in 1..record.current.files, i < record.file
                     PROVE  Accounted(<<record.current.run, i>>)'
          OBVIOUS
        <5> DEFINE f == <<record.current.run, i>>
        <5>1. f \in Files
          BY <3>6, <4>2
        <5>2. i = job[j].file => f = File(j)
          BY <3>6 DEF File
        <5>3. i < job[j].file => Accounted(f)
          BY <2>0, <3>5, <3>6 DEF JobHonest
        <5>4. i = job[j].file \/ i < job[j].file
          BY <3>6, <4>3
        <5> HIDE DEF f
        <5>5. Accounted(f)'
          BY <3>3, <5>1, <5>2, <5>3, <5>4
        <5> QED
          BY <5>5 DEF f
      <4> QED
        BY <2>0, <3>4, <3>5, <3>6, <3>7, <4>1, <4>4 DEF JobHonest
    <3> QED
      BY <3>3, <3>4, <3>5, <3>6, <3>7, <3>8, OthersHonest
  <2>9. ASSUME FailWrite(j) \/ EndManifest(j) PROVE MarkInv'
    <3>1. PICK step : pc' = [pc EXCEPT ![j] = step] /\ JobHonest(job[j], step)
      <4>1. CASE FailWrite(j)
        BY <2>0, <4>1 DEF FailWrite, Goto, JobHonest
      <4>2. CASE EndManifest(j)
        <5>1. \A i \in 1..job[j].current.files : i < job[j].file
          BY <2>0, <4>2 DEF EndManifest, JobRecord, ManifestRecord
        <5>2. JobHonest(job[j], "next") /\ JobHonest(job[j], "mark")
          BY <2>0, <4>2, <5>1 DEF EndManifest, JobHonest
        <5> QED
          BY <4>2, <5>2 DEF EndManifest, Goto
      <4> QED
        BY <2>9, <4>1, <4>2
    <3>2. events \subseteq events'
      BY <2>9, <2>b DEF FailWrite, EndManifest, history
    <3>3. job' = [job EXCEPT ![j] = job[j]]
      BY <1>0, <2>9 DEF FailWrite, EndManifest, TypeOK
    <3> QED
      BY <2>9, <2>a, <3>1, <3>2, <3>3 DEF FailWrite, EndManifest, history
  <2>10. ASSUME MarkGet(j) PROVE MarkInv'
    <3>1. PICK runs \in {state_log, {}} :
            /\ IF runs = state_log THEN Calm ELSE Disturb("getError", TRUE)
            /\ job' = [job EXCEPT ![j].log = runs]
      BY <2>10 DEF MarkGet
    <3> DEFINE record == [job[j] EXCEPT !.log = runs]
    <3>2. job' = [job EXCEPT ![j] = record]
      BY <1>0, <3>1 DEF TypeOK, JobRecord
    <3>3. /\ record.command = job[j].command /\ record.queue = job[j].queue
          /\ record.found = job[j].found /\ record.current = job[j].current
          /\ record.file = job[j].file /\ record.log = runs
      BY <2>0 DEF JobRecord
    <3> HIDE DEF record
    <3>4. LogHonest(runs) /\ pc[j] = "mark"
      BY <2>0, <2>10 DEF LogHonest, MarkGet
    <3>5. JobHonest(record, "put")
      BY <2>0, <3>3, <3>4 DEF JobHonest
    <3>6. events \subseteq events'
      BY <3>1, <2>b
    <3> QED
      BY <2>10, <2>a, <3>2, <3>5, <3>6 DEF MarkGet, Goto
  <2>11. ASSUME MarkPut(j) PROVE MarkInv'
    <3>1. PICK record :
            /\ job' = [job EXCEPT ![j] = record]
            /\ record.command # "overwrite" /\ record.queue \subseteq record.found
            /\ record.found = job[j].found /\ record.log = {}
      <4> DEFINE r == [job[j] EXCEPT !.log = {}]
      <4>1. job' = [job EXCEPT ![j] = r]
        BY <1>0, <2>11 DEF MarkPut, TypeOK, JobRecord
      <4>2. /\ r.command # "overwrite" /\ r.queue \subseteq r.found
            /\ r.found = job[j].found /\ r.log = {}
        BY <2>0 DEF JobHonest, JobRecord
      <4> HIDE DEF r
      <4> QED
        BY <4>1, <4>2
    <3>2. PICK run : run = job[j].current.run
      OBVIOUS
    <3>3. /\ bronze' = bronze /\ silver' = silver /\ unread' = unread
          /\ refused' = refused /\ events' = events
          /\ pc' = [pc EXCEPT ![j] = "next"] /\ state_log' = job[j].log \cup {run}
          /\ pc[j] = "put"
      BY <2>11, <3>2 DEF MarkPut, Goto, history
    <3>4. JobHonest(record, "next")'
      BY <2>0, <3>1, <3>3 DEF JobHonest, LogHonest, Without
    <3>5. job[j].current \in job[j].found
      BY <2>0, <3>3 DEF JobHonest
    <3>6. /\ bronze[run].files > 0
          /\ Without({"growing"}) => job[j].current.files = bronze[run].files
      BY <2>0, <3>2, <3>5 DEF JobHonest
    <3>7. \A i \in 1..job[j].current.files : Accounted(<<run, i>>)
      BY <2>0, <3>2, <3>3 DEF JobHonest
    <3>8. LogHonest(job[j].log)
      BY <2>0 DEF JobHonest
    <3>9. LogHonest(state_log)'
      BY <3>3, <3>6, <3>7, <3>8 DEF LogHonest, Accounted, Without
    <3>10. \A f \in Files : Accounted(f) => Accounted(f)'
      BY <3>3 DEF Accounted
    <3>11. events \subseteq events'
      BY <3>3
    <3> QED
      BY <3>1, <3>3, <3>4, <3>9, <3>10, <3>11, OthersHonest
  <2>12. ASSUME Crash(j) PROVE MarkInv'
    BY <2>12, <2>b, <2>c DEF Crash
  <2> QED
    BY <1>2, <2>1, <2>2, <2>3, <2>4, <2>5, <2>6, <2>7, <2>8, <2>9, <2>10, <2>11, <2>12
    DEF JobStep, Progress
<1>3. CASE UNCHANGED vars
  BY <1>3 DEF vars, history, MarkInv, JobHonest, LogHonest, Accounted, Without
<1> QED
  BY <1>1, <1>2, <1>3 DEF Next

(* The history forgets nothing.                                            *)
LEMMA EventsStay == [Next]_vars => events \subseteq events'
<1> USE DEF Calm, Admit, Disturb
<1>1. ASSUME NEW r \in Runs, NEW n \in 1..Parts[r], Upload(r, n)
      PROVE  events \subseteq events'
  BY <1>1 DEF Upload
<1>2. ASSUME NEW j \in Jobs, JobStep(j) PROVE events \subseteq events'
  <2>1. ASSUME NEW command \in Commands, NEW force \in BOOLEAN,
               NEW from \in Days, NEW to \in Days, Start(j, command, force, from, to)
        PROVE  events \subseteq events'
    BY <2>1 DEF Start
  <2>2. CASE Load(j) \/ ListManifests(j) \/ MarkGet(j)
    BY <2>2 DEF Load, ListManifests, MarkGet
  <2>3. CASE SkipUnread(j) \/ SkipRefused(j) \/ FailWrite(j) \/ Crash(j)
    BY <2>3 DEF SkipUnread, SkipRefused, FailWrite, Crash
  <2>4. CASE \/ ListDates(j) \/ Select(j) \/ Take(j) \/ Finish(j)
             \/ WriteFile(j) \/ EndManifest(j) \/ MarkPut(j)
    BY <2>4 DEF ListDates, Select, Take, Finish, WriteFile, EndManifest, MarkPut, history
  <2> QED
    BY <1>2, <2>1, <2>2, <2>3, <2>4 DEF JobStep, Progress
<1> QED
  BY <1>1, <1>2 DEF Next, vars, history

(* Whatever crashes, fails, is lost, overlaps or is forced, the log never  *)
(* names a manifest with a file that is neither in the table nor known to  *)
(* be unreadable or refused: mark_processed runs after the last commit.    *)
THEOREM MarksAreHonest == Spec => []MarkedMeansStored
<1> DEFINE Honest == "overwrite" \in events \/ MarkInv
<1>1. Init => TypeInv /\ Honest
  BY InitType, InitHonest
<1>2. TypeInv /\ Honest /\ [Next]_vars => (TypeInv /\ Honest)'
  <2>1. [Next]_vars => events \subseteq events'
    BY EventsStay
  <2> QED
    BY <2>1, StepType, StepHonest
<1>3. TypeInv /\ Honest => MarkedMeansStored
  <2> SUFFICES ASSUME TypeInv, Honest, Without({"growing", "overwrite"}),
                      NEW r \in state_log, NEW f \in FilesOf(r)
               PROVE  Accounted(f)
    BY DEF MarkedMeansStored, Accounted
  <2>1. MarkInv /\ Without({"growing"})
    BY DEF Without
  <2>2. PICK i \in 1..bronze[r].files : f = <<r, i>>
    BY DEF FilesOf
  <2> QED
    BY <2>1, <2>2 DEF MarkInv, LogHonest
<1> HIDE DEF Honest
<1> QED
  BY <1>1, <1>2, <1>3, PTL DEF Spec

(* -------------------- no part file is stored twice -------------------- *)

Distinct(manifests) == \A m, n \in manifests : m.run = n.run => m = n

(* A job discovers every manifest once, takes it up once, and remembers    *)
(* having written only files it has gone past.                             *)
Tidy(record, step) ==
  /\ Distinct(record.found)
  /\ step = "list" => \A m \in record.found : Dt[m.run] \notin record.dates
  /\ step = "dates" \/ (step = "load" /\ record.command = "catchup") => record.found = {}
  /\ step \in {"load", "dates", "list", "select"} => record.written = {}
  /\ record.queue \subseteq record.found
  /\ step \in {"next", "work", "mark", "put"} =>
       \A f \in record.written, m \in record.queue : f[1] # m.run
  /\ step \in {"work", "mark", "put"} =>
       /\ record.current \in record.found /\ record.current \notin record.queue
       /\ \A f \in record.written :
            f[1] = record.current.run => f[2] < record.file /\ f[2] <= record.current.files

AllTidy == \A j \in Jobs : Tidy(job[j], pc[j])

Alone ==
  Without({"overlap"}) =>
    \A i, j \in Jobs : pc[i] # "idle" /\ pc[j] # "idle" => i = j

Undisturbed == Without({"overlap", "crash", "force", "getError", "writeError"})

(* Nothing a job has yet to write is in the log, and it knows the log.     *)
Fresh(record, step, runs) ==
  /\ ~record.force
  /\ step = "select" \/ (step \in {"dates", "list"} /\ record.command = "catchup") =>
       record.processed = runs
  /\ step \in {"next", "work", "mark", "put"} => \A m \in record.queue : m.run \notin runs
  /\ step \in {"work", "mark", "put"} => record.current.run \notin runs
  /\ step = "put" => record.log = runs

(* A stored file is logged, or is of the manifest a job has in hand.       *)
InHand(record, step, f) ==
  step \in {"work", "mark", "put"} /\ f[1] = record.current.run /\ f \in record.written

AllFresh ==
  /\ \A j \in Jobs : Fresh(job[j], pc[j], state_log)
  /\ \A f \in Files : silver[f] >= 1 =>
       f[1] \in state_log \/ \E j \in Jobs : InHand(job[j], pc[j], f)
  /\ \A f \in Files : silver[f] <= 1

FreshInv == Undisturbed => AllFresh

(* Where nothing but --merge and --overwrite runs: once an overwriting run *)
(* has written its first file, the files still to come are not stored.     *)
Replacing == Without({"overlap", "catchup", "append"})

Wiped(record, step, table) ==
  step = "work" /\ record.command = "overwrite" /\ record.overwritten =>
    \A f \in Files : f[1] = record.current.run /\ f[2] >= record.file => table[f] = 0

AllWiped ==
  /\ \A j \in Jobs : pc[j] # "idle" => job[j].command \in {"merge", "overwrite"}
  /\ \A j \in Jobs : Wiped(job[j], pc[j], silver)
  /\ \A f \in Files : silver[f] <= 1

WipedInv == Replacing => AllWiped

(* --------------------------- effects on a job ------------------------- *)

Elsewhere(j) == \A i \in Jobs \ {j} : pc'[i] = pc[i] /\ job'[i] = job[i]

TableAside == UNCHANGED <<state_log, silver>>

LEMMA JobType == TypeOK => \A j \in Jobs : job[j] \in JobRecord
BY DEF TypeOK

LEMMA StopEffect ==
  ASSUME TypeOK, NEW j \in Jobs, Stop(j)
  PROVE  pc'[j] = "idle" /\ job'[j] = IdleJob /\ Elsewhere(j)
BY DEF Stop, Goto, TypeOK, Elsewhere

LEMMA StartEffect ==
  ASSUME TypeOK, NEW j \in Jobs, NEW command \in Commands, NEW force \in BOOLEAN,
         NEW from \in Days, NEW to \in Days, Start(j, command, force, from, to)
  PROVE  /\ TableAside /\ Elsewhere(j) /\ pc[j] = "idle"
         /\ pc'[j] = IF command = "catchup" THEN "load" ELSE "dates"
         /\ job'[j].command = command /\ job'[j].force = force
         /\ job'[j].found = {} /\ job'[j].queue = {} /\ job'[j].written = {}
         /\ Without({"overlap"})' => \A i \in Jobs : pc[i] = "idle"
         /\ Without({"overlap", "force"})' => ~force
         /\ command # "merge" => command \in events'
<1> DEFINE record == [IdleJob EXCEPT !.command = command, !.force = force,
                                     !.from = from, !.to = to]
<1>1. /\ record.command = command /\ record.force = force
      /\ record.found = {} /\ record.queue = {} /\ record.written = {}
  BY DEF IdleJob
<1> HIDE DEF record
<1>2. job' = [job EXCEPT ![j] = record]
  BY DEF Start, record
<1>3. /\ TableAside /\ pc[j] = "idle"
      /\ pc' = [pc EXCEPT ![j] = IF command = "catchup" THEN "load" ELSE "dates"]
  BY DEF Start, Goto, TableAside
<1>4. /\ Without({"overlap"})' => \A i \in Jobs : pc[i] = "idle"
      /\ Without({"overlap", "force"})' => ~force
      /\ command # "merge" => command \in events'
  BY DEF Start, Admit, Without
<1> QED
  BY <1>1, <1>2, <1>3, <1>4 DEF TypeOK, Elsewhere

LEMMA LoadEffect ==
  ASSUME TypeOK, NEW j \in Jobs, Load(j)
  PROVE  /\ TableAside /\ Elsewhere(j) /\ pc[j] = "load"
         /\ pc'[j] = IF job[j].command = "catchup" THEN "dates" ELSE "select"
         /\ job'[j].command = job[j].command /\ job'[j].force = job[j].force
         /\ job'[j].found = job[j].found /\ job'[j].queue = job[j].queue
         /\ job'[j].written = job[j].written
         /\ job'[j].processed = state_log \/ "getError" \in events'
<1>1. PICK runs \in {state_log, {}}, d \in Days :
        /\ IF runs = state_log THEN Calm ELSE Disturb("getError", TRUE)
        /\ job' = [job EXCEPT ![j].processed = runs, ![j].from = d]
  BY DEF Load
<1>2. runs = state_log \/ "getError" \in events'
  BY <1>1 DEF Disturb
<1>3. /\ TableAside /\ pc[j] = "load"
      /\ pc' = [pc EXCEPT ![j] = IF job[j].command = "catchup" THEN "dates" ELSE "select"]
  BY DEF Load, Goto, TableAside
<1> QED
  BY <1>1, <1>2, <1>3 DEF TypeOK, JobRecord, Elsewhere

LEMMA ListDatesEffect ==
  ASSUME TypeOK, NEW j \in Jobs, ListDates(j)
  PROVE  /\ TableAside /\ Elsewhere(j) /\ pc[j] = "dates"
         /\ \/ pc'[j] = "idle" /\ job'[j] = IdleJob
            \/ /\ pc'[j] = "list"
               /\ job'[j].command = job[j].command /\ job'[j].force = job[j].force
               /\ job'[j].found = job[j].found /\ job'[j].queue = job[j].queue
               /\ job'[j].written = job[j].written /\ job'[j].processed = job[j].processed
<1>1. TableAside /\ pc[j] = "dates"
  BY DEF ListDates, TableAside
<1>2. CASE Stop(j)
  BY <1>1, <1>2, StopEffect
<1>3. ASSUME NEW dates, Goto(j, "list"),
             job' = [job EXCEPT ![j].dates = dates, ![j].from = 1, ![j].to = LastDay]
      PROVE  /\ Elsewhere(j) /\ pc'[j] = "list"
             /\ job'[j].command = job[j].command /\ job'[j].force = job[j].force
             /\ job'[j].found = job[j].found /\ job'[j].queue = job[j].queue
             /\ job'[j].written = job[j].written /\ job'[j].processed = job[j].processed
  BY <1>3 DEF Goto, TypeOK, JobRecord, Elsewhere
<1> QED
  BY <1>1, <1>2, <1>3 DEF ListDates

LEMMA ListManifestsEffect ==
  ASSUME TypeOK, NEW j \in Jobs, ListManifests(j)
  PROVE  /\ TableAside /\ Elsewhere(j) /\ pc[j] = "list"
         /\ pc'[j] \in {"list", IF job[j].command = "catchup" THEN "select" ELSE "load"}
         /\ job'[j].command = job[j].command /\ job'[j].force = job[j].force
         /\ job'[j].queue = job[j].queue
         /\ job'[j].written = job[j].written /\ job'[j].processed = job[j].processed
         /\ \E d \in job[j].dates, runs \in SUBSET Runs :
              /\ job'[j].dates = job[j].dates \ {d}
              /\ job'[j].found = job[j].found \cup {Manifest(r) : r \in runs}
              /\ \A r \in runs : Dt[r] = d
<1>1. PICK d \in job[j].dates, lost \in SUBSET Runs :
        /\ job' = [job EXCEPT ![j].dates = @ \ {d},
             ![j].found = @ \cup {Manifest(r) : r \in {q \in Published \ lost : Dt[q] = d}}]
        /\ IF job[j].dates # {d} THEN UNCHANGED pc
           ELSE Goto(j, IF job[j].command = "catchup" THEN "select" ELSE "load")
  BY DEF ListManifests, Published
<1> DEFINE runs == {q \in Published \ lost : Dt[q] = d}
           listed == {Manifest(r) : r \in runs}
           rest == job[j].dates \ {d}
           found == job[j].found \cup listed
<1>2. runs \in SUBSET Runs /\ \A r \in runs : Dt[r] = d
  BY DEF Published
<1>3. job' = [job EXCEPT ![j] = [job[j] EXCEPT !.dates = rest, !.found = found]]
  BY <1>1 DEF TypeOK, JobRecord
<1>4. TableAside /\ pc[j] = "list"
  BY DEF ListManifests, TableAside
<1>5. /\ pc'[j] \in {"list", IF job[j].command = "catchup" THEN "select" ELSE "load"}
      /\ \A i \in Jobs \ {j} : pc'[i] = pc[i]
  BY <1>1, <1>4 DEF Goto, TypeOK
<1> HIDE DEF rest, found
<1>6. /\ \A i \in Jobs \ {j} : job'[i] = job[i]
      /\ job'[j].dates = rest /\ job'[j].found = found
      /\ job'[j].command = job[j].command /\ job'[j].force = job[j].force
      /\ job'[j].queue = job[j].queue
      /\ job'[j].written = job[j].written /\ job'[j].processed = job[j].processed
  BY <1>3 DEF TypeOK, JobRecord
<1>7. job'[j].dates = job[j].dates \ {d} /\ job'[j].found = job[j].found \cup listed
  BY <1>6 DEF rest, found
<1> HIDE DEF runs
<1> QED
  BY <1>2, <1>4, <1>5, <1>6, <1>7 DEF Elsewhere

LEMMA SelectEffect ==
  ASSUME TypeOK, NEW j \in Jobs, Select(j)
  PROVE  /\ TableAside /\ Elsewhere(j) /\ pc[j] = "select" /\ pc'[j] = "next"
         /\ job'[j].command = job[j].command /\ job'[j].force = job[j].force
         /\ job'[j].found = job[j].found /\ job'[j].written = job[j].written
         /\ job'[j].queue \subseteq job[j].found
         /\ ~job[j].force => \A m \in job'[j].queue : m.run \notin job[j].processed
<1> DEFINE fresh == {m \in job[j].found : m.run \notin job[j].processed}
           queue == SelectPerDay(IF job[j].force THEN job[j].found ELSE fresh)
<1>1. queue \subseteq job[j].found /\ (~job[j].force => queue \subseteq fresh)
  BY SelectionIsFound
<1> HIDE DEF queue
<1>2. job' = [job EXCEPT ![j].queue = queue]
  BY DEF Select, queue
<1>3. TableAside /\ pc[j] = "select" /\ pc' = [pc EXCEPT ![j] = "next"]
  BY DEF Select, Goto, TableAside
<1> QED
  BY <1>1, <1>2, <1>3 DEF TypeOK, JobRecord, Elsewhere

LEMMA TakeEffect ==
  ASSUME TypeOK, NEW j \in Jobs, Take(j)
  PROVE  /\ TableAside /\ Elsewhere(j) /\ pc[j] = "next" /\ pc'[j] = "work"
         /\ job'[j].command = job[j].command /\ job'[j].force = job[j].force
         /\ job'[j].found = job[j].found /\ job'[j].written = job[j].written
         /\ job'[j].current \in job[j].queue
         /\ job'[j].queue = job[j].queue \ {job'[j].current}
         /\ job'[j].file = 1 /\ job'[j].overwritten = FALSE
<1>1. PICK m \in job[j].queue :
        job' = [job EXCEPT ![j].current = m, ![j].queue = @ \ {m}, ![j].file = 1,
                           ![j].read = FALSE, ![j].overwritten = FALSE]
  BY DEF Take
<1>2. TableAside /\ pc[j] = "next" /\ pc' = [pc EXCEPT ![j] = "work"]
  BY DEF Take, Goto, TableAside
<1> DEFINE rest == job[j].queue \ {m}
           record == [job[j] EXCEPT !.current = m, !.queue = rest, !.file = 1,
                                    !.read = FALSE, !.overwritten = FALSE]
<1>3. job' = [job EXCEPT ![j] = record]
  BY <1>1 DEF TypeOK, JobRecord
<1> HIDE DEF rest
<1>4. /\ record.command = job[j].command /\ record.force = job[j].force
      /\ record.found = job[j].found /\ record.written = job[j].written
      /\ record.current = m /\ record.queue = rest
      /\ record.file = 1 /\ record.overwritten = FALSE
  BY DEF TypeOK, JobRecord
<1> HIDE DEF record
<1> QED
  BY <1>2, <1>3, <1>4 DEF TypeOK, Elsewhere, rest

(* What a step at a part file leaves as it was.                            *)
SameManifest(j) ==
  /\ job'[j].command = job[j].command /\ job'[j].force = job[j].force
  /\ job'[j].found = job[j].found /\ job'[j].queue = job[j].queue
  /\ job'[j].current = job[j].current

LEMMA WriteEffect ==
  ASSUME TypeOK, NEW j \in Jobs, WriteFile(j)
  PROVE  /\ UNCHANGED <<state_log, pc>> /\ Elsewhere(j) /\ AtFile(j)
         /\ SameManifest(j) /\ silver' = Written(j)
         /\ job'[j].file = job[j].file + 1 /\ job'[j].overwritten = TRUE
         /\ job'[j].written = job[j].written \cup {File(j)}
<1>1. /\ UNCHANGED <<state_log, pc>> /\ AtFile(j) /\ silver' = Written(j)
      /\ job' = [job EXCEPT ![j].file = @ + 1, ![j].read = TRUE, ![j].overwritten = TRUE,
                            ![j].written = @ \cup {File(j)}]
  BY DEF WriteFile
<1> DEFINE done == job[j].written \cup {File(j)}
           record == [job[j] EXCEPT !.file = @ + 1, !.read = TRUE, !.overwritten = TRUE,
                                    !.written = done]
<1>2. job' = [job EXCEPT ![j] = record]
  BY <1>1 DEF TypeOK, JobRecord
<1> HIDE DEF done
<1>3. /\ record.command = job[j].command /\ record.force = job[j].force
      /\ record.found = job[j].found /\ record.queue = job[j].queue
      /\ record.current = job[j].current
      /\ record.file = job[j].file + 1 /\ record.overwritten = TRUE /\ record.written = done
  BY DEF TypeOK, JobRecord
<1> HIDE DEF record
<1> QED
  BY <1>1, <1>2, <1>3 DEF TypeOK, Elsewhere, SameManifest, done

LEMMA SkipEffect ==
  ASSUME TypeOK, NEW j \in Jobs, SkipUnread(j) \/ SkipRefused(j)
  PROVE  /\ TableAside /\ pc' = pc /\ Elsewhere(j) /\ AtFile(j) /\ SameManifest(j)
         /\ job'[j].file = job[j].file + 1 /\ job'[j].overwritten = job[j].overwritten
         /\ job'[j].written = job[j].written
<1>1. TableAside /\ pc' = pc /\ AtFile(j)
  BY DEF SkipUnread, SkipRefused, TableAside
<1>2. \/ job' = [job EXCEPT ![j].file = @ + 1]
      \/ job' = [job EXCEPT ![j].file = @ + 1, ![j].read = TRUE]
  BY DEF SkipUnread, SkipRefused
<1> QED
  BY <1>1, <1>2 DEF TypeOK, JobRecord, Elsewhere, SameManifest

LEMMA EndEffect ==
  ASSUME TypeOK, NEW j \in Jobs, FailWrite(j) \/ EndManifest(j)
  PROVE  /\ TableAside /\ job' = job /\ Elsewhere(j) /\ pc[j] = "work"
         /\ \/ pc'[j] = "next" /\ ("writeError" \in events' \/ ~WroteSome(j))
            \/ pc'[j] = "mark"
BY DEF FailWrite, EndManifest, AtFile, Disturb, NothingWritten, Goto, TypeOK, TableAside, Elsewhere

LEMMA MarkGetEffect ==
  ASSUME TypeOK, NEW j \in Jobs, MarkGet(j)
  PROVE  /\ TableAside /\ Elsewhere(j) /\ pc[j] = "mark" /\ pc'[j] = "put"
         /\ SameManifest(j) /\ job'[j].file = job[j].file
         /\ job'[j].written = job[j].written
         /\ job'[j].log = state_log \/ "getError" \in events'
<1>1. PICK runs \in {state_log, {}} :
        /\ IF runs = state_log THEN Calm ELSE Disturb("getError", TRUE)
        /\ job' = [job EXCEPT ![j].log = runs]
  BY DEF MarkGet
<1>2. TableAside /\ pc[j] = "mark" /\ pc' = [pc EXCEPT ![j] = "put"]
  BY DEF MarkGet, Goto, TableAside
<1>3. runs = state_log \/ "getError" \in events'
  BY <1>1 DEF Disturb
<1> QED
  BY <1>1, <1>2, <1>3 DEF TypeOK, JobRecord, Elsewhere, SameManifest

LEMMA MarkPutEffect ==
  ASSUME TypeOK, NEW j \in Jobs, MarkPut(j)
  PROVE  /\ silver' = silver /\ state_log' = job[j].log \cup {job[j].current.run}
         /\ Elsewhere(j) /\ pc[j] = "put" /\ pc'[j] = "next"
         /\ SameManifest(j) /\ job'[j].written = job[j].written
BY DEF MarkPut, Goto, TypeOK, JobRecord, Elsewhere, SameManifest

LEMMA CrashEffect ==
  ASSUME TypeOK, NEW j \in Jobs, Crash(j)
  PROVE  /\ TableAside /\ Elsewhere(j) /\ pc'[j] = "idle" /\ job'[j] = IdleJob
         /\ \/ "crash" \in events'
            \/ pc[j] \notin {"work", "mark", "put"}
            \/ ~WroteSome(j)
BY StopEffect DEF Crash, Disturb, TableAside

LEMMA FinishEffect ==
  ASSUME TypeOK, NEW j \in Jobs, Finish(j)
  PROVE  TableAside /\ Elsewhere(j) /\ pc[j] = "next" /\ pc'[j] = "idle" /\ job'[j] = IdleJob
BY StopEffect DEF Finish, TableAside

LEMMA IdleFields ==
  /\ IdleJob.found = {} /\ IdleJob.queue = {} /\ IdleJob.written = {}
  /\ IdleJob.force = FALSE /\ IdleJob.command = "catchup"
BY DEF IdleJob

LEMMA IdleTidy == Tidy(IdleJob, "idle")
BY IdleFields DEF Tidy, Distinct

LEMMA InitTidy == Init => AllTidy
<1> SUFFICES ASSUME Init, NEW j \in Jobs PROVE Tidy(job[j], pc[j])
  BY DEF AllTidy
<1>1. job[j] = IdleJob /\ pc[j] = "idle"
  BY DEF Init
<1> QED
  BY <1>1, IdleTidy

(* A step of a job is described by what it does to that job.               *)
LEMMA JobStepTidy ==
  ASSUME TypeInv, AllTidy, NEW j \in Jobs, JobStep(j)
  PROVE  Tidy(job'[j], pc'[j]) /\ Elsewhere(j)
<1> TypeOK /\ Tidy(job[j], pc[j]) /\ job[j] \in JobRecord
  BY JobType DEF TypeInv, AllTidy
<1>1. ASSUME NEW command \in Commands, NEW force \in BOOLEAN,
             NEW from \in Days, NEW to \in Days, Start(j, command, force, from, to)
      PROVE  Tidy(job'[j], pc'[j]) /\ Elsewhere(j)
  BY <1>1, StartEffect DEF Tidy, Distinct
<1>2. CASE Load(j)
  BY <1>2, LoadEffect DEF Tidy, Distinct
<1>3. CASE ListDates(j)
  <2>1. CASE pc'[j] = "idle" /\ job'[j] = IdleJob
    BY <1>3, <2>1, ListDatesEffect, IdleTidy
  <2>2. CASE pc'[j] # "idle"
    BY <1>3, <2>2, ListDatesEffect DEF Tidy, Distinct
  <2> QED
    BY <1>3, <2>1, <2>2, ListDatesEffect
<1>4. CASE ListManifests(j)
  <2>1. PICK d \in job[j].dates, runs \in SUBSET Runs :
           /\ job'[j].dates = job[j].dates \ {d}
           /\ job'[j].found = job[j].found \cup {Manifest(r) : r \in runs}
           /\ \A r \in runs : Dt[r] = d
    BY <1>4, ListManifestsEffect
  <2>2. \A r \in Runs : Manifest(r).run = r
    BY DEF Manifest
  <2>3. \A m \in job[j].found : Dt[m.run] # d
    BY <1>4, ListManifestsEffect DEF Tidy
  <2>4. \A m \in job'[j].found : m \in job[j].found \/ \E r \in runs : m = Manifest(r)
    BY <2>1
  <2>5. Distinct(job'[j].found)
    BY <2>1, <2>2, <2>3, <2>4 DEF Tidy, Distinct
  <2>6. \A m \in job'[j].found : Dt[m.run] \notin job'[j].dates
    BY <1>4, <2>1, <2>2, <2>4, ListManifestsEffect DEF Tidy
  <2>7. job'[j].queue \subseteq job'[j].found
    BY <1>4, <2>1, ListManifestsEffect DEF Tidy
  <2> QED
    BY <1>4, <2>5, <2>6, <2>7, ListManifestsEffect DEF Tidy
<1>5. CASE Select(j)
  BY <1>5, SelectEffect DEF Tidy
<1>6. CASE Take(j)
  <2>0. /\ job'[j].written = job[j].written /\ job'[j].found = job[j].found
        /\ job'[j].current \in job[j].queue /\ pc[j] = "next" /\ pc'[j] = "work"
        /\ job'[j].queue = job[j].queue \ {job'[j].current}
    BY <1>6, TakeEffect
  <2>1. job'[j].current \in job[j].found
    BY <1>6, TakeEffect DEF Tidy
  <2>2. \A m \in job'[j].queue : m \in job[j].queue /\ m.run # job'[j].current.run
    BY <1>6, <2>1, TakeEffect DEF Tidy, Distinct
  <2>3. \A f \in job[j].written, m \in job[j].queue : f[1] # m.run
    BY <2>0 DEF Tidy
  <2>4. \A f \in job'[j].written : f[1] # job'[j].current.run
    BY <2>0, <2>3
  <2>5. \A f \in job'[j].written, m \in job'[j].queue : f[1] # m.run
    BY <2>0, <2>3
  <2>6. Distinct(job'[j].found) /\ job'[j].queue \subseteq job'[j].found
    BY <2>0 DEF Tidy
  <2>7. /\ job'[j].current \in job'[j].found /\ job'[j].current \notin job'[j].queue
        /\ \A f \in job'[j].written : f[1] = job'[j].current.run =>
             f[2] < job'[j].file /\ f[2] <= job'[j].current.files
    BY <2>0, <2>1, <2>4

  <2> QED
    BY <1>6, <2>0, <2>5, <2>6, <2>7, TakeEffect DEF Tidy
<1>7. CASE WriteFile(j)
  <2>1. /\ job[j].file \in Nat /\ job[j].current.files \in Nat
        /\ \A f \in Files : f[2] \in Int
    BY SilverAssumption DEF JobRecord, ManifestRecord, Files
  <2>2. \A m \in job[j].queue : m.run # job[j].current.run
    BY <1>7, WriteEffect DEF Tidy, Distinct, AtFile
  <2>3. job[j].written \subseteq Files
    BY DEF JobRecord
  <2>4. \A f \in job'[j].written :
           f \in job[j].written \/ (f[1] = job[j].current.run /\ f[2] = job[j].file)
    <3>1. job'[j].written = job[j].written \cup {File(j)}
      BY <1>7, WriteEffect
    <3>2. File(j)[1] = job[j].current.run /\ File(j)[2] = job[j].file
      BY DEF File
    <3> QED
      BY <3>1, <3>2
  <2>5. \A f \in job'[j].written : f[1] = job[j].current.run =>
           f[2] < job[j].file + 1 /\ f[2] <= job[j].current.files
    <3> SUFFICES ASSUME NEW f \in job'[j].written, f[1] = job[j].current.run
                 PROVE  f[2] < job[j].file + 1 /\ f[2] <= job[j].current.files
      OBVIOUS
    <3>1. CASE f \in job[j].written
      <4>1. f[2] < job[j].file /\ f[2] <= job[j].current.files
        BY <1>7, <3>1, WriteEffect DEF Tidy, AtFile
      <4> QED
        BY <2>1, <2>3, <3>1, <4>1
    <3>2. CASE f[2] = job[j].file
      <4>1. job[j].file <= job[j].current.files
        BY <1>7, WriteEffect DEF AtFile
      <4> QED
        BY <2>1, <3>2, <4>1
    <3> QED
      BY <2>4, <3>1, <3>2
  <2>6. \A f \in job'[j].written, m \in job[j].queue : f[1] # m.run
    BY <1>7, <2>2, <2>4, WriteEffect DEF Tidy, AtFile
  <2> QED
    BY <1>7, <2>5, <2>6, WriteEffect DEF Tidy, AtFile, SameManifest
<1>8. CASE SkipUnread(j) \/ SkipRefused(j)
  <2>1. job[j].file \in Nat /\ \A f \in job[j].written : f[2] \in Int
    BY SilverAssumption DEF JobRecord, Files
  <2>2. \A f \in job[j].written : f[1] = job[j].current.run =>
           f[2] < job[j].file + 1 /\ f[2] <= job[j].current.files
    BY <1>8, <2>1, SkipEffect DEF Tidy, AtFile
  <2> QED
    BY <1>8, <2>2, SkipEffect DEF Tidy, AtFile, SameManifest
<1>9. CASE FailWrite(j) \/ EndManifest(j)
  BY <1>9, EndEffect DEF Tidy
<1>10. CASE MarkGet(j)
  BY <1>10, MarkGetEffect DEF Tidy, SameManifest
<1>11. CASE MarkPut(j)
  BY <1>11, MarkPutEffect DEF Tidy, SameManifest
<1>12. CASE Crash(j) \/ Finish(j)
  BY <1>12, CrashEffect, FinishEffect, IdleTidy
<1> QED
  BY <1>1, <1>2, <1>3, <1>4, <1>5, <1>6, <1>7, <1>8, <1>9, <1>10, <1>11, <1>12
  DEF JobStep, Progress

LEMMA StepTidy == TypeInv /\ AllTidy /\ [Next]_vars => AllTidy'
<1> SUFFICES ASSUME TypeInv, AllTidy, [Next]_vars PROVE AllTidy'
  OBVIOUS
<1>1. CASE (\E r \in Runs : \E n \in 1..Parts[r] : Upload(r, n)) \/ UNCHANGED vars
  BY <1>1 DEF Upload, vars, AllTidy
<1>2. ASSUME NEW j \in Jobs, JobStep(j) PROVE AllTidy'
  BY <1>2, JobStepTidy DEF AllTidy, Elsewhere
<1> QED
  BY <1>1, <1>2 DEF Next

(* Without "overlap" a run starts only where no other is.                  *)
LEMMA WithoutStays ==
  ASSUME NEW kinds, events \subseteq events', Without(kinds)'
  PROVE  Without(kinds)
BY DEF Without

LEMMA InitAlone == Init => Alone
BY DEF Init, Alone

LEMMA StepAlone == TypeInv /\ AllTidy /\ Alone /\ [Next]_vars => Alone'
<1> SUFFICES ASSUME TypeInv, AllTidy, Alone, [Next]_vars, Without({"overlap"})',
                    NEW i \in Jobs, NEW k \in Jobs, pc'[i] # "idle", pc'[k] # "idle"
             PROVE  i = k
  BY DEF Alone
<1>0. Without({"overlap"}) /\ \A l, m \in Jobs : pc[l] # "idle" /\ pc[m] # "idle" => l = m
  BY EventsStay, WithoutStays DEF Alone
<1>1. CASE (\E r \in Runs : \E n \in 1..Parts[r] : Upload(r, n)) \/ UNCHANGED vars
  BY <1>0, <1>1 DEF Upload, vars
<1>2. ASSUME NEW j \in Jobs, JobStep(j) PROVE i = k
  <2> TypeOK
    BY DEF TypeInv
  <2>1. Elsewhere(j)
    BY <1>2, JobStepTidy
  <2>2. \/ pc[j] # "idle"
        \/ \A l \in Jobs : pc[l] = "idle"
    <3>1. ASSUME NEW command \in Commands, NEW force \in BOOLEAN,
                 NEW from \in Days, NEW to \in Days, Start(j, command, force, from, to)
          PROVE  \A l \in Jobs : pc[l] = "idle"
      BY <3>1, StartEffect
    <3>2. CASE Progress(j) \/ SkipUnread(j) \/ SkipRefused(j) \/ FailWrite(j) \/ Crash(j)
      BY <3>2 DEF Progress, SkipUnread, SkipRefused, FailWrite, Crash, Load, ListDates,
         ListManifests, Select, Take, Finish, WriteFile, EndManifest, MarkGet, MarkPut, AtFile
    <3> QED
      BY <1>2, <3>1, <3>2 DEF JobStep
  <2> QED
    BY <1>0, <2>1, <2>2 DEF Elsewhere
<1> QED
  BY <1>1, <1>2 DEF Next

(* Where runs do not overlap, every other job is idle.                     *)
LEMMA OthersIdle ==
  ASSUME TypeInv, AllTidy, Alone, events \subseteq events', Without({"overlap"})',
         NEW j \in Jobs, JobStep(j), NEW i \in Jobs, i # j
  PROVE  pc[i] = "idle" /\ pc'[i] = "idle"
<1> TypeOK
  BY DEF TypeInv
<1>1. Elsewhere(j)
  BY JobStepTidy
<1>2. pc[j] # "idle" \/ \A l \in Jobs : pc[l] = "idle"
  <2>1. ASSUME NEW command \in Commands, NEW force \in BOOLEAN,
               NEW from \in Days, NEW to \in Days, Start(j, command, force, from, to)
        PROVE  \A l \in Jobs : pc[l] = "idle"
    BY <2>1, StartEffect
  <2>2. CASE Progress(j) \/ SkipUnread(j) \/ SkipRefused(j) \/ FailWrite(j) \/ Crash(j)
    BY <2>2 DEF Progress, SkipUnread, SkipRefused, FailWrite, Crash, Load, ListDates,
       ListManifests, Select, Take, Finish, WriteFile, EndManifest, MarkGet, MarkPut, AtFile
  <2> QED
    BY <2>1, <2>2 DEF JobStep
<1>3. Without({"overlap"})
  BY WithoutStays
<1> QED
  BY <1>1, <1>2, <1>3 DEF Alone, Elsewhere

(* A job with a file in hand has written some.                             *)
LEMMA InHandWrote ==
  ASSUME TypeOK, NEW j \in Jobs, Tidy(job[j], pc[j]), NEW f \in Files,
         InHand(job[j], pc[j], f)
  PROVE  WroteSome(j)
<1>0. PICK r \in Runs : f \in {r} \X (1..Parts[r])
  BY DEF Files
<1>1. PICK i \in 1..Parts[r] : f = <<r, i>>
  BY <1>0
<1>2. r = job[j].current.run /\ i <= job[j].current.files
  BY <1>1 DEF InHand, Tidy
<1>3. job[j].current.files \in Nat
  BY JobType DEF JobRecord, ManifestRecord
<1>4. i \in 1..job[j].current.files
  BY <1>2, <1>3, SilverAssumption
<1> QED
  BY <1>1, <1>2, <1>4 DEF WroteSome, InHand

(* The chunk about to be written is not in the table.                      *)
LEMMA NextIsMissing ==
  ASSUME TypeInv, AllTidy, AllFresh, NEW j \in Jobs, AtFile(j),
         \A i \in Jobs : i # j => pc[i] = "idle"
  PROVE  File(j) \in Files /\ silver[File(j)] = 0
<1> TypeOK /\ Tidy(job[j], pc[j]) /\ Fresh(job[j], pc[j], state_log)
  BY DEF TypeInv, AllTidy, AllFresh
<1>1. File(j) \in Files
  BY FileType DEF TypeInv, HeldParts
<1>2. File(j)[1] = job[j].current.run /\ File(j)[2] = job[j].file
  BY DEF File
<1>3. job[j].file \in Nat
  BY JobType DEF JobRecord
<1>4. pc[j] = "work"
  BY DEF AtFile
<1>5. File(j)[1] \notin state_log
  BY <1>2, <1>4 DEF Fresh
<1>6. ~InHand(job[j], pc[j], File(j))
  BY <1>2, <1>3, <1>4 DEF InHand, Tidy
<1>7. \A i \in Jobs : i # j => ~InHand(job[i], pc[i], File(j))
  BY DEF InHand
<1>8. ~(silver[File(j)] >= 1)
  BY <1>1, <1>5, <1>6, <1>7 DEF AllFresh
<1>9. silver[File(j)] \in Nat
  BY <1>1 DEF TypeOK
<1> QED
  BY <1>1, <1>8, <1>9

(* A step keeps the table fresh if it keeps what the job has in hand.      *)
LEMMA KeepFresh ==
  ASSUME TypeOK, AllFresh, NEW j \in Jobs, TableAside, Elsewhere(j),
         \A i \in Jobs : i # j => pc[i] = "idle",
         Fresh(job'[j], pc'[j], state_log'),
         \A f \in Files : InHand(job[j], pc[j], f) => InHand(job'[j], pc'[j], f)
  PROVE  AllFresh'
<1>1. \A i \in Jobs : i # j => Fresh(job'[i], pc'[i], state_log')
  BY DEF AllFresh, Elsewhere, Fresh
<1>2. \A i \in Jobs : i # j => \A f : ~InHand(job[i], pc[i], f)
  BY DEF InHand
<1>3. state_log' = state_log /\ silver' = silver
  BY DEF TableAside
<1>4. \A f \in Files : silver[f] >= 1 =>
         f[1] \in state_log \/ InHand(job'[j], pc'[j], f)
  BY <1>2 DEF AllFresh
<1>5. \A f \in Files : silver'[f] >= 1 =>
         f[1] \in state_log' \/ \E i \in Jobs : InHand(job'[i], pc'[i], f)
  BY <1>3, <1>4
<1>6. \A i \in Jobs : Fresh(job'[i], pc'[i], state_log')
  BY <1>1
<1> QED
  BY <1>3, <1>5, <1>6 DEF AllFresh, InHand

LEMMA JobStepFresh ==
  ASSUME TypeInv, AllTidy, Alone, AllFresh, events \subseteq events', Undisturbed',
         NEW j \in Jobs, JobStep(j)
  PROVE  AllFresh'
<1> TypeOK /\ Tidy(job[j], pc[j]) /\ Fresh(job[j], pc[j], state_log) /\ job[j] \in JobRecord
  BY JobType DEF TypeInv, AllTidy, AllFresh
<1>a. /\ Without({"overlap"})' /\ Without({"overlap", "force"})'
      /\ {"getError", "crash", "writeError"} \cap events' = {}
  BY DEF Undisturbed, Without
<1>b. \A i \in Jobs : i # j => pc[i] = "idle" /\ pc'[i] = "idle"
  BY <1>a, OthersIdle
<1>c. Elsewhere(j)
  BY JobStepTidy
<1>d. TableAside => state_log' = state_log
  BY DEF TableAside
<1>i. Fresh(IdleJob, "idle", state_log')
  BY IdleFields DEF Fresh
<1>k. ASSUME TableAside, Fresh(job'[j], pc'[j], state_log'),
             \A f \in Files : InHand(job[j], pc[j], f) => InHand(job'[j], pc'[j], f)
      PROVE  AllFresh'
  BY <1>b, <1>c, <1>k, KeepFresh
<1>1. ASSUME NEW command \in Commands, NEW force \in BOOLEAN,
             NEW from \in Days, NEW to \in Days, Start(j, command, force, from, to)
      PROVE  AllFresh'
  <2>1. Fresh(job'[j], pc'[j], state_log')
    BY <1>1, <1>a, StartEffect DEF Fresh
  <2>2. TableAside /\ \A f \in Files : ~InHand(job[j], pc[j], f)
    BY <1>1, StartEffect DEF InHand
  <2> QED
    BY <1>k, <2>1, <2>2
<1>2. CASE Load(j)
  <2>1. Fresh(job'[j], pc'[j], state_log')
    BY <1>2, <1>a, <1>d, LoadEffect DEF Fresh
  <2>2. TableAside /\ \A f \in Files : ~InHand(job[j], pc[j], f)
    BY <1>2, LoadEffect DEF InHand
  <2> QED
    BY <1>k, <2>1, <2>2
<1>3. CASE ListDates(j)
  <2>1. Fresh(job'[j], pc'[j], state_log')
    BY <1>3, <1>d, <1>i, ListDatesEffect DEF Fresh
  <2>2. TableAside /\ \A f \in Files : ~InHand(job[j], pc[j], f)
    BY <1>3, ListDatesEffect DEF InHand
  <2> QED
    BY <1>k, <2>1, <2>2
<1>4. CASE ListManifests(j)
  <2>1. Fresh(job'[j], pc'[j], state_log')
    BY <1>4, <1>d, ListManifestsEffect DEF Fresh
  <2>2. TableAside /\ \A f \in Files : ~InHand(job[j], pc[j], f)
    BY <1>4, ListManifestsEffect DEF InHand
  <2> QED
    BY <1>k, <2>1, <2>2
<1>5. CASE Select(j)
  <2>1. Fresh(job'[j], pc'[j], state_log')
    BY <1>5, <1>d, SelectEffect DEF Fresh
  <2>2. TableAside /\ \A f \in Files : ~InHand(job[j], pc[j], f)
    BY <1>5, SelectEffect DEF InHand
  <2> QED
    BY <1>k, <2>1, <2>2
<1>6. CASE Take(j)
  <2>1. Fresh(job'[j], pc'[j], state_log')
    BY <1>6, <1>d, TakeEffect DEF Fresh
  <2>2. TableAside /\ \A f \in Files : ~InHand(job[j], pc[j], f)
    BY <1>6, TakeEffect DEF InHand
  <2> QED
    BY <1>k, <2>1, <2>2
<1>7. CASE WriteFile(j)
  <2>0. pc[j] = "work" /\ pc' = pc /\ state_log' = state_log /\ silver' = Written(j)
    BY <1>7, WriteEffect DEF AtFile
  <2>1. File(j) \in Files /\ silver[File(j)] = 0
    BY <1>7, <1>b, WriteEffect, NextIsMissing
  <2>2. \A f \in Files : silver'[f] = (IF f = File(j) THEN 1 ELSE silver'[f])
        /\ (f # File(j) => silver'[f] <= silver[f])
    <3>1. CASE job[j].command = "overwrite" /\ ~job[j].overwritten
      BY <2>0, <3>1 DEF Written, TypeOK
    <3>2. CASE job[j].command = "merge"
      BY <2>0, <2>1, <3>2 DEF Written, TypeOK
    <3>3. CASE ~(job[j].command = "overwrite" /\ ~job[j].overwritten)
               /\ job[j].command # "merge"
      BY <2>0, <2>1, <3>3 DEF Written, TypeOK
    <3> QED
      BY <3>1, <3>2, <3>3
  <2>3. \A f \in Files : silver'[f] \in Nat /\ silver[f] \in Nat
    BY <2>0, <2>1, WrittenType DEF TypeOK
  <2>4. \A i \in Jobs : Fresh(job'[i], pc'[i], state_log')
    <3>1. Fresh(job'[j], pc'[j], state_log')
      BY <1>7, <2>0, WriteEffect DEF Fresh, SameManifest
    <3> QED
      BY <1>b, <1>c, <3>1 DEF AllFresh, Elsewhere, Fresh
  <2>5. \A f \in Files : silver'[f] <= 1
    BY <2>2, <2>3 DEF AllFresh
  <2>6. job'[j].written = job[j].written \cup {File(j)} /\ job'[j].current = job[j].current
    BY <1>7, WriteEffect DEF SameManifest
  <2>7. File(j)[1] = job[j].current.run
    BY DEF File
  <2>8. \A f \in Files : silver'[f] >= 1 => f[1] \in state_log \/ InHand(job'[j], pc'[j], f)
    <3> SUFFICES ASSUME NEW f \in Files, silver'[f] >= 1, f[1] \notin state_log
                 PROVE  InHand(job'[j], pc'[j], f)
      OBVIOUS
    <3>1. CASE f = File(j)
      BY <2>0, <2>6, <2>7, <3>1 DEF InHand
    <3>2. CASE f # File(j)
      <4>1. silver[f] >= 1
        BY <2>2, <2>3, <3>2
      <4>2. InHand(job[j], pc[j], f)
        BY <1>b, <4>1 DEF AllFresh, InHand
      <4> QED
        BY <2>0, <2>6, <4>2 DEF InHand
    <3> QED
      BY <3>1, <3>2
  <2> QED
    BY <2>0, <2>4, <2>5, <2>8 DEF AllFresh, InHand
<1>8. CASE SkipUnread(j) \/ SkipRefused(j)
  <2>1. Fresh(job'[j], pc'[j], state_log')
    BY <1>8, <1>d, SkipEffect DEF Fresh, SameManifest, AtFile
  <2>2. TableAside /\ \A f \in Files : InHand(job[j], pc[j], f) => InHand(job'[j], pc'[j], f)
    BY <1>8, SkipEffect DEF InHand, SameManifest
  <2> QED
    BY <1>k, <2>1, <2>2
<1>9. CASE FailWrite(j) \/ EndManifest(j)
  <2>1. Fresh(job'[j], pc'[j], state_log')
    BY <1>9, <1>d, EndEffect DEF Fresh
  <2>2. TableAside /\ \A f \in Files : InHand(job[j], pc[j], f) => InHand(job'[j], pc'[j], f)
    BY <1>9, <1>a, EndEffect, InHandWrote DEF InHand
  <2> QED
    BY <1>k, <2>1, <2>2
<1>10. CASE MarkGet(j)
  <2>1. Fresh(job'[j], pc'[j], state_log')
    BY <1>10, <1>a, <1>d, MarkGetEffect DEF Fresh, SameManifest
  <2>2. TableAside /\ \A f \in Files : InHand(job[j], pc[j], f) => InHand(job'[j], pc'[j], f)
    BY <1>10, MarkGetEffect DEF InHand, SameManifest
  <2> QED
    BY <1>k, <2>1, <2>2
<1>11. CASE MarkPut(j)
  <2>1. /\ silver' = silver /\ state_log' = state_log \cup {job[j].current.run}
        /\ pc[j] = "put" /\ pc'[j] = "next" /\ SameManifest(j)
    BY <1>11, MarkPutEffect DEF Fresh
  <2>2. \A m \in job[j].queue : m.run # job[j].current.run
    BY <2>1 DEF Tidy, Distinct
  <2>3. Fresh(job'[j], pc'[j], state_log')
    BY <2>1, <2>2 DEF Fresh, SameManifest
  <2>4. \A i \in Jobs : Fresh(job'[i], pc'[i], state_log')
    BY <1>b, <1>c, <2>3 DEF AllFresh, Elsewhere, Fresh
  <2>5. \A f \in Files : silver'[f] >= 1 => f[1] \in state_log'
    BY <1>b, <2>1 DEF AllFresh, InHand
  <2> QED
    BY <2>1, <2>4, <2>5 DEF AllFresh
<1>12. CASE Crash(j) \/ Finish(j)
  <2>1. Fresh(job'[j], pc'[j], state_log')
    BY <1>12, <1>d, <1>i, CrashEffect, FinishEffect
  <2>2. TableAside /\ \A f \in Files : ~InHand(job[j], pc[j], f)
    BY <1>12, <1>a, CrashEffect, FinishEffect, InHandWrote DEF InHand
  <2> QED
    BY <1>k, <2>1, <2>2
<1> QED
  BY <1>1, <1>2, <1>3, <1>4, <1>5, <1>6, <1>7, <1>8, <1>9, <1>10, <1>11, <1>12
  DEF JobStep, Progress

LEMMA InitFresh == Init => FreshInv
<1> SUFFICES ASSUME Init PROVE AllFresh
  BY DEF FreshInv
<1>1. \A j \in Jobs : job[j] = IdleJob /\ pc[j] = "idle"
  BY DEF Init
<1>2. \A f \in Files : silver[f] = 0
  BY DEF Init
<1> QED
  BY <1>1, <1>2, IdleFields DEF AllFresh, Fresh

LEMMA StepFresh ==
  TypeInv /\ AllTidy /\ Alone /\ FreshInv /\ [Next]_vars => FreshInv'
<1> SUFFICES ASSUME TypeInv, AllTidy, Alone, FreshInv, [Next]_vars, Undisturbed'
             PROVE  AllFresh'
  BY DEF FreshInv
<1>1. events \subseteq events'
  BY EventsStay
<1>2. AllFresh
  BY <1>1 DEF FreshInv, Undisturbed, Without
<1>3. CASE (\E r \in Runs : \E n \in 1..Parts[r] : Upload(r, n)) \/ UNCHANGED vars
  <2>1. UNCHANGED <<state_log, silver, pc, job>>
    BY <1>3 DEF Upload, vars
  <2> QED
    BY <1>2, <2>1 DEF AllFresh
<1>4. ASSUME NEW j \in Jobs, JobStep(j) PROVE AllFresh'
  BY <1>1, <1>2, <1>4, JobStepFresh
<1> QED
  BY <1>3, <1>4 DEF Next

(* A step that writes nothing keeps what an overwriting run has wiped.     *)
LEMMA KeepWiped ==
  ASSUME TypeOK, AllWiped, NEW j \in Jobs, Elsewhere(j), silver' = silver,
         \A i \in Jobs : i # j => pc[i] = "idle",
         pc'[j] # "idle" => job'[j].command \in {"merge", "overwrite"},
         Wiped(job'[j], pc'[j], silver)
  PROVE  AllWiped'
<1>1. \A i \in Jobs : i # j => pc'[i] = "idle"
  BY DEF Elsewhere
<1>2. \A i \in Jobs : Wiped(job'[i], pc'[i], silver')
  BY <1>1 DEF Wiped
<1>3. \A i \in Jobs : pc'[i] # "idle" => job'[i].command \in {"merge", "overwrite"}
  BY <1>1
<1> QED
  BY <1>2, <1>3 DEF AllWiped

LEMMA JobStepWiped ==
  ASSUME TypeInv, AllTidy, Alone, AllWiped, events \subseteq events', Replacing',
         NEW j \in Jobs, JobStep(j)
  PROVE  AllWiped'
<1> TypeOK /\ job[j] \in JobRecord /\ Wiped(job[j], pc[j], silver)
  BY JobType DEF TypeInv, AllWiped
<1>a. Without({"overlap"})' /\ "catchup" \notin events' /\ "append" \notin events'
  BY DEF Replacing, Without
<1>b. \A i \in Jobs : i # j => pc[i] = "idle" /\ pc'[i] = "idle"
  BY <1>a, OthersIdle
<1>c. Elsewhere(j)
  BY JobStepTidy
<1>d. pc[j] # "idle" => job[j].command \in {"merge", "overwrite"}
  BY DEF AllWiped
<1>k. ASSUME silver' = silver,
             pc'[j] # "idle" => job'[j].command \in {"merge", "overwrite"},
             Wiped(job'[j], pc'[j], silver)
      PROVE  AllWiped'
  BY <1>b, <1>c, <1>k, KeepWiped
<1>1. ASSUME NEW command \in Commands, NEW force \in BOOLEAN,
             NEW from \in Days, NEW to \in Days, Start(j, command, force, from, to)
      PROVE  AllWiped'
  <2>1. command \in {"merge", "overwrite"}
    BY <1>1, <1>a, StartEffect, SilverAssumption DEF CommandNames
  <2>2. Wiped(job'[j], pc'[j], silver) /\ silver' = silver
    BY <1>1, StartEffect DEF Wiped, TableAside
  <2> QED
    BY <1>1, <1>k, <2>1, <2>2, StartEffect
<1>2. CASE \/ Load(j) \/ ListDates(j) \/ ListManifests(j) \/ Select(j)
           \/ MarkGet(j) \/ MarkPut(j) \/ Crash(j) \/ Finish(j)
           \/ FailWrite(j) \/ EndManifest(j)
  <2>1. pc'[j] # "work" /\ silver' = silver
    BY <1>2, LoadEffect, ListDatesEffect, ListManifestsEffect, SelectEffect, MarkGetEffect,
       MarkPutEffect, CrashEffect, FinishEffect, EndEffect DEF TableAside
  <2>2. pc'[j] # "idle" => pc[j] # "idle" /\ job'[j].command = job[j].command
    BY <1>2, LoadEffect, ListDatesEffect, ListManifestsEffect, SelectEffect, MarkGetEffect,
       MarkPutEffect, CrashEffect, FinishEffect, EndEffect DEF SameManifest
  <2> QED
    BY <1>d, <1>k, <2>1, <2>2 DEF Wiped
<1>3. CASE Take(j)
  BY <1>3, <1>d, <1>k, TakeEffect DEF Wiped, TableAside
<1>4. CASE SkipUnread(j) \/ SkipRefused(j)
  <2>1. /\ pc'[j] = pc[j] /\ pc[j] = "work" /\ silver' = silver
        /\ job'[j].command = job[j].command /\ job'[j].current = job[j].current
        /\ job'[j].file = job[j].file + 1 /\ job'[j].overwritten = job[j].overwritten
    BY <1>4, SkipEffect DEF TableAside, SameManifest, AtFile
  <2>2. job[j].file \in Nat /\ \A f \in Files : f[2] \in Nat
    BY SilverAssumption DEF JobRecord, Files
  <2>3. Wiped(job'[j], pc'[j], silver)
    BY <2>1, <2>2 DEF Wiped
  <2> QED
    BY <1>d, <1>k, <2>1, <2>3
<1>5. CASE WriteFile(j)
  <2>1. /\ pc' = pc /\ pc[j] = "work" /\ silver' = Written(j)
        /\ job'[j].command = job[j].command /\ job'[j].current = job[j].current
        /\ job'[j].file = job[j].file + 1 /\ job'[j].overwritten = TRUE
    BY <1>5, WriteEffect DEF SameManifest, AtFile
  <2>2. job[j].file \in Nat /\ \A f \in Files : f[2] \in Nat
    BY SilverAssumption DEF JobRecord, Files
  <2>3. File(j)[1] = job[j].current.run /\ File(j)[2] = job[j].file
    BY DEF File
  <2>4. File(j) \in Files
    BY <1>5, WriteEffect, FileType DEF TypeInv, HeldParts
  <2>5. \A f \in Files : silver[f] \in Nat /\ silver[f] <= 1
    BY DEF TypeOK, AllWiped
  <2>6. job[j].command = "overwrite" /\ job[j].overwritten => silver[File(j)] = 0
    BY <2>1, <2>2, <2>3, <2>4 DEF Wiped
  <2>7. \A f \in Files : silver'[f] <= 1
    <3>1. CASE job[j].command = "overwrite" /\ ~job[j].overwritten
      BY <2>1, <3>1 DEF Written, TypeOK
    <3>2. CASE job[j].command = "merge"
      BY <2>1, <2>4, <2>5, <3>2 DEF Written, TypeOK
    <3>3. CASE job[j].command = "overwrite" /\ job[j].overwritten
      BY <2>1, <2>4, <2>5, <2>6, <3>3 DEF Written, TypeOK
    <3> QED
      BY <1>d, <2>1, <3>1, <3>2, <3>3
  <2>8. Wiped(job'[j], pc'[j], silver')
    <3> SUFFICES ASSUME job[j].command = "overwrite", NEW f \in Files,
                        f[1] = job[j].current.run, f[2] >= job[j].file + 1
                 PROVE  silver'[f] = 0
      BY <2>1 DEF Wiped
    <3>1. f # File(j)
      BY <2>2, <2>3
    <3>2. CASE ~job[j].overwritten
      BY <2>1, <3>1, <3>2 DEF Written, TypeOK
    <3>3. CASE job[j].overwritten
      <4>1. silver[f] = 0
        BY <2>1, <2>2, <3>3 DEF Wiped
      <4> QED
        BY <2>1, <3>1, <3>3, <4>1 DEF Written, TypeOK
    <3> QED
      BY <3>2, <3>3
  <2>9. \A i \in Jobs : Wiped(job'[i], pc'[i], silver')
    BY <1>b, <2>8 DEF Wiped
  <2>10. \A i \in Jobs : pc'[i] # "idle" => job'[i].command \in {"merge", "overwrite"}
    BY <1>b, <1>d, <2>1
  <2> QED
    BY <2>7, <2>9, <2>10 DEF AllWiped
<1> QED
  BY <1>1, <1>2, <1>3, <1>4, <1>5 DEF JobStep, Progress

LEMMA InitWiped == Init => WipedInv
<1> SUFFICES ASSUME Init PROVE AllWiped
  BY DEF WipedInv
<1>1. \A j \in Jobs : pc[j] = "idle"
  BY DEF Init
<1>2. \A f \in Files : silver[f] = 0
  BY DEF Init
<1> QED
  BY <1>1, <1>2 DEF AllWiped, Wiped

LEMMA StepWiped ==
  TypeInv /\ AllTidy /\ Alone /\ WipedInv /\ [Next]_vars => WipedInv'
<1> SUFFICES ASSUME TypeInv, AllTidy, Alone, WipedInv, [Next]_vars, Replacing'
             PROVE  AllWiped'
  BY DEF WipedInv
<1>1. events \subseteq events'
  BY EventsStay
<1>2. AllWiped
  BY <1>1 DEF WipedInv, Replacing, Without
<1>3. CASE (\E r \in Runs : \E n \in 1..Parts[r] : Upload(r, n)) \/ UNCHANGED vars
  <2>1. UNCHANGED <<state_log, silver, pc, job>>
    BY <1>3 DEF Upload, vars
  <2> QED
    BY <1>2, <2>1 DEF AllWiped
<1>4. ASSUME NEW j \in Jobs, JobStep(j) PROVE AllWiped'
  BY <1>1, <1>2, <1>4, JobStepWiped
<1> QED
  BY <1>3, <1>4 DEF Next

(* As long as no two runs overlap, a part file is in the table at most     *)
(* once: unless a run died or failed between two of its writes, its log    *)
(* was not read or it was forced - and not even then where every run was   *)
(* --merge or --overwrite.                                                 *)
THEOREM NoFileStoredTwice == Spec => []NoFileTwice
<1> DEFINE IInv == TypeInv /\ AllTidy /\ Alone /\ FreshInv /\ WipedInv
<1>1. Init => IInv
  BY InitType, InitTidy, InitAlone, InitFresh, InitWiped
<1>2. IInv /\ [Next]_vars => IInv'
  BY StepType, StepTidy, StepAlone, StepFresh, StepWiped
<1>3. IInv => NoFileTwice
  <2>1. /\ Without({"overlap"}) /\ Without({"crash", "force", "getError", "writeError"})
           => Undisturbed
        /\ Without({"overlap"}) /\ Without({"catchup", "append"}) => Replacing
    BY DEF Without, Undisturbed, Replacing
  <2> QED
    BY <2>1 DEF NoFileTwice, FreshInv, AllFresh, WipedInv, AllWiped
<1> HIDE DEF IInv
<1> QED
  BY <1>1, <1>2, <1>3, PTL DEF Spec

(* A run about to write the log back holds all of it.                      *)
LogCopied ==
  Without({"getError", "overlap"}) =>
    \A j \in Jobs : pc[j] = "put" => state_log \subseteq job[j].log

LEMMA StepCopied ==
  TypeInv /\ AllTidy /\ Alone /\ LogCopied /\ [Next]_vars =>
    LogCopied' /\ (Without({"getError", "overlap"})' => state_log \subseteq state_log')
<1> SUFFICES ASSUME TypeInv, AllTidy, Alone, LogCopied, [Next]_vars,
                    Without({"getError", "overlap"})'
             PROVE  /\ \A i \in Jobs : pc'[i] = "put" => state_log' \subseteq job'[i].log
                    /\ state_log \subseteq state_log'
  BY DEF LogCopied
<1>1. events \subseteq events' /\ Without({"overlap"})' /\ "getError" \notin events'
  BY EventsStay DEF Without
<1>2. \A i \in Jobs : pc[i] = "put" => state_log \subseteq job[i].log
  BY <1>1, WithoutStays DEF LogCopied
<1>3. CASE (\E r \in Runs : \E n \in 1..Parts[r] : Upload(r, n)) \/ UNCHANGED vars
  BY <1>2, <1>3 DEF Upload, vars
<1>4. ASSUME NEW j \in Jobs, JobStep(j)
      PROVE  /\ \A i \in Jobs : pc'[i] = "put" => state_log' \subseteq job'[i].log
             /\ state_log \subseteq state_log'
  <2> TypeOK
    BY DEF TypeInv
  <2>1. \A i \in Jobs : i # j => pc'[i] = "idle"
    BY <1>1, <1>4, OthersIdle
  <2>2. ASSUME NEW command \in Commands, NEW force \in BOOLEAN,
               NEW from \in Days, NEW to \in Days, Start(j, command, force, from, to)
        PROVE  pc'[j] # "put" /\ state_log' = state_log
    BY <2>2, StartEffect DEF TableAside
  <2>3. CASE \/ Load(j) \/ ListDates(j) \/ ListManifests(j) \/ Select(j) \/ Take(j)
             \/ WriteFile(j) \/ SkipUnread(j) \/ SkipRefused(j)
             \/ Crash(j) \/ Finish(j) \/ FailWrite(j) \/ EndManifest(j)
    <3>1. pc'[j] # "put" /\ state_log' = state_log
      BY <2>3, LoadEffect, ListDatesEffect, ListManifestsEffect, SelectEffect, TakeEffect,
         WriteEffect, SkipEffect, CrashEffect, FinishEffect, EndEffect DEF TableAside, AtFile
    <3> QED
      BY <2>1, <3>1
  <2>4. CASE MarkGet(j)
    BY <1>1, <2>1, <2>4, MarkGetEffect DEF TableAside
  <2>5. CASE MarkPut(j)
    BY <1>2, <2>1, <2>5, MarkPutEffect
  <2> QED
    BY <1>4, <2>1, <2>2, <2>3, <2>4, <2>5 DEF JobStep, Progress
<1> QED
  BY <1>3, <1>4 DEF Next

(* The log of processed manifests only grows, unless a read of it failed   *)
(* or two runs wrote it: read, add one entry, write back loses nothing.    *)
THEOREM LogOnlyGrows == Spec => MarksKept
<1> DEFINE IInv == TypeInv /\ AllTidy /\ Alone /\ LogCopied
           Kept == Without({"getError", "overlap"})' => state_log \subseteq state_log'
<1>1. Init => IInv
  BY InitType, InitTidy, InitAlone DEF Init, LogCopied
<1>2. IInv /\ [Next]_vars => IInv' /\ Kept
  BY StepType, StepTidy, StepAlone, StepCopied
<1> HIDE DEF IInv, Kept
<1>3. Spec => [][Kept]_vars
  BY <1>1, <1>2, PTL DEF Spec
<1> QED
  BY <1>3 DEF MarksKept, Kept
=============================================================================
