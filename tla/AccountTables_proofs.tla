------------------------ MODULE AccountTables_proofs ------------------------
(***************************************************************************)
(* Theorems about AccountTables, for any number of requests, keys and      *)
(* templates: no duplicate is ever committed, although every check for     *)
(* one is made before it can know, a default is not lost, and the limit of *)
(* the tracked traders and the one default are exceeded by no more than    *)
(* the requests that raced.                                                *)
(***************************************************************************)
EXTENDS AccountTables, FiniteSetTheorems, TLAPS

(* What the operation of a request says about its other fields.            *)
WellFormed(s) ==
  /\ s \in RequestRecord
  /\ s.op \in {"add", "remove"} =>
       s.list \in Lists /\ s.key \in Keys /\ s.id = NoId /\ s.name = NoName
  /\ s.op \in {"none", "create", "update", "delete"} => s.list = "none"
  /\ s.op = "create" => s.name \in Names
  /\ s.op = "delete" => s.id \in Ids /\ s.name = NoName
  /\ s.op = "update" => s.id \in Ids \/ (s.step = "commit" /\ s.name = NoName)
  /\ s.op = "create" /\ s.step = "commit" => s.id \in Ids
  /\ s.step = "insert" => s.op = "add"
  /\ s.step = "check" /\ s.op = "add" => s.list = "tracked"

(* A request that waits to commit found its row, or no row in its way, and *)
(* holds on to that until it commits.                                      *)
Holds(s) ==
  s.step = "commit" =>
    /\ s.op = "add" => rows[s.list][s.key] = 0
    /\ s.op = "remove" => rows[s.list][s.key] > 0
    /\ s.op \in {"update", "delete"} /\ s.id # NoId => name[s.id] # NoName
    /\ s.name # NoName => \A j \in Ids : name[j] = s.name => j = s.id

(* Two requests that wait to commit have no row and no name in common.     *)
Apart(s, t) ==
  s.step = "commit" /\ t.step = "commit" =>
    /\ s.list # "none" => s.list # t.list \/ s.key # t.key
    /\ s.id # NoId => s.id # t.id
    /\ s.name # NoName => s.name # t.name

AllApart == \A r \in Requests : \A q \in Others(r) : Apart(request[r], request[q])

TablesInv ==
  /\ TypeOK
  /\ UniqueKeys
  /\ \A r \in Requests : WellFormed(request[r]) /\ Holds(request[r])
  /\ AllApart

LEMMA IdleWellFormed == WellFormed(IdleRequest) /\ IdleRequest.step = "idle"
  BY DEF WellFormed, IdleRequest, RequestRecord, Lists

LEMMA Counts ==
  ASSUME NEW S \in SUBSET Requests
  PROVE  Cardinality(S) \in 0..Cardinality(Requests)
<1>1. Cardinality(Requests) \in Nat /\ IsFiniteSet(S) /\ Cardinality(S) <= Cardinality(Requests)
  BY TablesAssumption, FS_Subset, FS_CardinalityType
<1>2. Cardinality(S) \in Nat
  BY <1>1, FS_CardinalityType
<1> QED
  BY <1>1, <1>2

LEMMA InitTables == Init => TablesInv
<1> SUFFICES ASSUME Init PROVE TablesInv
  OBVIOUS
<1>1. \A r \in Requests : request[r] = IdleRequest
  BY DEF Init
<1>2. \A r \in Requests : WellFormed(request[r]) /\ Holds(request[r])
  BY <1>1, IdleWellFormed DEF Holds
<1>3. AllApart
  BY <1>1, IdleWellFormed DEF AllApart, Others, Apart
<1>4. Cardinality(Requests) \in Nat
  BY TablesAssumption, FS_CardinalityType
<1>5. TypeOK
  <2>1. request \in [Requests -> RequestRecord]
    BY IdleWellFormed DEF Init, WellFormed
  <2>2. rows \in [Lists -> [Keys -> Nat]] /\ name \in [Ids -> Names \cup {NoName}]
    BY DEF Init
  <2>3. adders \in 0..Cardinality(Requests) /\ setters \in 0..Cardinality(Requests)
    BY <1>4 DEF Init
  <2>4. wanted \in BOOLEAN /\ robbed \in BOOLEAN
    BY DEF Init
  <2>5. unset \in [Requests -> SUBSET Ids] /\ defaults \subseteq {i \in Ids : name[i] # NoName}
    BY DEF Init
  <2> QED
    BY <2>1, <2>2, <2>3, <2>4, <2>5 DEF TypeOK
<1>6. UniqueKeys
  BY DEF UniqueKeys, Init
<1> QED
  BY <1>2, <1>3, <1>5, <1>6 DEF TablesInv

(* The counters of the history.                                            *)
LEMMA BecomeCounts ==
  ASSUME TablesInv, NEW r \in Requests, NEW s, Become(r, s)
  PROVE  adders' \in 0..Cardinality(Requests) /\ setters' \in 0..Cardinality(Requests)
<1>1. Adding' \in SUBSET Requests /\ Setting' \in SUBSET Requests
  BY DEF Adding, Setting
<1>2. Cardinality(Adding') \in 0..Cardinality(Requests)
  BY <1>1, Counts
<1>3. Cardinality(Setting') \in 0..Cardinality(Requests)
  BY <1>1, Counts
<1> QED
  BY <1>2, <1>3 DEF Become, Greater, TablesInv, TypeOK

(* A statement that leaves what is committed alone.                        *)
LEMMA StatementKeeps ==
  ASSUME TablesInv, NEW r \in Requests, NEW s, Become(r, s), Uncommitted,
         unset' \in [Requests -> SUBSET Ids],
         WellFormed(s), Holds(s), \A q \in Others(r) : Apart(s, request[q])
  PROVE  TablesInv'
<1>1. \A q \in Requests : request'[q] = IF q = r THEN s ELSE request[q]
  BY DEF Become, TablesInv, TypeOK
<1>2. UNCHANGED <<rows, name, defaults, wanted, robbed>>
  BY DEF Uncommitted, committed
<1>3. \A q \in Requests : WellFormed(request'[q]) /\ Holds(request'[q])
  BY <1>1 DEF TablesInv
<1>4. (\A q \in Requests : Holds(request[q]))'
  BY <1>2, <1>3 DEF Holds
<1>5. AllApart'
  <2> SUFFICES ASSUME NEW p \in Requests, NEW q \in Others(p)
               PROVE  Apart(request'[p], request'[q])
    BY DEF AllApart, Others
  <2>1. CASE p = r
    BY <1>1, <2>1 DEF Others
  <2>2. CASE q = r
    <3>1. Apart(s, request[p])
      BY <2>2 DEF Others
    <3> QED
      BY <1>1, <2>2, <3>1 DEF Apart, Others
  <2>3. CASE p # r /\ q # r
    BY <1>1, <2>3 DEF Others, TablesInv, AllApart
  <2> QED
    BY <2>1, <2>2, <2>3
<1>6. request' \in [Requests -> RequestRecord]
  BY <1>1, <1>3 DEF Become, WellFormed, TablesInv, TypeOK
<1>7. TypeOK'
  BY <1>2, <1>6, BecomeCounts DEF TypeOK, TablesInv
<1>8. UniqueKeys'
  BY <1>2 DEF UniqueKeys, TablesInv
<1> QED
  BY <1>3, <1>4, <1>5, <1>7, <1>8 DEF TablesInv

(* A statement that does not write.                                        *)
LEMMA ReadKeeps ==
  ASSUME TablesInv, NEW r \in Requests, NEW s, Become(r, s), Uncommitted,
         unset' \in [Requests -> SUBSET Ids],
         WellFormed(s), s.step # "commit"
  PROVE  TablesInv'
<1>1. Holds(s) /\ \A q \in Others(r) : Apart(s, request[q])
  BY DEF Holds, Apart
<1> QED
  BY <1>1, StatementKeeps

LEMMA LeaveKeeps ==
  ASSUME TablesInv, NEW r \in Requests, Leave(r), Uncommitted
  PROVE  TablesInv'
<1>1. unset' \in [Requests -> SUBSET Ids]
  BY DEF Leave, TablesInv, TypeOK
<1>2. Become(r, IdleRequest)
  BY DEF Leave
<1> QED
  BY <1>1, <1>2, IdleWellFormed, ReadKeeps

(* Each statement of a request.                                            *)
LEMMA ListStatements ==
  ASSUME TablesInv, NEW r \in Requests,
         \/ \E k \in Keys : \/ CountTracked(r, k) \/ delete_tracked_trader(r, k)
                             \/ add_market_to_watchlist(r, k)
                             \/ remove_market_from_watchlist(r, k)
                             \/ register(r, k)
         \/ CheckTracked(r) \/ Insert(r)
  PROVE  TablesInv'
<1> DEFINE s == request[r]
<1>0. WellFormed(s) /\ Holds(s) /\ unset \in [Requests -> SUBSET Ids]
  BY DEF TablesInv, TypeOK
<1>1. ASSUME NEW l \in Lists, NEW k \in Keys, NEW step \in {"check", "insert"},
             Become(r, OnList("add", step, l, k)), UNCHANGED unset, Uncommitted,
             step = "check" => l = "tracked"
      PROVE  TablesInv'
  <2>2. WellFormed(OnList("add", step, l, k)) /\ OnList("add", step, l, k).step # "commit"
    BY <1>1 DEF OnList, WellFormed, RequestRecord, Lists
  <2> QED
    BY <1>0, <1>1, <2>2, ReadKeeps
<1>2. ASSUME NEW k \in Keys, CountTracked(r, k) PROVE TablesInv'
  BY <1>1, <1>2 DEF CountTracked, Lists
<1>3. ASSUME NEW k \in Keys, add_market_to_watchlist(r, k) \/ register(r, k) PROVE TablesInv'
  BY <1>1, <1>3 DEF add_market_to_watchlist, register, BeginAdd, Lists
<1>4. ASSUME NEW k \in Keys, NEW l \in Lists, Remove(r, l, k) PROVE TablesInv'
  <2> DEFINE t == OnList("remove", "commit", l, k)
  <2>1. Become(r, t)
    BY <1>4 DEF Remove
  <2>2. WellFormed(t) /\ Holds(t)
    BY <1>4 DEF Remove, OnList, WellFormed, RequestRecord, Lists, Holds
  <2>3. \A q \in Others(r) : Apart(t, request[q])
    BY <1>4 DEF Remove, OnList, KeyHeld, Apart, Writing
  <2> QED
    BY <1>0, <1>4, <2>1, <2>2, <2>3, StatementKeeps DEF Remove
<1>5. CASE CheckTracked(r)
  <2>1. CASE Leave(r)
    BY <1>5, <2>1, LeaveKeeps DEF CheckTracked
  <2>2. CASE Become(r, [s EXCEPT !.step = "insert"]) /\ UNCHANGED unset
    <3>1. WellFormed([s EXCEPT !.step = "insert"]) /\ [s EXCEPT !.step = "insert"].step # "commit"
      BY <1>0, <1>5 DEF CheckTracked, WellFormed, RequestRecord, Lists
    <3> QED
      BY <1>0, <1>5, <2>2, <3>1, ReadKeeps DEF CheckTracked
  <2> QED
    BY <1>5, <2>1, <2>2 DEF CheckTracked
<1>6. CASE Insert(r)
  <2>1. CASE Leave(r)
    BY <1>6, <2>1, LeaveKeeps DEF Insert
  <2>2. CASE ~Leave(r)
    <3> DEFINE t == [s EXCEPT !.step = "commit"]
    <3>1. Become(r, t) /\ UNCHANGED unset /\ Uncommitted /\ rows[s.list][s.key] = 0
      BY <1>6, <2>2 DEF Insert, Unique
    <3>2. WellFormed(t) /\ Holds(t)
      BY <1>0, <1>6, <3>1 DEF Insert, WellFormed, RequestRecord, Lists, Holds
    <3>3. \A q \in Others(r) : Apart(t, request[q])
      BY <1>0, <1>6 DEF Insert, KeyHeld, Apart, Writing, WellFormed, RequestRecord
    <3> QED
      BY <1>0, <3>1, <3>2, <3>3, StatementKeeps
  <2> QED
    BY <2>1, <2>2
<1> QED
  BY <1>2, <1>3, <1>4, <1>5, <1>6
     DEF delete_tracked_trader, remove_market_from_watchlist, Lists

(* A request on the templates takes its next step.                         *)
LEMMA NextStep ==
  ASSUME NEW s, WellFormed(s), NEW step \in {"unset", "locking", "write", "commit"},
         s.op \in {"create", "update"}, step = "commit" /\ s.op = "create" => s.id \in Ids,
         step # "commit" /\ s.op = "update" => s.id \in Ids
  PROVE  WellFormed([s EXCEPT !.step = step])
  BY DEF WellFormed, RequestRecord

LEMMA TemplateStatements ==
  ASSUME TablesInv, NEW r \in Requests,
         \/ \E n \in Names, d \in {"keep", "yes"} : CreateTemplate(r, n, d)
         \/ \E i \in Ids : \/ DeleteTemplate(r, i)
                           \/ \E n \in Names \cup {NoName}, d \in {"keep", "yes", "no"} :
                                UpdateTemplate(r, i, n, d)
         \/ CheckName(r) \/ FindDefaults(r) \/ UnsetDefaults(r)
         \/ InsertTemplate(r) \/ WriteTemplate(r)
  PROVE  TablesInv'
<1> DEFINE s == request[r]
<1>0. /\ WellFormed(s) /\ Holds(s) /\ unset \in [Requests -> SUBSET Ids]
      /\ \A d : FirstWrite(d) \in {"unset", "write"}
  BY DEF TablesInv, TypeOK, FirstWrite
<1>1. ASSUME NEW n \in Names, NEW d \in {"keep", "yes"}, CreateTemplate(r, n, d)
      PROVE  TablesInv'
  <2> DEFINE t == OnTemplate("create", FirstWrite(d), NoId, n, d)
  <2>1. WellFormed(t) /\ t.step # "commit"
    BY <1>0 DEF OnTemplate, WellFormed, RequestRecord
  <2> QED
    BY <1>0, <1>1, <2>1, ReadKeeps DEF CreateTemplate
<1>2. ASSUME NEW i \in Ids, DeleteTemplate(r, i) PROVE TablesInv'
  <2> DEFINE t == OnTemplate("delete", "commit", i, NoName, "keep")
  <2>1. WellFormed(t) /\ Holds(t)
    BY <1>2 DEF DeleteTemplate, OnTemplate, WellFormed, RequestRecord, Holds
  <2>2. \A q \in Others(r) : Apart(t, request[q])
    BY <1>2 DEF DeleteTemplate, OnTemplate, RowHeld, Apart, Writing
  <2> QED
    BY <1>0, <1>2, <2>1, <2>2, StatementKeeps DEF DeleteTemplate
<1>3. ASSUME NEW i \in Ids, NEW n \in Names \cup {NoName}, NEW d \in {"keep", "yes", "no"},
             UpdateTemplate(r, i, n, d)
      PROVE  TablesInv'
  <2> DEFINE step == IF n \in {NoName, name[i]} THEN FirstWrite(d) ELSE "check"
             t == OnTemplate("update", step, i, n, d)
  <2>1. step \in {"unset", "write", "check"}
    BY <1>0
  <2>2. WellFormed(t) /\ t.step # "commit"
    BY <2>1 DEF OnTemplate, WellFormed, RequestRecord
  <2> QED
    BY <1>0, <1>3, <2>2, ReadKeeps DEF UpdateTemplate
<1>4. CASE CheckName(r)
  <2>1. CASE Leave(r)
    BY <1>4, <2>1, LeaveKeeps DEF CheckName
  <2>2. CASE ~Leave(r)
    <3> DEFINE t == [s EXCEPT !.step = FirstWrite(s.default)]
    <3>1. Become(r, t) /\ UNCHANGED unset /\ Uncommitted
      BY <1>4, <2>2 DEF CheckName
    <3>2. s.op = "update" /\ s.id \in Ids
      BY <1>0, <1>4 DEF CheckName, WellFormed
    <3>3. FirstWrite(s.default) \in {"unset", "write"}
      BY <1>0
    <3>4. WellFormed(t)
      BY <1>0, <3>2, <3>3, NextStep
    <3>5. t.step # "commit"
      BY <1>0, <3>3 DEF WellFormed, RequestRecord
    <3> QED
      BY <1>0, <3>1, <3>4, <3>5, ReadKeeps
  <2> QED
    BY <2>1, <2>2
<1>5. CASE FindDefaults(r)
  <2> DEFINE t == [s EXCEPT !.step = "locking", !.seen = defaults]
  <2>1. defaults \in SUBSET Ids
    BY DEF TablesInv, TypeOK
  <2>2. WellFormed(t) /\ t.step # "commit"
    BY <1>0, <1>5, <2>1 DEF FindDefaults, WellFormed, RequestRecord
  <2> QED
    BY <1>0, <1>5, <2>2, ReadKeeps DEF FindDefaults
<1>6. CASE UnsetDefaults(r)
  <2> DEFINE t == [s EXCEPT !.step = "write", !.seen = {}]
  <2>1. WellFormed(t) /\ t.step # "commit"
    BY <1>0, <1>6 DEF UnsetDefaults, WellFormed, RequestRecord
  <2>2. Found(r) \in SUBSET Ids
    BY DEF Found, TablesInv, TypeOK
  <2>3. unset' \in [Requests -> SUBSET Ids]
    BY <1>0, <1>6, <2>2 DEF UnsetDefaults
  <2> QED
    BY <1>6, <2>1, <2>3, ReadKeeps DEF UnsetDefaults
<1>7. CASE InsertTemplate(r)
  <2>1. CASE Leave(r)
    BY <1>7, <2>1, LeaveKeeps DEF InsertTemplate
  <2>2. CASE ~Leave(r)
    <3>1. PICK i \in Ids : /\ \A q \in Requests : request[q].id # i
                          /\ Become(r, [s EXCEPT !.step = "commit", !.id = i])
      BY <1>7, <2>2 DEF InsertTemplate
    <3> DEFINE t == [s EXCEPT !.step = "commit", !.id = i]
    <3>2. s.op = "create" /\ ~NameHeld(r, s.name) /\ ~Taken(s.name) /\ UNCHANGED unset /\ Uncommitted
      BY <1>7, <2>2 DEF InsertTemplate
    <3>3. WellFormed(t)
      BY <1>0, <3>2 DEF WellFormed, RequestRecord
    <3>4. Holds(t)
      BY <1>0, <3>2 DEF WellFormed, RequestRecord, Holds, Taken
    <3>5. \A q \in Others(r) : Apart(t, request[q])
      BY <1>0, <3>1, <3>2 DEF Others, NameHeld, Writing, Apart, WellFormed, RequestRecord
    <3> QED
      BY <1>0, <3>1, <3>2, <3>3, <3>4, <3>5, StatementKeeps
  <2> QED
    BY <2>1, <2>2
<1>8. CASE WriteTemplate(r)
  <2> DEFINE i == s.id
             n == s.name
  <2>0. s.op = "update" /\ s.step = "write" /\ i \in Ids /\ ~RowHeld(r, i) /\ Uncommitted
    BY <1>0, <1>8 DEF WriteTemplate, WellFormed
  <2>1. CASE Leave(r)
    BY <2>0, <2>1, LeaveKeeps
  <2>2. CASE ~Leave(r) /\ Gone(i)
    <3> DEFINE t == [s EXCEPT !.step = "commit", !.id = NoId, !.name = NoName]
    <3>1. Become(r, t) /\ UNCHANGED unset
      BY <1>8, <2>2 DEF WriteTemplate
    <3>2. WellFormed(t)
      BY <1>0, <2>0 DEF WellFormed, RequestRecord
    <3>3. Holds(t) /\ \A q \in Others(r) : Apart(t, request[q])
      BY <1>0, <2>0 DEF WellFormed, RequestRecord, Holds, Apart
    <3> QED
      BY <1>0, <2>0, <3>1, <3>2, <3>3, StatementKeeps
  <2>3. CASE ~Leave(r) /\ ~Gone(i)
    <3> DEFINE t == [s EXCEPT !.step = "commit"]
    <3>1. /\ Become(r, t) /\ UNCHANGED unset
          /\ n \notin {NoName, name[i]} => ~NameHeld(r, n) /\ ~Taken(n)
      BY <1>8, <2>3 DEF WriteTemplate
    <3>2. WellFormed(t)
      BY <1>0, <2>0, NextStep
    <3>3. Holds(t)
      BY <1>0, <2>0, <2>3, <3>1 DEF WellFormed, RequestRecord, Holds, Gone, Taken, TablesInv, UniqueKeys
    <3>4. ASSUME NEW q \in Others(r) PROVE Apart(t, request[q])
      <4> SUFFICES ASSUME request[q].step = "commit", request[q].name = n, n # NoName
                   PROVE  FALSE
        BY <1>0, <2>0 DEF Apart, WellFormed, RequestRecord, RowHeld, Writing
      <4>1. CASE n # name[i]
        BY <3>1, <4>1 DEF NameHeld, Writing
      <4>2. CASE n = name[i]
        BY <2>0, <4>2 DEF TablesInv, Holds, Others, RowHeld, Writing
      <4> QED
        BY <4>1, <4>2
    <3> QED
      BY <1>0, <2>0, <3>1, <3>2, <3>3, <3>4, StatementKeeps
  <2> QED
    BY <2>1, <2>2, <2>3
<1> QED
  BY <1>1, <1>2, <1>3, <1>4, <1>5, <1>6, <1>7, <1>8

(* The commit of r leaves the others what they hold, if it changes only    *)
(* what r holds.                                                           *)
LEMMA CommitKeeps ==
  ASSUME TablesInv, NEW r \in Requests, Leave(r),
         rows' \in [Lists -> [Keys -> 0..1]],
         name' \in [Ids -> Names \cup {NoName}],
         defaults' \subseteq {i \in Ids : name'[i] # NoName},
         wanted' \in BOOLEAN, robbed' \in BOOLEAN,
         \A i, j \in Ids : name'[i] = name'[j] /\ i # j => name'[i] = NoName,
         \A q \in Others(r) : Holds(request[q])'
  PROVE  TablesInv'
<1>1. /\ unset' \in [Requests -> SUBSET Ids] /\ Become(r, IdleRequest)
      /\ \A q \in Requests : request'[q] = IF q = r THEN IdleRequest ELSE request[q]
  BY DEF Leave, Become, TablesInv, TypeOK
<1>2. \A q \in Requests : WellFormed(request'[q])
  BY <1>1, IdleWellFormed DEF TablesInv
<1>3. \A q \in Requests : Holds(request[q])'
  <2>1. Holds(request[r])'
    BY <1>1, IdleWellFormed DEF Holds
  <2> QED
    BY <2>1 DEF Others
<1>4. AllApart'
  BY <1>1, IdleWellFormed DEF AllApart, Others, Apart, TablesInv
<1>5. request' \in [Requests -> RequestRecord]
  BY <1>1, <1>2 DEF Become, WellFormed, TablesInv, TypeOK
<1>6. adders' \in 0..Cardinality(Requests) /\ setters' \in 0..Cardinality(Requests)
  BY <1>1, BecomeCounts
<1>7. rows' \in [Lists -> [Keys -> Nat]]
  OBVIOUS
<1>8. TypeOK'
  BY <1>1, <1>5, <1>6, <1>7 DEF TypeOK
<1>9. UniqueKeys'
  BY DEF UniqueKeys
<1> QED
  BY <1>2, <1>3, <1>4, <1>8, <1>9 DEF TablesInv

LEMMA CommitPreserves ==
  ASSUME TablesInv, NEW r \in Requests, Commit(r)
  PROVE  TablesInv'
<1> DEFINE s == request[r]
<1>0. /\ WellFormed(s) /\ Holds(s) /\ s.step = "commit" /\ Leave(r)
      /\ \A q \in Others(r) : /\ WellFormed(request[q]) /\ Holds(request[q])
                               /\ request'[q] = request[q]
                               /\ Apart(s, request[q])
  BY DEF TablesInv, TypeOK, AllApart, Others, Commit, Writing, Leave, Become
<1>1. name \in [Ids -> Names \cup {NoName}]
  BY DEF TablesInv, TypeOK
<1>2. rows \in [Lists -> [Keys -> 0..1]]
  <2>1. rows \in [Lists -> [Keys -> Nat]] /\ \A l \in Lists, k \in Keys : rows[l][k] <= 1
    BY DEF TablesInv, TypeOK, UniqueKeys
  <2>2. ASSUME NEW l \in Lists PROVE rows[l] \in [Keys -> 0..1]
    <3>1. rows[l] \in [Keys -> Nat] /\ \A k \in Keys : rows[l][k] <= 1
      BY <2>1
    <3> QED
      BY <3>1
  <2> QED
    BY <2>1, <2>2
<1>3. /\ defaults \subseteq {i \in Ids : name[i] # NoName}
      /\ wanted \in BOOLEAN /\ robbed \in BOOLEAN
      /\ \A i, j \in Ids : name[i] = name[j] /\ i # j => name[i] = NoName
  BY DEF TablesInv, TypeOK, UniqueKeys
<1>4. CASE CommitAdd(r) \/ CommitRemove(r)
  <2> DEFINE l == s.list
             k == s.key
  <2>1. l \in Lists /\ k \in Keys /\ UNCHANGED <<name, defaults, wanted, robbed>>
    BY <1>0, <1>4 DEF CommitAdd, CommitRemove, WellFormed
  <2>2. PICK x \in 0..1 : rows' = [rows EXCEPT ![l][k] = x]
    <3>1. CASE CommitAdd(r)
      <4>1. rows[l][k] = 0
        BY <1>0, <3>1 DEF CommitAdd, Holds
      <4>2. rows' = [rows EXCEPT ![l][k] = rows[l][k] + 1]
        BY <3>1 DEF CommitAdd
      <4> QED
        BY <4>1, <4>2
    <3>2. CASE CommitRemove(r)
      <4>1. rows[l][k] = 1
        <5>1. rows[l][k] > 0
          BY <1>0, <3>2 DEF CommitRemove, Holds
        <5>2. rows[l][k] \in 0..1
          BY <1>2, <2>1
        <5> QED
          BY <5>1, <5>2
      <4>2. rows' = [rows EXCEPT ![l][k] = IF l = "tracked" THEN rows[l][k] - 1 ELSE 0]
        BY <3>2 DEF CommitRemove
      <4> QED
        BY <4>1, <4>2
    <3> QED
      BY <1>4, <3>1, <3>2
  <2>3. rows' \in [Lists -> [Keys -> 0..1]]
    BY <1>2, <2>1, <2>2
  <2>4. \A m \in Lists, c \in Keys : m # l \/ c # k => rows'[m][c] = rows[m][c]
    BY <1>2, <2>1, <2>2
  <2>5. ASSUME NEW q \in Others(r) PROVE Holds(request[q])'
    BY <1>0, <1>4, <2>1, <2>4 DEF Holds, Apart, WellFormed, Lists, CommitAdd, CommitRemove
  <2> QED
    BY <1>0, <1>1, <1>3, <1>2, <2>1, <2>3, <2>5, CommitKeeps
<1>5. CASE CommitTemplate(r) \/ CommitDelete(r)
  <2> DEFINE i == s.id
  <2>1. i \in Ids /\ UNCHANGED <<rows, robbed>>
    BY <1>0, <1>5 DEF CommitTemplate, CommitDelete, WellFormed, RequestRecord
  <2>2. \E n \in Names \cup {NoName} :
          /\ name' = [name EXCEPT ![i] = n]
          /\ n = s.name \/ n = name[i] \/ n = NoName
          /\ CommitTemplate(r) => n # NoName
    <3>1. CASE CommitTemplate(r)
      <4>1. CASE s.name = NoName
        <5>1. name' = [name EXCEPT ![i] = name[i]] /\ name[i] \in Names \cup {NoName}
          BY <1>1, <3>1, <4>1, <2>1 DEF CommitTemplate
        <5>2. name[i] # NoName
          BY <1>0, <2>1, <3>1, <4>1, TablesAssumption DEF CommitTemplate, Holds, WellFormed
        <5> QED
          BY <5>1, <5>2
      <4>2. CASE s.name # NoName
        BY <1>0, <3>1, <4>2 DEF CommitTemplate, WellFormed, RequestRecord
      <4> QED
        BY <4>1, <4>2
    <3>2. CASE CommitDelete(r)
      BY <1>5, <3>2 DEF CommitDelete, CommitTemplate
    <3> QED
      BY <1>5, <3>1, <3>2
  <2>3. PICK n \in Names \cup {NoName} :
          /\ name' = [name EXCEPT ![i] = n]
          /\ n = s.name \/ n = name[i] \/ n = NoName
          /\ CommitTemplate(r) => n # NoName
    BY <2>2
  <2>4. \A j \in Ids : name'[j] = IF j = i THEN n ELSE name[j]
    BY <1>1, <2>1, <2>3
  <2>5. name' \in [Ids -> Names \cup {NoName}]
    BY <1>1, <2>1, <2>3
  <2>6. \A j \in Ids : j # i /\ n # NoName => name[j] # n
    BY <1>0, <1>3, <2>1, <2>3 DEF Holds
  <2>7. \A h, j \in Ids : name'[h] = name'[j] /\ h # j => name'[h] = NoName
    BY <1>3, <2>4, <2>6
  <2>8. defaults' \subseteq {j \in Ids : name'[j] # NoName}
    <3>1. CASE CommitTemplate(r)
      <4>1. defaults' = NewDefaults(r, i)
        BY <3>1 DEF CommitTemplate
      <4>2. NewDefaults(r, i) \subseteq defaults \cup {i}
        BY DEF NewDefaults
      <4> QED
        BY <1>3, <2>1, <2>3, <2>4, <3>1, <4>1, <4>2
    <3>2. CASE CommitDelete(r)
      <4>1. defaults' = defaults \ {i}
        BY <3>2 DEF CommitDelete
      <4> QED
        BY <1>3, <2>4, <4>1
    <3> QED
      BY <1>5, <3>1, <3>2
  <2>9. wanted' \in BOOLEAN
    <3>1. CASE CommitTemplate(r)
      BY <1>3, <3>1 DEF CommitTemplate
    <3>2. CASE CommitDelete(r)
      BY <1>3, <3>2 DEF CommitDelete
    <3> QED
      BY <1>5, <3>1, <3>2
  <2>10. ASSUME NEW q \in Others(r) PROVE Holds(request[q])'
    <3>1. request[q].step = "commit" => request[q].id # i
      BY <1>0, <2>1, TablesAssumption DEF Apart
    <3>2. request[q].step = "commit" /\ request[q].name # NoName => n # request[q].name
      BY <1>0, <2>1, <2>3, <3>1 DEF Apart, Holds
    <3> QED
      BY <1>0, <2>1, <2>4, <3>1, <3>2 DEF Holds, WellFormed, RequestRecord
  <2> QED
    BY <1>0, <1>1, <1>3, <1>2, <2>1, <2>5, <2>7, <2>8, <2>9, <2>10, CommitKeeps
<1>6. CASE CommitNothing(r)
  <2>1. UNCHANGED <<rows, name, wanted>> /\ defaults' = defaults \ unset[r]
    BY <1>6 DEF CommitNothing
  <2>2. robbed' \in BOOLEAN
    BY <1>3, <1>6 DEF CommitNothing
  <2>3. \A q \in Others(r) : Holds(request[q])'
    BY <1>0, <2>1 DEF Holds
  <2> QED
    BY <1>0, <1>1, <1>3, <1>2, <2>1, <2>2, <2>3, CommitKeeps
<1> QED
  BY <1>4, <1>5, <1>6 DEF Commit

LEMMA StepTables == TablesInv /\ [Next]_vars => TablesInv'
<1> SUFFICES ASSUME TablesInv, [Next]_vars PROVE TablesInv'
  OBVIOUS
<1>1. CASE Next
  <2>1. PICK r \in Requests : Begin(r) \/ Continue(r)
    BY <1>1 DEF Next
  <2>2. CASE Begin(r)
    BY <2>2, ListStatements, TemplateStatements DEF Begin
  <2>3. CASE CheckTracked(r) \/ Insert(r)
    BY <2>3, ListStatements
  <2>4. CASE \/ CheckName(r) \/ FindDefaults(r) \/ UnsetDefaults(r)
             \/ InsertTemplate(r) \/ WriteTemplate(r)
    BY <2>4, TemplateStatements
  <2>5. CASE Commit(r)
    BY <2>5, CommitPreserves
  <2>6. CASE Rollback(r)
    BY <2>6, LeaveKeeps DEF Rollback
  <2> QED
    BY <2>1, <2>2, <2>3, <2>4, <2>5, <2>6 DEF Continue
<1>2. CASE UNCHANGED vars
  <2>1. /\ UNCHANGED <<rows, name, defaults, request, unset>>
        /\ UNCHANGED <<adders, setters, wanted, robbed>>
    BY <1>2 DEF vars, committed, history
  <2>2. TypeOK' /\ UniqueKeys'
    BY <2>1 DEF TypeOK, UniqueKeys, TablesInv
  <2>3. AllApart' /\ \A r \in Requests : WellFormed(request'[r]) /\ Holds(request[r])'
    BY <2>1 DEF AllApart, Holds, TablesInv
  <2> QED
    BY <2>2, <2>3 DEF TablesInv
<1> QED
  BY <1>1, <1>2

LEMMA TablesInvariant == Spec => []TablesInv
  BY InitTables, StepTables, PTL DEF Spec

(* The types of all variables; above all, the default is a template that   *)
(* exists, and no list has a negative number of rows of a key.             *)
THEOREM TypeCorrect == Spec => []TypeOK
  BY TablesInvariant, PTL DEF TablesInv

(* However many requests add the same email, address, market or template   *)
(* name at once, one row of it is committed.                               *)
THEOREM NoDuplicates == Spec => []UniqueKeys
  BY TablesInvariant, PTL DEF TablesInv

(* Once a default has been set, and until it is unset or deleted, there is *)
(* one, unless an update was committed whose template was gone.            *)
THEOREM KeepsDefault == Spec => []DefaultKept
<1>1. Init => DefaultKept
  BY DEF Init, DefaultKept
<1>2. DefaultKept /\ [Next]_vars => DefaultKept'
  <2> SUFFICES ASSUME DefaultKept, [Next]_vars PROVE DefaultKept'
    OBVIOUS
  <2>1. CASE UNCHANGED <<defaults, wanted, robbed>>
    BY <2>1 DEF DefaultKept
  <2>2. ASSUME NEW r \in Requests, CommitTemplate(r) PROVE DefaultKept'
    <3>1. defaults' = NewDefaults(r, request[r].id)
      BY <2>2 DEF CommitTemplate
    <3>2. CASE request[r].default = "yes"
      BY <3>1, <3>2 DEF NewDefaults, DefaultKept
    <3>3. CASE request[r].default = "no"
      BY <2>2, <3>1, <3>3 DEF CommitTemplate, NewDefaults, DefaultKept
    <3>4. CASE request[r].default \notin {"yes", "no"}
      BY <2>2, <3>1, <3>4 DEF CommitTemplate, NewDefaults, DefaultKept
    <3> QED
      BY <3>2, <3>3, <3>4
  <2>3. ASSUME NEW r \in Requests, CommitNothing(r) PROVE DefaultKept'
    BY <2>3 DEF CommitNothing, DefaultKept
  <2>4. ASSUME NEW r \in Requests, CommitDelete(r) PROVE DefaultKept'
    BY <2>4 DEF CommitDelete, DefaultKept
  <2>5. CASE Next /\ ~UNCHANGED <<defaults, wanted, robbed>>
    <3>1. PICK r \in Requests : Begin(r) \/ Continue(r)
      BY <2>5 DEF Next
    <3>2. Commit(r)
      BY <2>5, <3>1 DEF Begin, Continue, CountTracked, delete_tracked_trader, Remove,
         add_market_to_watchlist, remove_market_from_watchlist, register, BeginAdd,
         CreateTemplate, UpdateTemplate, DeleteTemplate, CheckTracked, Insert, CheckName,
         FindDefaults, UnsetDefaults, InsertTemplate, WriteTemplate, Rollback,
         Uncommitted, committed
    <3> QED
      BY <2>2, <2>3, <2>4, <2>5, <3>2 DEF Commit, CommitAdd, CommitRemove
  <2> QED
    BY <2>1, <2>5 DEF vars, committed, history
<1> QED
  BY <1>1, <1>2, PTL DEF Spec

(* ----------------------------- the limit ------------------------------- *)

(* Who is adding a tracked trader in the requests q, and what the rows w   *)
(* track.                                                                  *)
AddingIn(q) == {r \in Requests : q[r].op = "add" /\ q[r].list = "tracked"}

TrackedIn(w) == {k \in Keys : w["tracked"][k] > 0}

(* Who is adding is counted with what is there: it was let in below the    *)
(* limit, with all the others that are adding.                             *)
LimitInv ==
  /\ Cardinality(TrackedIn(rows)) + Cardinality(AddingIn(request)) <= Limit - 1 + Greater(adders, 1)
  /\ Cardinality(AddingIn(request)) <= adders

LEMMA Sizes ==
  /\ \A q : AddingIn(q) \subseteq Requests /\ IsFiniteSet(AddingIn(q))
            /\ Cardinality(AddingIn(q)) \in Nat
  /\ \A w : TrackedIn(w) \subseteq Keys /\ IsFiniteSet(TrackedIn(w))
            /\ Cardinality(TrackedIn(w)) \in Nat
<1>1. ASSUME NEW q PROVE /\ AddingIn(q) \subseteq Requests /\ IsFiniteSet(AddingIn(q))
                         /\ Cardinality(AddingIn(q)) \in Nat
  <2>1. AddingIn(q) \subseteq Requests
    BY DEF AddingIn
  <2> QED
    BY <2>1, TablesAssumption, FS_Subset, FS_CardinalityType
<1>2. ASSUME NEW w PROVE /\ TrackedIn(w) \subseteq Keys /\ IsFiniteSet(TrackedIn(w))
                         /\ Cardinality(TrackedIn(w)) \in Nat
  <2>1. TrackedIn(w) \subseteq Keys
    BY DEF TrackedIn
  <2> QED
    BY <2>1, TablesAssumption, FS_Subset, FS_CardinalityType
<1> QED
  BY <1>1, <1>2

LEMMA BecomeAdds ==
  ASSUME TablesInv, NEW r \in Requests, NEW s, Become(r, s)
  PROVE  /\ request' = [request EXCEPT ![r] = s] /\ request \in [Requests -> RequestRecord]
         /\ adders' \in Nat /\ adders \in Nat
         /\ adders <= adders' /\ Cardinality(AddingIn(request')) <= adders'
<1>1. AddingIn(request') = Adding'
  BY DEF AddingIn, Adding
<1>2. Cardinality(AddingIn(request')) = Cardinality(Adding')
  BY <1>1, Zenon
<1>3. Cardinality(AddingIn(request')) \in Nat /\ adders \in Nat
  BY Sizes DEF TablesInv, TypeOK
<1> QED
  BY <1>2, <1>3 DEF Become, Greater, TablesInv, TypeOK

(* Nothing more is tracked and nobody else is adding.                      *)
LEMMA NoMoreAdders ==
  ASSUME TablesInv, LimitInv, NEW r \in Requests, NEW s, Become(r, s),
         TrackedIn(rows') \subseteq TrackedIn(rows),
         s.op = "add" /\ s.list = "tracked" =>
           request[r].op = "add" /\ request[r].list = "tracked"
  PROVE  LimitInv'
<1>1. /\ request' = [request EXCEPT ![r] = s] /\ request \in [Requests -> RequestRecord]
      /\ adders' \in Nat /\ adders \in Nat
      /\ adders <= adders' /\ Cardinality(AddingIn(request')) <= adders'
  BY BecomeAdds
<1>2. AddingIn(request') \subseteq AddingIn(request)
  BY <1>1 DEF AddingIn
<1>3. /\ Cardinality(AddingIn(request')) <= Cardinality(AddingIn(request))
      /\ Cardinality(TrackedIn(rows')) <= Cardinality(TrackedIn(rows))
  BY <1>2, Sizes, FS_Subset
<1>4. /\ Cardinality(AddingIn(request')) \in Nat /\ Cardinality(AddingIn(request)) \in Nat
      /\ Cardinality(TrackedIn(rows')) \in Nat /\ Cardinality(TrackedIn(rows)) \in Nat
  BY Sizes
<1> QED
  BY <1>1, <1>3, <1>4, TablesAssumption DEF LimitInv, Greater

LEMMA LimitStep == TablesInv /\ LimitInv /\ [Next]_vars => LimitInv'
<1> SUFFICES ASSUME TablesInv, LimitInv, [Next]_vars PROVE LimitInv'
  OBVIOUS
<1>1. CASE UNCHANGED vars
  BY <1>1 DEF LimitInv, vars, committed, history
<1>2. ASSUME NEW r \in Requests, NEW s, Become(r, s), Uncommitted,
             s.op = "add" /\ s.list = "tracked" =>
               request[r].op = "add" /\ request[r].list = "tracked"
      PROVE  LimitInv'
  <2>1. rows' = rows
    BY <1>2 DEF Uncommitted, committed
  <2>2. TrackedIn(rows') \subseteq TrackedIn(rows)
    BY <2>1
  <2> QED
    BY <1>2, <2>2, NoMoreAdders
<1>3. ASSUME NEW r \in Requests, NEW k \in Keys, CountTracked(r, k)
      PROVE  LimitInv'
  <2>1. rows' = rows /\ TrackedCount <= Limit - 1
    <3>1. Cardinality(TrackedIn(rows)) \in Nat /\ TrackedCount = Cardinality(TrackedIn(rows))
      BY Sizes DEF TrackedCount, TrackedIn
    <3> QED
      BY <1>3, <3>1, TablesAssumption DEF CountTracked, CheckLimit, Uncommitted, committed
  <2>2. Cardinality(TrackedIn(rows')) <= Limit - 1
    BY <2>1 DEF TrackedCount, TrackedIn
  <2>3. PICK s : Become(r, s)
    BY <1>3 DEF CountTracked
  <2>4. adders' \in Nat /\ Cardinality(AddingIn(request')) <= adders'
    BY <2>3, BecomeAdds
  <2>5. Cardinality(AddingIn(request')) \in Nat /\ Cardinality(TrackedIn(rows')) \in Nat
    BY Sizes
  <2> QED
    BY <2>2, <2>4, <2>5, TablesAssumption DEF LimitInv, Greater
<1>4. ASSUME NEW r \in Requests, Leave(r), TrackedIn(rows') \subseteq TrackedIn(rows)
      PROVE  LimitInv'
  <2>1. Become(r, IdleRequest) /\ IdleRequest.op # "add"
    BY <1>4 DEF Leave, IdleRequest
  <2> QED
    BY <1>4, <2>1, NoMoreAdders
<1>5. ASSUME NEW r \in Requests, Commit(r), ~CommitAdd(r)
      PROVE  LimitInv'
  <2>1. CASE CommitRemove(r)
    <3> DEFINE l == request[r].list  k == request[r].key
    <3>1. WellFormed(request[r]) /\ request[r].op = "remove"
      BY <2>1 DEF TablesInv, CommitRemove
    <3>2. l \in Lists /\ k \in Keys /\ rows \in [Lists -> [Keys -> Nat]]
      BY <3>1 DEF WellFormed, TablesInv, TypeOK
    <3>3. PICK n : /\ rows' = [rows EXCEPT ![l][k] = n]
                   /\ n = rows[l][k] - 1 \/ n = 0
      BY <2>1 DEF CommitRemove
    <3>4. ASSUME NEW j \in Keys, rows'["tracked"][j] > 0 PROVE rows["tracked"][j] > 0
      BY <3>2, <3>3, <3>4 DEF Lists
    <3>5. TrackedIn(rows') \subseteq TrackedIn(rows)
      BY <3>4 DEF TrackedIn
    <3> QED
      BY <1>4, <1>5, <3>5 DEF Commit
  <2>2. CASE ~CommitRemove(r)
    <3>1. rows' = rows
      BY <1>5, <2>2 DEF Commit, CommitTemplate, CommitNothing, CommitDelete
    <3>2. TrackedIn(rows') \subseteq TrackedIn(rows)
      BY <3>1
    <3> QED
      BY <1>4, <1>5, <3>2 DEF Commit
  <2> QED
    BY <2>1, <2>2
<1>6. ASSUME NEW r \in Requests, Commit(r), CommitAdd(r)
      PROVE  LimitInv'
  <2> DEFINE l == request[r].list  k == request[r].key
  <2>1. /\ WellFormed(request[r]) /\ request[r].op = "add"
        /\ rows' = [rows EXCEPT ![l][k] = rows[l][k] + 1] /\ Leave(r)
    BY <1>6 DEF TablesInv, CommitAdd, Commit
  <2>2. l \in Lists /\ k \in Keys /\ rows \in [Lists -> [Keys -> Nat]]
    BY <2>1 DEF WellFormed, TablesInv, TypeOK
  <2>3. CASE l # "tracked"
    <3>1. TrackedIn(rows') \subseteq TrackedIn(rows)
      BY <2>1, <2>2, <2>3 DEF TrackedIn, Lists
    <3> QED
      BY <1>4, <2>1, <3>1
  <2>4. CASE l = "tracked"
    <3>1. TrackedIn(rows') \subseteq TrackedIn(rows) \cup {k}
      BY <2>1, <2>2, <2>4 DEF TrackedIn, Lists
    <3>2. Cardinality(TrackedIn(rows')) <= Cardinality(TrackedIn(rows)) + 1
      <4>1. /\ IsFiniteSet(TrackedIn(rows) \cup {k})
            /\ Cardinality(TrackedIn(rows) \cup {k}) \in Nat
            /\ Cardinality(TrackedIn(rows) \cup {k}) <= Cardinality(TrackedIn(rows)) + 1
        <5>1. PICK S : S = TrackedIn(rows) /\ IsFiniteSet(S) /\ Cardinality(S) \in Nat
          BY Sizes
        <5>2. /\ IsFiniteSet(S \cup {k})
              /\ Cardinality(S \cup {k}) = Cardinality(S) \/ Cardinality(S \cup {k}) = Cardinality(S) + 1
          BY <5>1, FS_AddElement
        <5> QED
          BY <5>1, <5>2
      <4>2. Cardinality(TrackedIn(rows')) <= Cardinality(TrackedIn(rows) \cup {k})
        BY <3>1, <4>1, FS_Subset
      <4> QED
        BY <4>1, <4>2, Sizes
    <3>3. Become(r, IdleRequest) /\ IdleRequest.op # "add"
      BY <2>1 DEF Leave, IdleRequest
    <3>4. /\ request' = [request EXCEPT ![r] = IdleRequest]
          /\ request \in [Requests -> RequestRecord]
          /\ adders' \in Nat /\ adders \in Nat
          /\ adders <= adders' /\ Cardinality(AddingIn(request')) <= adders'
      BY <3>3, BecomeAdds
    <3>5. AddingIn(request') = AddingIn(request) \ {r} /\ r \in AddingIn(request)
      BY <2>1, <2>4, <3>3, <3>4 DEF AddingIn
    <3>6. Cardinality(AddingIn(request')) = Cardinality(AddingIn(request)) - 1
      <4>1. Cardinality(AddingIn(request) \ {r}) = Cardinality(AddingIn(request)) - 1
        BY <3>5, Sizes, FS_RemoveElement
      <4> QED
        BY <3>5, <4>1, Zenon
    <3>7. /\ Cardinality(AddingIn(request')) \in Nat /\ Cardinality(AddingIn(request)) \in Nat
          /\ Cardinality(TrackedIn(rows')) \in Nat /\ Cardinality(TrackedIn(rows)) \in Nat
      BY Sizes
    <3> QED
      BY <3>2, <3>4, <3>6, <3>7, TablesAssumption DEF LimitInv, Greater
  <2> QED
    BY <2>3, <2>4
<1>7. ASSUME NEW r \in Requests, Begin(r) PROVE LimitInv'
  <2>1. ASSUME NEW k \in Keys, NEW l \in Lists \ {"tracked"}, BeginAdd(r, l, k) PROVE LimitInv'
    <3>1. Become(r, OnList("add", "insert", l, k)) /\ Uncommitted
      BY <2>1 DEF BeginAdd
    <3> QED
      BY <1>2, <3>1 DEF OnList
  <2>2. ASSUME NEW k \in Keys, NEW l \in Lists, Remove(r, l, k) PROVE LimitInv'
    <3>1. Become(r, OnList("remove", "commit", l, k)) /\ Uncommitted
      BY <2>2 DEF Remove
    <3> QED
      BY <1>2, <3>1 DEF OnList
  <2>3. ASSUME NEW op, NEW step, NEW i, NEW n, NEW d,
               Become(r, OnTemplate(op, step, i, n, d)), Uncommitted
        PROVE  LimitInv'
    BY <1>2, <2>3 DEF OnTemplate
  <2> QED
    BY <1>3, <1>7, <2>1, <2>2, <2>3
       DEF Begin, delete_tracked_trader, remove_market_from_watchlist,
           add_market_to_watchlist, register, CreateTemplate, UpdateTemplate, DeleteTemplate, Lists
<1>8. ASSUME NEW r \in Requests, Continue(r), ~Commit(r) PROVE LimitInv'
  <2>0. request[r] \in RequestRecord
    BY DEF TablesInv, TypeOK
  <2>1. Uncommitted
    BY <1>8 DEF Continue, CheckTracked, Insert, CheckName, FindDefaults, UnsetDefaults,
                InsertTemplate, WriteTemplate, Rollback
  <2>2. \/ Leave(r)
        \/ \E s : Become(r, s) /\ s.op = request[r].op /\ s.list = request[r].list
    <3>2. /\ \A x : [request[r] EXCEPT !.step = x].op = request[r].op
          /\ \A x : [request[r] EXCEPT !.step = x].list = request[r].list
          /\ \A x, y : [request[r] EXCEPT !.step = x, !.seen = y].op = request[r].op
          /\ \A x, y : [request[r] EXCEPT !.step = x, !.seen = y].list = request[r].list
          /\ \A x, y : [request[r] EXCEPT !.step = x, !.id = y].op = request[r].op
          /\ \A x, y : [request[r] EXCEPT !.step = x, !.id = y].list = request[r].list
          /\ \A x, y, z : [request[r] EXCEPT !.step = x, !.id = y, !.name = z].op = request[r].op
          /\ \A x, y, z : [request[r] EXCEPT !.step = x, !.id = y, !.name = z].list = request[r].list
      BY <2>0 DEF RequestRecord
    <3>3. \/ Leave(r)
          \/ \E x : Become(r, [request[r] EXCEPT !.step = x])
          \/ \E x, y : Become(r, [request[r] EXCEPT !.step = x, !.seen = y])
          \/ \E x, y : Become(r, [request[r] EXCEPT !.step = x, !.id = y])
          \/ \E x, y, z : Become(r, [request[r] EXCEPT !.step = x, !.id = y, !.name = z])
      BY <1>8 DEF Continue, CheckTracked, Insert, CheckName, FindDefaults, UnsetDefaults,
                  InsertTemplate, WriteTemplate, Rollback
    <3>4. CASE \E x : Become(r, [request[r] EXCEPT !.step = x])
      <4>1. PICK x, t : t = [request[r] EXCEPT !.step = x] /\ Become(r, t)
        BY <3>4
      <4>2. t.op = request[r].op /\ t.list = request[r].list
        BY <3>2, <4>1
      <4> QED
        BY <4>1, <4>2
    <3>5. CASE \E x, y : Become(r, [request[r] EXCEPT !.step = x, !.seen = y])
      <4>1. PICK x, y, t : t = [request[r] EXCEPT !.step = x, !.seen = y] /\ Become(r, t)
        BY <3>5
      <4>2. t.op = request[r].op /\ t.list = request[r].list
        BY <3>2, <4>1
      <4> QED
        BY <4>1, <4>2
    <3>6. CASE \E x, y : Become(r, [request[r] EXCEPT !.step = x, !.id = y])
      <4>1. PICK x, y, t : t = [request[r] EXCEPT !.step = x, !.id = y] /\ Become(r, t)
        BY <3>6
      <4>2. t.op = request[r].op /\ t.list = request[r].list
        BY <3>2, <4>1
      <4> QED
        BY <4>1, <4>2
    <3>7. CASE \E x, y, z : Become(r, [request[r] EXCEPT !.step = x, !.id = y, !.name = z])
      <4>1. PICK x, y, z, t : /\ t = [request[r] EXCEPT !.step = x, !.id = y, !.name = z]
                              /\ Become(r, t)
        BY <3>7
      <4>2. t.op = request[r].op /\ t.list = request[r].list
        BY <3>2, <4>1
      <4> QED
        BY <4>1, <4>2
    <3> QED
      BY <3>3, <3>4, <3>5, <3>6, <3>7
  <2>3. CASE Leave(r)
    BY <1>2, <2>1, <2>3 DEF Leave, IdleRequest
  <2> QED
    BY <1>2, <2>1, <2>2, <2>3
<1> QED
  BY <1>1, <1>5, <1>6, <1>7, <1>8 DEF Next, Continue

(* However many requests add at once, the list exceeds the limit by no     *)
(* more than the others that were adding.                                  *)
THEOREM LimitIsOverrunByAdders == Spec => []LimitOverrun
<1>1. Init => LimitInv
  <2> SUFFICES ASSUME Init PROVE LimitInv
    OBVIOUS
  <2>1. AddingIn(request) = {} /\ TrackedIn(rows) = {}
    BY DEF Init, AddingIn, TrackedIn, IdleRequest, Lists
  <2>2. Cardinality(AddingIn(request)) = 0 /\ Cardinality(TrackedIn(rows)) = 0
    BY <2>1, FS_EmptySet
  <2> QED
    BY <2>2, TablesAssumption DEF Init, LimitInv, Greater
<1>2. TablesInv /\ LimitInv /\ [Next]_vars => LimitInv'
  BY LimitStep
<1>3. TablesInv /\ LimitInv => LimitOverrun
  <2> SUFFICES ASSUME TablesInv, LimitInv PROVE LimitOverrun
    OBVIOUS
  <2>1. TrackedCount = Cardinality(TrackedIn(rows))
    BY DEF TrackedCount, TrackedIn
  <2>2. Cardinality(AddingIn(request)) \in Nat /\ Cardinality(TrackedIn(rows)) \in Nat
    BY Sizes
  <2>3. adders \in Nat /\ Limit \in Nat
    BY TablesAssumption DEF TablesInv, TypeOK
  <2> QED
    BY <2>1, <2>2, <2>3 DEF LimitInv, LimitOverrun, Greater
<1> QED
  BY TablesInvariant, <1>1, <1>2, <1>3, PTL DEF Spec

(* ---------------------------- the defaults ----------------------------- *)

(* Who is setting a default in the requests q, and the defaults that one   *)
(* of them has found or unset.                                             *)
SettingIn(q) ==
  {r \in Requests : q[r].default = "yes" /\ q[r].step \in {"locking", "write", "commit"}}

Known(q, u, r) == IF q[r].step = "locking" THEN q[r].seen ELSE u[r]

(* Of the defaults that were set since all of these found theirs, each was *)
(* set by one that was setting with all of them.                           *)
Together(q, u, D, n) ==
  \A X \in SUBSET D : \A Y \in SUBSET SettingIn(q) :
    (\A y \in Y : X \cap Known(q, u, y) = {}) => Cardinality(X) + Cardinality(Y) <= n

SettersInv ==
  /\ \A r \in Requests : request[r].default = "yes" => request[r].op \in {"create", "update"}
  /\ Together(request, unset, defaults, setters)

LEMMA SmallSets ==
  /\ \A X \in SUBSET Ids : IsFiniteSet(X) /\ Cardinality(X) \in Nat
  /\ \A Y \in SUBSET Requests : IsFiniteSet(Y) /\ Cardinality(Y) \in Nat
  BY TablesAssumption, FS_Subset, FS_CardinalityType

LEMMA BecomeSets ==
  ASSUME TablesInv, NEW r \in Requests, NEW s, Become(r, s)
  PROVE  /\ \A q \in Requests : request'[q] = IF q = r THEN s ELSE request[q]
         /\ setters' \in Nat /\ setters \in Nat
         /\ setters <= setters' /\ Cardinality(SettingIn(request')) <= setters'
<1>1. SettingIn(request') = Setting'
  BY DEF SettingIn, Setting
<1>2. Cardinality(SettingIn(request')) = Cardinality(Setting')
  BY <1>1, Zenon
<1>3. SettingIn(request') \subseteq Requests
  BY DEF SettingIn
<1>4. Cardinality(SettingIn(request')) \in Nat /\ setters \in Nat
  BY <1>3, SmallSets DEF TablesInv, TypeOK
<1>5. request \in [Requests -> RequestRecord]
  BY DEF TablesInv, TypeOK
<1> QED
  BY <1>2, <1>4, <1>5 DEF Become, Greater

(* No default is set, nobody starts to set one, and everybody keeps what   *)
(* they know.                                                              *)
LEMMA NothingSet ==
  ASSUME TablesInv, Together(request, unset, defaults, setters),
         NEW r \in Requests, NEW s, Become(r, s), defaults' \subseteq defaults,
         s.default = "yes" /\ s.step \in {"locking", "write", "commit"} =>
           /\ r \in SettingIn(request)
           /\ Known(request, unset, r) \cap defaults' \subseteq Known(request', unset', r),
         \A q \in Others(r) : unset'[q] = unset[q]
  PROVE  Together(request', unset', defaults', setters')
<1>1. /\ \A q \in Requests : request'[q] = IF q = r THEN s ELSE request[q]
      /\ setters' \in Nat /\ setters \in Nat /\ setters <= setters'
  BY BecomeSets
<1> SUFFICES ASSUME NEW X \in SUBSET defaults', NEW Y \in SUBSET SettingIn(request'),
                    \A y \in Y : X \cap Known(request', unset', y) = {}
             PROVE  Cardinality(X) + Cardinality(Y) <= setters'
  BY DEF Together
<1>2. Y \subseteq Requests /\ X \subseteq Ids
  BY DEF SettingIn, TablesInv, TypeOK
<1>3. Y \subseteq SettingIn(request)
  BY <1>1, <1>2 DEF SettingIn
<1>4. ASSUME NEW y \in Y PROVE X \cap Known(request, unset, y) = {}
  <2>1. CASE y = r
    <3>1. s.default = "yes" /\ s.step \in {"locking", "write", "commit"}
      BY <1>1, <2>1 DEF SettingIn
    <3> QED
      BY <2>1, <3>1
  <2>2. CASE y # r
    <3>1. Known(request', unset', y) = Known(request, unset, y)
      BY <1>1, <1>2, <2>2 DEF Known, Others
    <3> QED
      BY <3>1
  <2> QED
    BY <2>1, <2>2
<1>5. Cardinality(X) + Cardinality(Y) <= setters
  BY <1>3, <1>4 DEF Together
<1>6. Cardinality(X) \in Nat /\ Cardinality(Y) \in Nat
  BY <1>2, SmallSets
<1> QED
  BY <1>1, <1>5, <1>6

(* Who finds the defaults knows all of them.                               *)
LEMMA FoundTogether ==
  ASSUME TablesInv, SettersInv, NEW r \in Requests, FindDefaults(r)
  PROVE  Together(request', unset', defaults', setters')
<1> DEFINE s == [request[r] EXCEPT !.step = "locking", !.seen = defaults]
<1>1. /\ \A q \in Requests : request'[q] = IF q = r THEN s ELSE request[q]
      /\ setters' \in Nat /\ setters \in Nat
      /\ setters <= setters' /\ Cardinality(SettingIn(request')) <= setters'
  BY BecomeSets DEF FindDefaults
<1>2. /\ defaults' = defaults /\ unset' = unset /\ request[r] \in RequestRecord
      /\ defaults \subseteq Ids
  BY DEF FindDefaults, Uncommitted, committed, TablesInv, TypeOK
<1>3. s.step = "locking" /\ s.seen = defaults
  BY <1>2 DEF RequestRecord
<1> HIDE DEF s
<1> SUFFICES ASSUME NEW X \in SUBSET defaults', NEW Y \in SUBSET SettingIn(request'),
                    \A y \in Y : X \cap Known(request', unset', y) = {}
             PROVE  Cardinality(X) + Cardinality(Y) <= setters'
  BY DEF Together
<1>4. Y \subseteq Requests /\ X \subseteq Ids /\ SettingIn(request') \subseteq Requests
  BY <1>2 DEF SettingIn
<1>5. Cardinality(X) \in Nat /\ Cardinality(Y) \in Nat
  BY <1>4, SmallSets
<1>6. CASE r \in Y
  <2>1. Known(request', unset', r) = defaults
    BY <1>1, <1>3 DEF Known
  <2>2. X = {}
    BY <1>2, <1>6, <2>1
  <2>3. Cardinality(X) = 0
    BY <2>2, FS_EmptySet
  <2>4. Cardinality(Y) <= Cardinality(SettingIn(request'))
    BY <1>4, SmallSets, FS_Subset
  <2>5. Cardinality(SettingIn(request')) \in Nat
    BY <1>4, SmallSets
  <2> QED
    BY <1>1, <1>5, <2>3, <2>4, <2>5
<1>7. CASE r \notin Y
  <2>1. Y \subseteq SettingIn(request)
    BY <1>1, <1>4, <1>7 DEF SettingIn
  <2>2. ASSUME NEW y \in Y PROVE Known(request', unset', y) = Known(request, unset, y)
    <3>1. y # r /\ y \in Requests
      BY <1>4, <1>7
    <3> QED
      BY <1>1, <1>2, <3>1 DEF Known
  <2>3. Cardinality(X) + Cardinality(Y) <= setters
    BY <1>2, <2>1, <2>2 DEF SettersInv, Together
  <2> QED
    BY <1>1, <1>5, <2>3
<1> QED
  BY <1>6, <1>7

(* Who sets one was setting with all who do not know it, and nor do they   *)
(* the ones it leaves.                                                     *)
LEMMA SetTogether ==
  ASSUME TablesInv, SettersInv, NEW r \in Requests, Commit(r), CommitTemplate(r),
         request[r].default = "yes"
  PROVE  Together(request', unset', defaults', setters')
<1>0. PICK i : i = request[r].id
  OBVIOUS
<1>1. /\ \A q \in Requests : request'[q] = IF q = r THEN IdleRequest ELSE request[q]
      /\ setters' \in Nat /\ setters \in Nat /\ setters <= setters'
  BY BecomeSets DEF Commit, Leave
<1>2. /\ defaults' = (defaults \ unset[r]) \cup {i} /\ unset \in [Requests -> SUBSET Ids]
      /\ unset' = [unset EXCEPT ![r] = {}] /\ request[r].step = "commit"
      /\ defaults \subseteq Ids
  BY <1>0 DEF CommitTemplate, NewDefaults, Commit, Leave, Writing, TablesInv, TypeOK
<1>3. i \in Ids
  BY <1>0 DEF CommitTemplate, TablesInv, TypeOK, RequestRecord
<1> SUFFICES ASSUME NEW X \in SUBSET defaults', NEW Y \in SUBSET SettingIn(request'),
                    \A y \in Y : X \cap Known(request', unset', y) = {}
             PROVE  Cardinality(X) + Cardinality(Y) <= setters'
  BY DEF Together
<1>4. Y \subseteq Requests /\ X \subseteq Ids
  BY <1>2, <1>3 DEF SettingIn
<1>5. r \notin Y /\ Y \subseteq SettingIn(request)
  BY <1>1, <1>4 DEF SettingIn, IdleRequest
<1>6. ASSUME NEW y \in Y PROVE Known(request', unset', y) = Known(request, unset, y)
  <2>1. y # r /\ y \in Requests
    BY <1>4, <1>5
  <2> QED
    BY <1>1, <1>2, <2>1 DEF Known
<1>7. Cardinality(X) \in Nat /\ Cardinality(Y) \in Nat /\ IsFiniteSet(X) /\ IsFiniteSet(Y)
  BY <1>4, SmallSets
<1>8. CASE i \notin X
  <2>1. X \in SUBSET defaults
    BY <1>2, <1>8
  <2>2. Cardinality(X) + Cardinality(Y) <= setters
    BY <1>5, <1>6, <2>1 DEF SettersInv, Together
  <2> QED
    BY <1>1, <1>7, <2>2
<1>9. CASE i \in X
  <2>1. PICK Z, W : Z = X \ {i} /\ W = Y \cup {r}
    OBVIOUS
  <2>2. Z \in SUBSET defaults /\ Z \cap unset[r] = {}
    BY <1>2, <2>1
  <2>3. W \in SUBSET SettingIn(request)
    BY <1>2, <1>5, <2>1 DEF SettingIn
  <2>4. \A y \in W : Z \cap Known(request, unset, y) = {}
    <3>1. Known(request, unset, r) = unset[r]
      BY <1>2 DEF Known
    <3>2. ASSUME NEW y \in Y PROVE Z \cap Known(request, unset, y) = {}
      BY <1>6, <2>1
    <3> QED
      BY <2>1, <2>2, <3>1, <3>2
  <2>5. Cardinality(Z) + Cardinality(W) <= setters
    BY <2>2, <2>3, <2>4 DEF SettersInv, Together
  <2>6. Cardinality(Z) = Cardinality(X) - 1
    BY <1>7, <1>9, <2>1, FS_RemoveElement
  <2>7. Cardinality(W) = Cardinality(Y) + 1
    BY <1>5, <1>7, <2>1, FS_AddElement
  <2> QED
    BY <1>1, <1>7, <2>5, <2>6, <2>7
<1> QED
  BY <1>8, <1>9

LEMMA SettersKept ==
  ASSUME TablesInv, SettersInv, NEW r \in Requests, NEW s, Become(r, s),
         s.default = "yes" => s.op \in {"create", "update"},
         Together(request', unset', defaults', setters')
  PROVE  SettersInv'
<1>1. \A q \in Requests : request'[q] = IF q = r THEN s ELSE request[q]
  BY BecomeSets
<1>2. \A q \in Requests : request'[q].default = "yes" => request'[q].op \in {"create", "update"}
  BY <1>1 DEF SettersInv
<1> QED
  BY <1>2 DEF SettersInv

LEMMA SettersStep == TablesInv /\ SettersInv /\ [Next]_vars => SettersInv'
<1> SUFFICES ASSUME TablesInv, SettersInv, [Next]_vars PROVE SettersInv'
  OBVIOUS
<1>0. \A r \in Requests : request[r] \in RequestRecord /\ WellFormed(request[r])
  BY DEF TablesInv, TypeOK
<1>a. unset \in [Requests -> SUBSET Ids]
  BY DEF TablesInv, TypeOK
<1>1. CASE UNCHANGED vars
  BY <1>1 DEF SettersInv, vars, committed, history
<1>2. ASSUME NEW r \in Requests, NEW s, Become(r, s), defaults' \subseteq defaults,
             s.default = "yes" => s.op \in {"create", "update"} /\ s.step \notin {"locking", "write", "commit"},
             \A q \in Others(r) : unset'[q] = unset[q]
      PROVE  SettersInv'
  <2>1. Together(request', unset', defaults', setters')
    BY <1>2, NothingSet DEF SettersInv
  <2> QED
    BY <1>2, <2>1, SettersKept
<1>3. ASSUME NEW r \in Requests, Leave(r), defaults' \subseteq defaults
      PROVE  SettersInv'
  <2>1. Become(r, IdleRequest) /\ IdleRequest.default # "yes"
    BY <1>3 DEF Leave, IdleRequest
  <2>2. \A q \in Others(r) : unset'[q] = unset[q]
    BY <1>a, <1>3 DEF Leave, Others
  <2> QED
    BY <1>2, <1>3, <2>1, <2>2
<1>4. ASSUME NEW r \in Requests, NEW s, Become(r, s), unset' = unset, defaults' = defaults,
             s.default = "yes" => request[r].default = "yes" /\ s.op = request[r].op,
             s.step = "commit", request[r].step = "write" \/ request[r].default # "yes"
      PROVE  SettersInv'
  <2>1. request'[r] = s
    BY <1>4, BecomeSets
  <2>2. s.default = "yes" => r \in SettingIn(request) /\ Known(request, unset, r) = unset[r]
    BY <1>4 DEF SettingIn, Known
  <2>3. Known(request', unset', r) = unset[r]
    BY <1>4, <2>1 DEF Known
  <2>4. Together(request', unset', defaults', setters')
    <3>1. s.default = "yes" => Known(request, unset, r) \cap defaults' \subseteq Known(request', unset', r)
      BY <2>2, <2>3
    <3>2. \A q \in Others(r) : unset'[q] = unset[q]
      BY <1>4
    <3> QED
      BY <1>4, <2>2, <3>1, <3>2, NothingSet DEF SettersInv
  <2> QED
    BY <1>4, <2>4, SettersKept DEF SettersInv
<1>5. ASSUME NEW r \in Requests, Begin(r) PROVE SettersInv'
  <2>1. unset' = unset /\ defaults' = defaults
    BY <1>5 DEF Begin, CountTracked, delete_tracked_trader, Remove, add_market_to_watchlist,
         remove_market_from_watchlist, register, BeginAdd, CreateTemplate, UpdateTemplate,
         DeleteTemplate, Uncommitted, committed
  <2>2. ASSUME NEW op, NEW step, NEW l, NEW k, Become(r, OnList(op, step, l, k))
        PROVE  SettersInv'
    <3>1. OnList(op, step, l, k).default # "yes"
      BY DEF OnList
    <3> QED
      BY <1>2, <2>1, <2>2, <3>1
  <2>3. ASSUME NEW op \in {"create", "update"}, NEW d, NEW step \in {"check", FirstWrite(d)},
               NEW i, NEW n, Become(r, OnTemplate(op, step, i, n, d))
        PROVE  SettersInv'
    <3> DEFINE s == OnTemplate(op, step, i, n, d)
    <3>1. s.default = d /\ s.op = op /\ s.step = step
      BY DEF OnTemplate
    <3>2. d = "yes" => step \in {"check", "unset"}
      BY DEF FirstWrite
    <3> HIDE DEF s
    <3>3. s.default = "yes" => s.op \in {"create", "update"} /\ s.step \notin {"locking", "write", "commit"}
      BY <3>1, <3>2
    <3> QED
      BY <1>2, <2>1, <2>3, <3>3 DEF s
  <2>4. ASSUME NEW i, Become(r, OnTemplate("delete", "commit", i, NoName, "keep"))
        PROVE  SettersInv'
    <3>1. OnTemplate("delete", "commit", i, NoName, "keep").default # "yes"
      BY DEF OnTemplate
    <3> QED
      BY <1>2, <2>1, <2>4, <3>1
  <2>5. ASSUME NEW n, NEW d, CreateTemplate(r, n, d) PROVE SettersInv'
    BY <2>3, <2>5 DEF CreateTemplate
  <2>6. ASSUME NEW i, NEW n, NEW d, UpdateTemplate(r, i, n, d) PROVE SettersInv'
    <3>1. PICK step \in {"check", FirstWrite(d)} : Become(r, OnTemplate("update", step, i, n, d))
      BY <2>6 DEF UpdateTemplate
    <3> QED
      BY <2>3, <3>1
  <2>7. ASSUME NEW i, DeleteTemplate(r, i) PROVE SettersInv'
    BY <2>4, <2>7 DEF DeleteTemplate
  <2>8. ASSUME NEW k, \/ CountTracked(r, k) \/ delete_tracked_trader(r, k)
                     \/ add_market_to_watchlist(r, k) \/ remove_market_from_watchlist(r, k)
                     \/ register(r, k)
        PROVE SettersInv'
    BY <2>2, <2>8 DEF CountTracked, delete_tracked_trader, Remove, add_market_to_watchlist,
         remove_market_from_watchlist, register, BeginAdd
  <2> QED
    BY <1>5, <2>5, <2>6, <2>7, <2>8 DEF Begin
<1>6. ASSUME NEW r \in Requests, CheckTracked(r) \/ CheckName(r) PROVE SettersInv'
  <2>1. defaults' = defaults
    BY <1>6 DEF CheckTracked, CheckName, Uncommitted, committed
  <2>2. CASE Leave(r)
    BY <1>3, <2>1, <2>2
  <2>3. CASE CheckTracked(r) /\ ~Leave(r)
    <3> DEFINE s == [request[r] EXCEPT !.step = "insert"]
    <3>1. Become(r, s) /\ unset' = unset /\ request[r].op = "add"
      BY <2>3 DEF CheckTracked
    <3>2. s.default # "yes"
      BY <1>0, <3>1 DEF SettersInv, RequestRecord
    <3> QED
      BY <1>2, <2>1, <3>1, <3>2
  <2>4. CASE CheckName(r) /\ ~Leave(r)
    <3> DEFINE s == [request[r] EXCEPT !.step = FirstWrite(request[r].default)]
    <3>1. Become(r, s) /\ unset' = unset /\ request[r].op = "update"
      BY <2>4 DEF CheckName
    <3>2. s.op = "update" /\ (s.default = "yes" => s.step = "unset")
      BY <1>0, <3>1 DEF RequestRecord, FirstWrite
    <3> HIDE DEF s
    <3> QED
      BY <1>2, <2>1, <3>1, <3>2
  <2> QED
    BY <1>6, <2>2, <2>3, <2>4
<1>7. ASSUME NEW r \in Requests, Insert(r) \/ InsertTemplate(r) \/ WriteTemplate(r)
      PROVE  SettersInv'
  <2>1. defaults' = defaults
    BY <1>7 DEF Insert, InsertTemplate, WriteTemplate, Uncommitted, committed
  <2>2. CASE Leave(r)
    BY <1>3, <2>1, <2>2
  <2>3. CASE ~Leave(r)
    <3>1. /\ unset' = unset
          /\ \/ Become(r, [request[r] EXCEPT !.step = "commit"])
             \/ \E y : Become(r, [request[r] EXCEPT !.step = "commit", !.id = y])
             \/ \E y, z : Become(r, [request[r] EXCEPT !.step = "commit", !.id = y, !.name = z])
          /\ request[r].step = "write" \/ request[r].step = "insert"
      BY <1>7, <2>3 DEF Insert, InsertTemplate, WriteTemplate
    <3>2. request[r].step = "insert" => request[r].default # "yes"
      BY <1>0 DEF WellFormed, SettersInv
    <3>3. PICK s : /\ Become(r, s)
                   /\ \/ s = [request[r] EXCEPT !.step = "commit"]
                      \/ \E y : s = [request[r] EXCEPT !.step = "commit", !.id = y]
                      \/ \E y, z : s = [request[r] EXCEPT !.step = "commit", !.id = y, !.name = z]
      <4>1. CASE Become(r, [request[r] EXCEPT !.step = "commit"])
        BY <4>1
      <4>2. CASE \E y : Become(r, [request[r] EXCEPT !.step = "commit", !.id = y])
        <5>1. PICK y : Become(r, [request[r] EXCEPT !.step = "commit", !.id = y])
          BY <4>2
        <5>2. PICK t : t = [request[r] EXCEPT !.step = "commit", !.id = y]
          OBVIOUS
        <5> QED
          BY <5>1, <5>2
      <4>3. CASE \E y, z : Become(r, [request[r] EXCEPT !.step = "commit", !.id = y, !.name = z])
        <5>1. PICK y, z : Become(r, [request[r] EXCEPT !.step = "commit", !.id = y, !.name = z])
          BY <4>3
        <5>2. PICK t : t = [request[r] EXCEPT !.step = "commit", !.id = y, !.name = z]
          OBVIOUS
        <5> QED
          BY <5>1, <5>2
      <4> QED
        BY <3>1, <4>1, <4>2, <4>3
    <3>4. s.step = "commit" /\ s.op = request[r].op /\ s.default = request[r].default
      BY <1>0, <3>3 DEF RequestRecord
    <3> QED
      BY <1>4, <2>1, <3>1, <3>2, <3>3, <3>4
  <2> QED
    BY <2>2, <2>3
<1>8. ASSUME NEW r \in Requests, FindDefaults(r) PROVE SettersInv'
  <2> DEFINE s == [request[r] EXCEPT !.step = "locking", !.seen = defaults]
  <2>1. Become(r, s) /\ s.op = request[r].op /\ s.default = request[r].default
    BY <1>0, <1>8 DEF FindDefaults, RequestRecord
  <2> HIDE DEF s
  <2> QED
    BY <1>8, <2>1, FoundTogether, SettersKept DEF SettersInv
<1>9. ASSUME NEW r \in Requests, UnsetDefaults(r) PROVE SettersInv'
  <2> DEFINE s == [request[r] EXCEPT !.step = "write", !.seen = {}]
  <2>1. /\ Become(r, s) /\ request[r].step = "locking" /\ defaults' = defaults
        /\ unset' = [unset EXCEPT ![r] = request[r].seen \cap defaults]
    BY <1>9 DEF UnsetDefaults, Found, Uncommitted, committed
  <2>2. s.step = "write" /\ s.op = request[r].op /\ s.default = request[r].default
    BY <1>0 DEF RequestRecord
  <2> HIDE DEF s
  <2>3. request'[r] = s
    BY <2>1, BecomeSets
  <2>4. Known(request, unset, r) = request[r].seen
    BY <2>1 DEF Known
  <2>5. Known(request', unset', r) = request[r].seen \cap defaults
    BY <1>a, <2>1, <2>2, <2>3 DEF Known
  <2>6. s.default = "yes" => r \in SettingIn(request)
    BY <2>1, <2>2 DEF SettingIn
  <2>7. Known(request, unset, r) \cap defaults' \subseteq Known(request', unset', r)
    BY <2>1, <2>4, <2>5
  <2>8. \A q \in Others(r) : unset'[q] = unset[q]
    BY <1>a, <2>1 DEF Others
  <2>9. Together(request', unset', defaults', setters')
    BY <2>1, <2>6, <2>7, <2>8, NothingSet DEF SettersInv
  <2> QED
    BY <2>1, <2>2, <2>9, SettersKept DEF SettersInv
<1>10. ASSUME NEW r \in Requests, Commit(r) PROVE SettersInv'
  <2>1. Leave(r)
    BY <1>10 DEF Commit
  <2>2. CASE CommitTemplate(r) /\ request[r].default = "yes"
    <3>1. Become(r, IdleRequest) /\ IdleRequest.default # "yes"
      BY <2>1 DEF Leave, IdleRequest
    <3>2. Together(request', unset', defaults', setters')
      BY <1>10, <2>2, SetTogether
    <3> QED
      BY <3>1, <3>2, SettersKept
  <2>3. CASE ~(CommitTemplate(r) /\ request[r].default = "yes")
    <3>1. defaults' \subseteq defaults
      BY <1>10, <2>3 DEF Commit, CommitAdd, CommitRemove, CommitTemplate, CommitNothing,
                         CommitDelete, NewDefaults
    <3> QED
      BY <1>3, <2>1, <3>1
  <2> QED
    BY <2>2, <2>3
<1>11. ASSUME NEW r \in Requests, Rollback(r) PROVE SettersInv'
  BY <1>3, <1>11 DEF Rollback, Uncommitted, committed
<1> QED
  BY <1>1, <1>5, <1>6, <1>7, <1>8, <1>9, <1>10, <1>11 DEF Next, Continue

(* However many requests set a default at once, there are no more defaults *)
(* than these: each replaces all that its search could have found.         *)
THEOREM DefaultsAreBoundedBySetters == Spec => []DefaultsBounded
<1>1. Init => SettersInv
  <2> SUFFICES ASSUME Init PROVE SettersInv
    OBVIOUS
  <2>1. SettingIn(request) = {} /\ defaults = {} /\ setters = 0
    BY DEF Init, SettingIn, IdleRequest
  <2>2. \A X \in SUBSET defaults : \A Y \in SUBSET SettingIn(request) : X = {} /\ Y = {}
    BY <2>1
  <2>3. Together(request, unset, defaults, setters)
    BY <2>1, <2>2, FS_EmptySet DEF Together
  <2> QED
    BY <2>3 DEF Init, SettersInv, IdleRequest
<1>2. TablesInv /\ SettersInv /\ [Next]_vars => SettersInv'
  BY SettersStep
<1>3. TablesInv /\ SettersInv => DefaultsBounded
  <2> SUFFICES ASSUME TablesInv, SettersInv PROVE DefaultsBounded
    OBVIOUS
  <2>1. Cardinality(defaults) + Cardinality({}) <= setters
    BY DEF SettersInv, Together
  <2>2. defaults \subseteq Ids
    BY DEF TablesInv, TypeOK
  <2> QED
    BY <2>1, <2>2, SmallSets, FS_EmptySet DEF DefaultsBounded
<1> QED
  BY TablesInvariant, <1>1, <1>2, <1>3, PTL DEF Spec
=============================================================================
