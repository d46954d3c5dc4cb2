---------------------------- MODULE AccountTables ----------------------------
(***************************************************************************)
(* The rows a user keeps in PostgreSQL through the API, written by         *)
(* concurrent requests: three lists whose entries are unique (api/auth:    *)
(* users by email; api/tracked_traders: addresses, up to the limit of the  *)
(* tier; api/watchlist: markets) and api/tag_templates, of which one is    *)
(* the default.  A request is one transaction (db/session.py) of several   *)
(* statements, each of which is a step.                                    *)
(*                                                                         *)
(* PostgreSQL runs them READ COMMITTED: a statement sees what was          *)
(* committed when it began; a statement that writes waits for the          *)
(* transactions that hold its rows or the same value of a unique column,   *)
(* and then looks at those rows again, but not for others.                 *)
(***************************************************************************)
EXTENDS Integers, FiniteSets

CONSTANTS
  Requests,  \* coroutines, each with a session of its own
  Keys,      \* what may be listed
  Limit,     \* tier limit of the tracked traders
  Ids,       \* ids of templates
  Names,     \* names of templates
  NoId,      \* no template
  NoName     \* no name

ASSUME TablesAssumption ==
  /\ IsFiniteSet(Requests) /\ IsFiniteSet(Keys) /\ IsFiniteSet(Ids)
  /\ Limit \in Nat \ {0}
  /\ NoName \notin Names
  /\ NoId \notin Ids

Lists == {"users", "tracked", "watchlist"}

VARIABLES
  rows,      \* committed: the number of rows of each list with each key
  name,      \* committed: the name of each template, NoName if there is none
  defaults,  \* committed: the templates with is_default
  request,   \* the local state of each request
  unset,     \* templates whose is_default a request has unset and not yet committed
  adders,    \* history: how many requests added a tracked trader at once
  setters,   \* history: how many requests set a default at once
  wanted,    \* history: the last change to the default was to set one
  robbed     \* history: a request unset the default for a template that was gone

committed == <<rows, name, defaults>>
history == <<adders, setters, wanted, robbed>>
vars == <<committed, request, unset, history>>

IdleRequest ==
  [step |-> "idle", op |-> "none", list |-> "none", key |-> "none",
   id |-> NoId, name |-> NoName, default |-> "keep", seen |-> {}]

Init ==
  /\ rows = [l \in Lists |-> [k \in Keys |-> 0]]
  /\ name = [i \in Ids |-> NoName]
  /\ defaults = {}
  /\ request = [r \in Requests |-> IdleRequest]
  /\ unset = [r \in Requests |-> {}]
  /\ adders = 0
  /\ setters = 0
  /\ wanted = FALSE
  /\ robbed = FALSE

Greater(a, b) == IF a > b THEN a ELSE b

Others(r) == Requests \ {r}

(* What r has written and not yet committed.                               *)
Writing(r) == request[r].step = "commit"

(* r waits for a transaction that has written a row of this key.           *)
KeyHeld(r, l, k) ==
  \E q \in Others(r) : Writing(q) /\ request[q].list = l /\ request[q].key = k

RowHeld(r, i) ==
  \E q \in Others(r) : i \in unset[q] \/ (Writing(q) /\ request[q].id = i)

(* Another transaction takes this name or gives it up.                     *)
NameHeld(r, n) ==
  \E q \in Others(r) :
    Writing(q) /\ (request[q].name = n \/ \E i \in Ids : request[q].id = i /\ name[i] = n)

Taken(n) == \E i \in Ids : name[i] = n

Adding == {r \in Requests : request[r].op = "add" /\ request[r].list = "tracked"}

(* Whoever is between the search for the defaults and the commit.          *)
Setting ==
  {r \in Requests : /\ request[r].default = "yes"
                    /\ request[r].step \in {"locking", "write", "commit"}}

Become(r, state) ==
  /\ request' = [request EXCEPT ![r] = state]
  /\ adders' = Greater(adders, Cardinality(Adding'))
  /\ setters' = Greater(setters, Cardinality(Setting'))

(* The transaction is over, for whatever reason.                           *)
Leave(r) ==
  /\ Become(r, IdleRequest)
  /\ unset' = [unset EXCEPT ![r] = {}]

Uncommitted == UNCHANGED <<committed, wanted, robbed>>

(* ------------------------------- lists -------------------------------- *)

TrackedCount == Cardinality({k \in Keys : rows["tracked"][k] > 0})

(* CheckLimit that lets one more in.                                       *)
CheckUpTo(n) == n <= Limit

(* check_tier_limit                                                        *)
CheckLimit(n) == n < Limit

OnList(op, step, l, k) ==
  [step |-> step, op |-> op, list |-> l, key |-> k,
   id |-> NoId, name |-> NoName, default |-> "keep", seen |-> {}]

(* add_tracked counts first.                                               *)
CountTracked(r, k) ==
  /\ request[r].step = "idle"
  /\ CheckLimit(TrackedCount)
  /\ Become(r, OnList("add", "check", "tracked", k))
  /\ UNCHANGED unset
  /\ Uncommitted

(* Is there such a row?                                                    *)
BeginAdd(r, l, k) ==
  /\ request[r].step = "idle"
  /\ rows[l][k] = 0
  /\ Become(r, OnList("add", "insert", l, k))
  /\ UNCHANGED unset
  /\ Uncommitted

register(r, k) == BeginAdd(r, "users", k)

(* The market is in ClickHouse.                                            *)
add_market_to_watchlist(r, k) == BeginAdd(r, "watchlist", k)

CheckTracked(r) ==
  /\ request[r].step = "check" /\ request[r].op = "add"
  /\ IF rows["tracked"][request[r].key] > 0 THEN Leave(r)
     ELSE Become(r, [request[r] EXCEPT !.step = "insert"]) /\ UNCHANGED unset
  /\ Uncommitted

(* Unique without the constraint of the table.                             *)
AnyKey(l, k) == TRUE

Unique(l, k) == rows[l][k] = 0

Insert(r) ==
  LET l == request[r].list
      k == request[r].key
  IN  /\ request[r].step = "insert"
      /\ ~KeyHeld(r, l, k)
      /\ IF Unique(l, k) THEN Become(r, [request[r] EXCEPT !.step = "commit"]) /\ UNCHANGED unset
         ELSE Leave(r)
      /\ Uncommitted

(* One statement: a request that waits to begin it has done nothing yet.   *)
Remove(r, l, k) ==
  /\ request[r].step = "idle"
  /\ ~KeyHeld(r, l, k)
  /\ rows[l][k] > 0
  /\ Become(r, OnList("remove", "commit", l, k))
  /\ UNCHANGED unset
  /\ Uncommitted

delete_tracked_trader(r, k) == Remove(r, "tracked", k)

remove_market_from_watchlist(r, k) == Remove(r, "watchlist", k)

(* ----------------------------- templates ------------------------------ *)

OnTemplate(op, step, i, n, d) ==
  [step |-> step, op |-> op, list |-> "none", key |-> "none",
   id |-> i, name |-> n, default |-> d, seen |-> {}]

(* Setting a default begins with unsetting the others.                     *)
FirstWrite(default) == IF default = "yes" THEN "unset" ELSE "write"

CreateTemplate(r, n, d) ==
  /\ request[r].step = "idle"
  /\ ~Taken(n)
  /\ Become(r, OnTemplate("create", FirstWrite(d), NoId, n, d))
  /\ UNCHANGED unset
  /\ Uncommitted

(* The template is there; n is NoName or the new name.                     *)
UpdateTemplate(r, i, n, d) ==
  /\ request[r].step = "idle"
  /\ name[i] # NoName
  /\ Become(r, OnTemplate("update",
                  IF n \in {NoName, name[i]} THEN FirstWrite(d) ELSE "check", i, n, d))
  /\ UNCHANGED unset
  /\ Uncommitted

CheckName(r) ==
  /\ request[r].step = "check" /\ request[r].op = "update"
  /\ IF Taken(request[r].name) THEN Leave(r)
     ELSE /\ Become(r, [request[r] EXCEPT !.step = FirstWrite(request[r].default)])
          /\ UNCHANGED unset
  /\ Uncommitted

(* unset_default_template finds the defaults,                              *)
FindDefaults(r) ==
  /\ request[r].step = "unset"
  /\ Become(r, [request[r] EXCEPT !.step = "locking", !.seen = defaults])
  /\ UNCHANGED unset
  /\ Uncommitted

(* Found that overlooks all of them.                                       *)
FoundNone(r) == {}

(* and unsets those that still are, when it has got hold of them.          *)
Found(r) == request[r].seen \cap defaults

UnsetDefaults(r) ==
  /\ request[r].step = "locking"
  /\ \A i \in request[r].seen : ~RowHeld(r, i)
  /\ unset' = [unset EXCEPT ![r] = Found(r)]
  /\ Become(r, [request[r] EXCEPT !.step = "write", !.seen = {}])
  /\ Uncommitted

(* The INSERT of create_tag_template, under an id nobody knows yet.        *)
InsertTemplate(r) ==
  LET n == request[r].name
  IN  /\ request[r].step = "write" /\ request[r].op = "create"
      /\ ~NameHeld(r, n)
      /\ IF Taken(n) THEN Leave(r)
         ELSE /\ \E i \in Ids : /\ name[i] = NoName
                                /\ \A q \in Requests : request[q].id # i
                                /\ Become(r, [request[r] EXCEPT !.step = "commit", !.id = i])
              /\ UNCHANGED unset
      /\ Uncommitted

Gone(i) == name[i] = NoName

(* The UPDATE of update_tag_template; a template that is gone by now is    *)
(* not an error yet.                                                       *)
WriteTemplate(r) ==
  LET i == request[r].id
      n == request[r].name
      renamed == n \notin {NoName, name[i]}
  IN  /\ request[r].step = "write" /\ request[r].op = "update"
      /\ ~RowHeld(r, i)
      /\ IF Gone(i) THEN
           /\ Become(r, [request[r] EXCEPT !.step = "commit", !.id = NoId, !.name = NoName])
           /\ UNCHANGED unset
         ELSE
           /\ renamed => ~NameHeld(r, n)
           /\ IF renamed /\ Taken(n) THEN Leave(r)
              ELSE Become(r, [request[r] EXCEPT !.step = "commit"]) /\ UNCHANGED unset
      /\ Uncommitted

DeleteTemplate(r, i) ==
  /\ request[r].step = "idle"
  /\ ~RowHeld(r, i)
  /\ name[i] # NoName
  /\ Become(r, OnTemplate("delete", "commit", i, NoName, "keep"))
  /\ UNCHANGED unset
  /\ Uncommitted

(* ------------------------------- commit ------------------------------- *)

CommitAdd(r) ==
  /\ request[r].op = "add"
  /\ rows' = [rows EXCEPT ![request[r].list][request[r].key] = @ + 1]
  /\ UNCHANGED <<name, defaults, wanted, robbed>>

(* The tracked traders are deleted by id, the markets by key.              *)
CommitRemove(r) ==
  /\ request[r].op = "remove"
  /\ rows' = [rows EXCEPT ![request[r].list][request[r].key] =
                IF request[r].list = "tracked" THEN @ - 1 ELSE 0]
  /\ UNCHANGED <<name, defaults, wanted, robbed>>

(* NewDefaults when what was unset is unset after the new default is set.  *)
UnsetLast(r, i) ==
  CASE request[r].default = "yes" -> (defaults \cup {i}) \ unset[r]
    [] request[r].default = "no" -> defaults \ {i}
    [] OTHER -> defaults

(* The defaults after r has set, unset or left alone its template i.       *)
NewDefaults(r, i) ==
  CASE request[r].default = "yes" -> (defaults \ unset[r]) \cup {i}
    [] request[r].default = "no" -> defaults \ {i}
    [] OTHER -> defaults

CommitTemplate(r) ==
  LET i == request[r].id
  IN  /\ request[r].op \in {"create", "update"} /\ i # NoId
      /\ name' = IF request[r].name = NoName THEN name
                 ELSE [name EXCEPT ![i] = request[r].name]
      /\ defaults' = NewDefaults(r, i)
      /\ wanted' = CASE request[r].default = "yes" -> TRUE
                     [] request[r].default = "no" /\ i \in defaults -> FALSE
                     [] OTHER -> wanted
      /\ UNCHANGED <<rows, robbed>>

(* update_template commits before it finds that nothing was updated.       *)
CommitNothing(r) ==
  /\ request[r].op = "update" /\ request[r].id = NoId
  /\ defaults' = defaults \ unset[r]
  /\ robbed' = (robbed \/ unset[r] # {})
  /\ UNCHANGED <<rows, name, wanted>>

CommitDelete(r) ==
  LET i == request[r].id
  IN  /\ request[r].op = "delete"
      /\ name' = [name EXCEPT ![i] = NoName]
      /\ defaults' = defaults \ {i}
      /\ wanted' = (wanted /\ i \notin defaults)
      /\ UNCHANGED <<rows, robbed>>

Commit(r) ==
  /\ Writing(r)
  /\ CommitAdd(r) \/ CommitRemove(r) \/ CommitTemplate(r) \/ CommitNothing(r) \/ CommitDelete(r)
  /\ Leave(r)

(* An error, a lost connection or a deadlock: get_db rolls back.           *)
Rollback(r) ==
  /\ request[r].step # "idle"
  /\ Leave(r)
  /\ Uncommitted

Begin(r) ==
  \/ \E k \in Keys : \/ CountTracked(r, k) \/ delete_tracked_trader(r, k)
                     \/ add_market_to_watchlist(r, k) \/ remove_market_from_watchlist(r, k)
                     \/ register(r, k)
  \/ \E n \in Names, d \in {"keep", "yes"} : CreateTemplate(r, n, d)
  \/ \E i \in Ids : \/ DeleteTemplate(r, i)
                    \/ \E n \in Names \cup {NoName}, d \in {"keep", "yes", "no"} :
                         UpdateTemplate(r, i, n, d)

Continue(r) ==
  \/ CheckTracked(r) \/ Insert(r)
  \/ CheckName(r) \/ FindDefaults(r) \/ UnsetDefaults(r)
  \/ InsertTemplate(r) \/ WriteTemplate(r)
  \/ Commit(r) \/ Rollback(r)

Next == \E r \in Requests : Begin(r) \/ Continue(r)

Spec == Init /\ [][Next]_vars

(* ----------------------------- properties ----------------------------- *)

RequestRecord ==
  [step : {"idle", "check", "insert", "unset", "locking", "write", "commit"},
   op : {"none", "add", "remove", "create", "update", "delete"},
   list : Lists \cup {"none"}, key : Keys \cup {"none"},
   id : Ids \cup {NoId}, name : Names \cup {NoName},
   default : {"keep", "yes", "no"}, seen : SUBSET Ids]

TypeOK ==
  /\ rows \in [Lists -> [Keys -> Nat]]
  /\ name \in [Ids -> Names \cup {NoName}]
  /\ defaults \subseteq {i \in Ids : name[i] # NoName}
  /\ request \in [Requests -> RequestRecord]
  /\ unset \in [Requests -> SUBSET Ids]
  /\ adders \in 0..Cardinality(Requests)
  /\ setters \in 0..Cardinality(Requests)
  /\ wanted \in BOOLEAN
  /\ robbed \in BOOLEAN

(* No email, tracked address or market is there twice, and no two          *)
(* templates share a name, although every request checks for a duplicate   *)
(* before another one has committed it.                                    *)
UniqueKeys ==
  /\ \A l \in Lists, k \in Keys : rows[l][k] <= 1
  /\ \A i, j \in Ids : name[i] = name[j] /\ i # j => name[i] = NoName

(* The tier limit is checked against what is committed: it holds when one  *)
(* request adds at a time, and is exceeded by no more than the number of   *)
(* further requests that were adding at once.                              *)
LimitOverrun == TrackedCount <= Limit - 1 + Greater(adders, 1)

(* A user has one default template, unless requests set a default at the   *)
(* same time: each may miss the others', but none of the earlier ones.     *)
DefaultsBounded == Cardinality(defaults) <= setters

(* A default that was set and then neither unset nor deleted is not lost   *)
(* to a change of the default, unless its template was deleted meanwhile.  *)
DefaultKept == wanted /\ ~robbed => defaults # {}
=============================================================================
