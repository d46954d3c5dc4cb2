--------------------------- MODULE PolymarketProxy ---------------------------
(***************************************************************************)
(* api/polymarket_proxy/client.py: PolymarketProxyClient.get_clob (and     *)
(* get_data and get_gamma, which are the same but for the API) with its    *)
(* cache, circuit breaker, rate limit and retries, for concurrent requests *)
(* of one API.  Requests interleave where the coroutine awaits:            *)
(*                                                                         *)
(*   pacing    asyncio.sleep until the rate limit allows the attempt       *)
(*   sent      the HTTP request                                            *)
(*   backoff   asyncio.sleep before the next attempt                       *)
(*                                                                         *)
(* and run on without interruption in between: the in-memory cache never   *)
(* suspends.  Times are kept as what is left of them: `left` of a cache    *)
(* entry counts down through its lifetime and then the stale period.       *)
(***************************************************************************)
EXTENDS Integers, FiniteSets

CONSTANTS
  Requests,          \* coroutines that may be calling get_clob
  Keys,              \* cache keys
  FailureThreshold,  \* CircuitBreaker.failure_threshold
  RecoveryTimeout,   \* CircuitBreaker.recovery_timeout
  HalfOpenCalls,     \* CircuitBreaker.half_open_max_calls
  MaxRetries,        \* MAX_RETRIES
  Interval,          \* 1 / CLOB_RATE_LIMIT
  Delays,            \* delays between two attempts
  Timeout,           \* the longest an attempt lasts
  CacheTTL,          \* default_ttl
  StaleThreshold,    \* STALE_THRESHOLD
  MaxSize,           \* max_size of the cache
  EvictMore          \* the entries _evict_oldest removes beyond the excess

ASSUME ProxyAssumption ==
  /\ {FailureThreshold, RecoveryTimeout, HalfOpenCalls, MaxRetries} \subseteq Nat \ {0}
  /\ {Interval, Timeout, StaleThreshold, MaxSize} \subseteq Nat
  /\ CacheTTL \in Nat \ {0}
  /\ EvictMore \in Nat \ {0}
  /\ Delays \subseteq Nat /\ Delays # {}
  /\ Keys # {}

VARIABLES
  circuit,   \* the CircuitBreaker of the API
  cooldown,  \* what is left of recovery_timeout since its last_failure_time
  gap,       \* what is left of the interval since the last request
  cache,     \* the entry of each key
  request,   \* the local state of each request
  healthy,   \* the upstream API neither fails nor throttles
  answers,   \* history: answers since the last failure
  failures,  \* history: failures since the last answer
  early,     \* history: requests that were running when the circuit opened
  newest,    \* history: age of the newest data any caller was given, by key
  since,     \* history: time since the last attempt was sent
  crowded    \* history: requests that are pacing while another paced or sent

history == <<answers, failures, early, newest, since, crowded>>
vars == <<circuit, cooldown, gap, cache, request, healthy, history>>

Lower(a, b) == IF a < b THEN a ELSE b

Down(n) == IF n > 0 THEN n - 1 ELSE 0

(* Data older than this are not in use: ages are counted up to here.       *)
MaxAge == CacheTTL + StaleThreshold + Timeout

Older(n) == Lower(n + 1, MaxAge)

(* At this step of attempt n to fetch key k; age counts from here on.      *)
At(step, k, n, wait) ==
  [step |-> step, key |-> k, attempt |-> n, wait |-> wait, age |-> 0]

IdleRequest == At("idle", CHOOSE k \in Keys : TRUE, 0, 0)

Running == {r \in Requests : request[r].step # "idle"}

(* An absent entry has nothing left and is as old as can be.               *)
NoEntry == [kept |-> FALSE, left |-> 0, age |-> MaxAge]

Aged(e) == [kept |-> e.kept, left |-> Down(e.left), age |-> Older(e.age)]

Init ==
  /\ circuit = [state |-> "closed", failures |-> 0, calls |-> 0]
  /\ cooldown = 0
  /\ gap = 0
  /\ cache = [k \in Keys |-> NoEntry]
  /\ request = [r \in Requests |-> IdleRequest]
  /\ healthy = TRUE
  /\ answers = 0
  /\ failures = 0
  /\ early = {}
  /\ newest = [k \in Keys |-> MaxAge]
  /\ since = Interval
  /\ crowded = {}

(* --------------------------- the circuit ------------------------------ *)

(* RecordSuccess that does not tell the half-open state from the open one. *)
SuccessAnywhere(c) ==
  IF c.state = "closed" THEN [c EXCEPT !.failures = 0]
  ELSE IF c.calls + 1 < HalfOpenCalls THEN [c EXCEPT !.calls = @ + 1]
  ELSE [state |-> "closed", failures |-> 0, calls |-> 0]

RecordSuccess(c) ==
  CASE c.state = "half_open" ->
         IF c.calls + 1 < HalfOpenCalls THEN [c EXCEPT !.calls = @ + 1]
         ELSE [state |-> "closed", failures |-> 0, calls |-> 0]
    [] c.state = "closed" -> [c EXCEPT !.failures = 0]
    [] OTHER -> c

(* The failures beyond the threshold need not be counted.                  *)
RecordFailure(c) ==
  LET count == Lower(c.failures + 1, FailureThreshold)
  IN  IF c.state = "half_open" THEN [state |-> "open", failures |-> count, calls |-> 0]
      ELSE [state |-> IF count = FailureThreshold THEN "open" ELSE c.state,
            failures |-> count, calls |-> c.calls]

CanExecute(c) == c.state # "open" \/ cooldown = 0

(* Executing that starts the count of test calls again with every request. *)
CountAnew(c) == IF c.state = "closed" THEN c ELSE [c EXCEPT !.state = "half_open", !.calls = 0]

(* can_execute lets the first request after the cooldown half-open it.     *)
Executing(c) ==
  IF c.state = "open" THEN [state |-> "half_open", failures |-> c.failures, calls |-> 0] ELSE c

(* ----------------------------- the cache ------------------------------ *)

Expired(c) == {k \in Keys : c[k].kept /\ c[k].left <= StaleThreshold}

Kept(c) == {k \in Keys : c[k].kept}

Drop(c, S) == [k \in Keys |-> IF k \in S THEN NoEntry ELSE c[k]]

(* The sets of n entries that expire first.                                *)
Oldest(c, n) ==
  {S \in SUBSET Kept(c) : /\ Cardinality(S) = Lower(n, Cardinality(Kept(c)))
                          /\ \A k \in S, l \in Kept(c) \ S : c[k].left <= c[l].left}

(* InMemoryCacheBackend.set before it stores: what may be left in the cache.*)
Evicted(c) ==
  LET rest == Drop(c, Expired(c))
      excess == Cardinality(Kept(rest)) - MaxSize
  IN  IF Cardinality(Kept(c)) < MaxSize THEN {c}
      ELSE IF excess < 0 THEN {rest}
      ELSE {Drop(rest, S) : S \in Oldest(rest, excess + EvictMore)}

(* Stored that keeps an entry that is still alive.                         *)
KeepFirst(c, k, age) ==
  IF c[k].left > 0 THEN c
  ELSE [c EXCEPT ![k] = [kept |-> TRUE, age |-> age, left |-> CacheTTL + StaleThreshold]]

Stored(c, k, age) ==
  [c EXCEPT ![k] = [kept |-> TRUE, age |-> age, left |-> CacheTTL + StaleThreshold]]

(* ProxyCache.get: a hit, or an entry in its stale period.                 *)
Usable(k) == cache[k].left > 0

(* The caller is given data of this age.                                   *)
Given(k, age) == newest' = [newest EXCEPT ![k] = Lower(@, age)]

(* ----------------------------- requests ------------------------------- *)

Finish(r) == request' = [request EXCEPT ![r] = IdleRequest]

(* Whoever is still running when the circuit is open was there before.     *)
Remember ==
  early' = IF circuit'.state # "open" THEN {}
           ELSE {r \in IF circuit.state = "open" THEN early ELSE Requests :
                   request'[r].step # "idle"}

Pacing == {r \in Requests : request[r].step = "pacing"}

Paced(k, n) == At(IF gap = 0 THEN "sent" ELSE "pacing", k, n, gap)

(* Every request that is pacing when r arrives, and r if it must pace too. *)
Watch(r) ==
  /\ since' = IF gap = 0 THEN 0 ELSE since
  /\ crowded' = crowded \cup Pacing \cup (IF gap > 0 /\ Pacing # {} THEN {r} ELSE {})

(* Pace that notes the time only of the attempts that had to wait.         *)
PaceUnnoted(r, k, n) ==
  /\ request' = [request EXCEPT ![r] = Paced(k, n)]
  /\ gap' = gap
  /\ Watch(r)

(* _rate_limit, and the attempt unless it has to wait.                     *)
Pace(r, k, n) ==
  /\ request' = [request EXCEPT ![r] = Paced(k, n)]
  /\ gap' = IF gap = 0 THEN Interval ELSE gap
  /\ Watch(r)

(* get_clob finds an answer in the cache: no attempt is made.              *)
Hit(r, k) ==
  /\ request[r].step = "idle"
  /\ Usable(k)
  /\ Given(k, cache[k].age)
  /\ UNCHANGED <<circuit, cooldown, gap, cache, request, healthy,
                 answers, failures, early, since, crowded>>

(* The circuit is open: CircuitOpenError, as the cache has nothing stale.  *)
Refuse(r, k) ==
  /\ request[r].step = "idle"
  /\ ~Usable(k)
  /\ ~CanExecute(circuit)
  /\ UNCHANGED vars

Miss(r, k) ==
  /\ request[r].step = "idle"
  /\ ~Usable(k)
  /\ CanExecute(circuit)
  /\ circuit' = Executing(circuit)
  /\ Pace(r, k, 1)
  /\ Remember
  /\ UNCHANGED <<cooldown, cache, healthy, answers, failures, newest>>

(* The sleep of _rate_limit is over: the attempt is sent, whatever others  *)
(* have sent in the meantime.                                              *)
Wake(r) ==
  /\ request[r].step = "pacing"
  /\ request[r].wait = 0
  /\ request' = [request EXCEPT ![r] = At("sent", @.key, @.attempt, 0)]
  /\ gap' = Interval
  /\ since' = 0
  /\ crowded' = crowded \ {r}
  /\ UNCHANGED <<circuit, cooldown, cache, healthy, answers, failures, early, newest>>

(* Retry that does not count the attempts.                                 *)
RetryUncounted(r) ==
  /\ request[r].step = "backoff"
  /\ request[r].wait = 0
  /\ Pace(r, request[r].key, request[r].attempt)
  /\ UNCHANGED <<circuit, cooldown, cache, healthy, answers, failures, early, newest>>

(* The next attempt; the circuit is not asked again.                       *)
Retry(r) ==
  /\ request[r].step = "backoff"
  /\ request[r].wait = 0
  /\ Pace(r, request[r].key, request[r].attempt + 1)
  /\ UNCHANGED <<circuit, cooldown, cache, healthy, answers, failures, early, newest>>

Backoff(r) ==
  \E d \in Delays :
    request' = [request EXCEPT ![r] = At("backoff", @.key, @.attempt, d)]

LastAttempt(r) == request[r].attempt = MaxRetries

Succeed ==
  /\ circuit' = RecordSuccess(circuit)
  /\ answers' = Lower(answers + 1, HalfOpenCalls)
  /\ failures' = 0
  /\ UNCHANGED cooldown

(* The data of an answer go into the cache and to the caller.              *)
Answer(r) ==
  LET k == request[r].key
      age == request[r].age
  IN  /\ request[r].step = "sent"
      /\ Succeed
      /\ \E c \in Evicted(cache) : cache' = Stored(c, k, age)
      /\ Given(k, age)
      /\ Finish(r)
      /\ Remember
      /\ UNCHANGED <<gap, healthy, since, crowded>>

(* A client error, or a 429 to the last attempt: the circuit counts it as  *)
(* a success, and the caller gets an HTTPStatusError.                      *)
Reject(r) ==
  /\ request[r].step = "sent"
  /\ Succeed
  /\ Finish(r)
  /\ Remember
  /\ UNCHANGED <<gap, cache, healthy, newest, since, crowded>>

(* A 429 that is not the last attempt.                                     *)
Throttle(r) ==
  /\ request[r].step = "sent"
  /\ ~healthy
  /\ ~LastAttempt(r)
  /\ Backoff(r)
  /\ UNCHANGED <<circuit, cooldown, gap, cache, healthy, history>>

(* A server error or no answer.  After the last attempt the caller gets an *)
(* error, or what another request has put into the cache meanwhile.        *)
Fail(r) ==
  LET k == request[r].key
  IN  /\ request[r].step = "sent"
      /\ ~healthy
      /\ circuit' = RecordFailure(circuit)
      /\ cooldown' = RecoveryTimeout
      /\ answers' = 0
      /\ failures' = Lower(failures + 1, FailureThreshold)
      /\ IF ~LastAttempt(r) THEN Backoff(r) /\ UNCHANGED newest
         ELSE /\ Finish(r)
              /\ IF Usable(k) THEN Given(k, cache[k].age) ELSE UNCHANGED newest
      /\ Remember
      /\ UNCHANGED <<gap, cache, healthy, since, crowded>>

(* --------------------------- the world -------------------------------- *)

(* Time passes, but no attempt stays unanswered beyond its timeout.        *)
Tick ==
  /\ \A r \in Requests : request[r].step = "sent" => request[r].age < Timeout
  /\ cooldown' = Down(cooldown)
  /\ gap' = Down(gap)
  /\ cache' = [k \in Keys |-> Aged(cache[k])]
  /\ request' = [r \in Requests |->
                   [request[r] EXCEPT !.wait = Down(@),
                                      !.age = IF request[r].step = "sent" THEN @ + 1 ELSE @]]
  /\ newest' = [k \in Keys |-> Older(newest[k])]
  /\ since' = Lower(since + 1, Interval)
  /\ UNCHANGED <<circuit, healthy, answers, failures, early, crowded>>

(* The upstream API breaks down or recovers.                               *)
Change ==
  /\ healthy' = ~healthy
  /\ UNCHANGED <<circuit, cooldown, gap, cache, request, history>>

Call == \E r \in Requests, k \in Keys : Hit(r, k) \/ Refuse(r, k) \/ Miss(r, k)

Progress(r) ==
  Wake(r) \/ Retry(r) \/ Answer(r) \/ Reject(r) \/ Throttle(r) \/ Fail(r)

Next == Call \/ (\E r \in Requests : Progress(r)) \/ Tick \/ Change

Spec == Init /\ [][Next]_vars

(* Time passes, the event loop resumes every coroutine that is ready, an   *)
(* attempt is answered or times out, and callers keep coming.              *)
FairSpec ==
  Spec /\ WF_vars(Tick) /\ WF_vars(Call) /\ \A r \in Requests : WF_vars(Progress(r))

(* ----------------------------- properties ----------------------------- *)

RequestRecord ==
  [step : {"idle", "pacing", "sent", "backoff"}, key : Keys, attempt : 0..MaxRetries,
   wait : Nat, age : 0..Timeout]

TypeOK ==
  /\ circuit \in [state : {"closed", "open", "half_open"}, failures : 0..FailureThreshold,
                  calls : 0..(HalfOpenCalls - 1)]
  /\ cooldown \in 0..RecoveryTimeout
  /\ gap \in 0..Interval
  /\ cache \in [Keys -> [kept : BOOLEAN, left : 0..(CacheTTL + StaleThreshold),
                         age : 0..MaxAge]]
  /\ request \in [Requests -> RequestRecord]
  /\ healthy \in BOOLEAN
  /\ answers \in 0..HalfOpenCalls
  /\ failures \in 0..FailureThreshold
  /\ early \subseteq Requests
  /\ newest \in [Keys -> 0..MaxAge]
  /\ since \in 0..Interval
  /\ crowded \subseteq Requests

(* While the circuit is open, only requests that were running when it      *)
(* opened still make attempts: they never ask the circuit again, but no    *)
(* new ones join them.                                                     *)
NoNewLoad == circuit.state = "open" => Running \subseteq early

(* Requests for one key overtake each other, so a slow answer may replace  *)
(* a younger entry; but what the cache hands out was never asked for more  *)
(* than one timeout before what a caller has already been given.           *)
CacheKeepsUp ==
  \A k \in Keys : Usable(k) => cache[k].age <= newest[k] + Timeout

Sends(r) == request[r].step # "sent" /\ request'[r].step = "sent"

(* Attempts leave at least an interval apart; only one that was waiting    *)
(* for its turn when another came or went may leave too soon.              *)
Spaced == [][\A r \in Requests : Sends(r) => since = Interval \/ r \in crowded]_vars

(* The failures and answers of all requests, in the order in which they    *)
(* come back, move the circuit as a circuit breaker should.                *)
Abstract == INSTANCE CircuitBreaker WITH state <- circuit.state

ActsAsBreaker == Abstract!Spec

(* Every request ends, whatever the upstream API does.                     *)
RequestsEnd == \A r \in Requests : r \in Running ~> r \notin Running

(* Once the upstream API is back for good, the circuit closes in the end.  *)
CircuitRecovers ==
  circuit.state # "closed" ~> circuit.state = "closed" \/ ~healthy
=============================================================================
