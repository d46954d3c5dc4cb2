----------------------- MODULE PolymarketProxy_proofs -----------------------
(***************************************************************************)
(* Theorems about PolymarketProxy: the circuit behaves as a circuit        *)
(* breaker should for any number of requests that interleave in any way,   *)
(* and while it is open no request joins the ones already running.         *)
(***************************************************************************)
EXTENDS PolymarketProxy, TLAPS

CircuitRecord ==
  [state : {"closed", "open", "half_open"}, failures : 0..FailureThreshold,
   calls : 0..(HalfOpenCalls - 1)]

(* What the counters of the circuit have to do with the calls that came    *)
(* back: a closed circuit counts the failures in a row, and a half-open    *)
(* one has not counted more answers than there were in a row.              *)
CircuitOK ==
  /\ circuit \in CircuitRecord
  /\ cooldown \in 0..RecoveryTimeout
  /\ answers \in 0..HalfOpenCalls
  /\ failures \in 0..FailureThreshold
  /\ circuit.state = "closed" => circuit.failures = failures
  /\ circuit.state = "half_open" => circuit.calls <= answers

LEMMA ConstantsOK ==
  /\ FailureThreshold \in Nat \ {0}
  /\ RecoveryTimeout \in Nat \ {0}
  /\ HalfOpenCalls \in Nat \ {0}
  BY ProxyAssumption

(* The operations of the circuit, for any circuit.                         *)
LEMMA SuccessRecord ==
  ASSUME NEW c \in CircuitRecord
  PROVE  /\ RecordSuccess(c) \in CircuitRecord
         /\ c.state = "closed" => /\ RecordSuccess(c).state = "closed"
                                  /\ RecordSuccess(c).failures = 0
         /\ c.state = "open" => RecordSuccess(c).state = "open"
         /\ c.state = "half_open" /\ c.calls + 1 < HalfOpenCalls =>
              /\ RecordSuccess(c).state = "half_open"
              /\ RecordSuccess(c).calls = c.calls + 1
         /\ c.state = "half_open" /\ ~(c.calls + 1 < HalfOpenCalls) =>
              /\ RecordSuccess(c).state = "closed"
              /\ RecordSuccess(c).failures = 0
  <1>1. CASE c.state = "closed"
    BY <1>1, ConstantsOK DEF RecordSuccess, CircuitRecord
  <1>2. CASE c.state = "open"
    BY <1>2, ConstantsOK DEF RecordSuccess, CircuitRecord
  <1>3. CASE c.state = "half_open" /\ c.calls + 1 < HalfOpenCalls
    BY <1>3, ConstantsOK DEF RecordSuccess, CircuitRecord
  <1>4. CASE c.state = "half_open" /\ ~(c.calls + 1 < HalfOpenCalls)
    BY <1>4, ConstantsOK DEF RecordSuccess, CircuitRecord
  <1>5. QED
    BY <1>1, <1>2, <1>3, <1>4 DEF CircuitRecord

LEMMA FailureRecord ==
  ASSUME NEW c \in CircuitRecord
  PROVE  /\ RecordFailure(c) \in CircuitRecord
         /\ RecordFailure(c).failures = Lower(c.failures + 1, FailureThreshold)
         /\ RecordFailure(c).state =
              IF c.state = "closed" /\ RecordFailure(c).failures < FailureThreshold
              THEN "closed" ELSE "open"
  <1> DEFINE count == Lower(c.failures + 1, FailureThreshold)
  <1>1. count \in 0..FailureThreshold
    BY ConstantsOK DEF Lower, CircuitRecord
  <1>2. RecordFailure(c) =
          IF c.state = "half_open" THEN [state |-> "open", failures |-> count, calls |-> 0]
          ELSE [state |-> IF count = FailureThreshold THEN "open" ELSE c.state,
                failures |-> count, calls |-> c.calls]
    BY DEF RecordFailure
  <1> HIDE DEF count
  <1>3. CASE c.state = "half_open"
    BY <1>1, <1>2, <1>3, ConstantsOK DEF CircuitRecord, count
  <1>4. CASE c.state = "open"
    BY <1>1, <1>2, <1>4, ConstantsOK DEF CircuitRecord, count
  <1>5. CASE c.state = "closed"
    BY <1>1, <1>2, <1>5, ConstantsOK DEF CircuitRecord, count
  <1>6. QED
    BY <1>3, <1>4, <1>5 DEF CircuitRecord

LEMMA ExecutingRecord ==
  ASSUME NEW c \in CircuitRecord
  PROVE  /\ Executing(c) \in CircuitRecord
         /\ c.state # "open" => Executing(c) = c
         /\ c.state = "open" => Executing(c).state = "half_open" /\ Executing(c).calls = 0
  BY ConstantsOK DEF Executing, CircuitRecord

(* -------------------------- the circuit ------------------------------- *)

CircuitVars == <<circuit, cooldown, answers, failures>>

LEMMA InitCircuit ==
  ASSUME Init
  PROVE  CircuitOK /\ Abstract!Init
  BY ConstantsOK DEF Init, CircuitOK, CircuitRecord, Abstract!Init

(* A call that comes back with an answer.                                  *)
LEMMA SucceedStep ==
  ASSUME CircuitOK, Succeed
  PROVE  CircuitOK' /\ Abstract!Answer
  <1>1. /\ circuit \in CircuitRecord
        /\ circuit' = RecordSuccess(circuit)
        /\ answers \in 0..HalfOpenCalls /\ failures \in 0..FailureThreshold
        /\ cooldown \in 0..RecoveryTimeout
        /\ answers' = Lower(answers + 1, HalfOpenCalls)
        /\ failures' = 0 /\ cooldown' = cooldown
    BY DEF CircuitOK, Succeed
  <1>2. answers' \in 0..HalfOpenCalls /\ failures' \in 0..FailureThreshold
    BY <1>1, ConstantsOK DEF Lower
  <1>3. answers' = Abstract!OneMore(answers, HalfOpenCalls)
    BY <1>1, ConstantsOK DEF Lower, Abstract!OneMore
  <1>4. CASE circuit.state = "closed"
    <2>1. circuit' \in CircuitRecord /\ circuit'.state = "closed" /\ circuit'.failures = 0
      BY <1>1, <1>4, SuccessRecord
    <2>2. QED
      BY <1>1, <1>2, <1>3, <1>4, <2>1 DEF CircuitOK, Abstract!Answer
  <1>5. CASE circuit.state = "open"
    <2>1. circuit' \in CircuitRecord /\ circuit'.state = "open"
      BY <1>1, <1>5, SuccessRecord
    <2>2. QED
      BY <1>1, <1>2, <1>3, <1>5, <2>1 DEF CircuitOK, Abstract!Answer
  <1>6. CASE circuit.state = "half_open" /\ circuit.calls + 1 < HalfOpenCalls
    <2>1. /\ circuit' \in CircuitRecord /\ circuit'.state = "half_open"
          /\ circuit'.calls = circuit.calls + 1
      BY <1>1, <1>6, SuccessRecord
    <2>2. circuit.calls \in Nat /\ circuit.calls <= answers
      BY <1>1, <1>6, ConstantsOK DEF CircuitOK, CircuitRecord
    <2>3. circuit'.calls <= answers'
      BY <1>1, <1>6, <2>1, <2>2, ConstantsOK DEF Lower
    <2>4. QED
      BY <1>1, <1>2, <1>3, <1>6, <2>1, <2>3 DEF CircuitOK, Abstract!Answer
  <1>7. CASE circuit.state = "half_open" /\ ~(circuit.calls + 1 < HalfOpenCalls)
    <2>1. circuit' \in CircuitRecord /\ circuit'.state = "closed" /\ circuit'.failures = 0
      BY <1>1, <1>7, SuccessRecord
    <2>2. circuit.calls \in Nat /\ circuit.calls <= answers
      BY <1>1, <1>7, ConstantsOK DEF CircuitOK, CircuitRecord
    <2>3. answers' = HalfOpenCalls
      BY <1>1, <1>7, <2>2, ConstantsOK DEF Lower
    <2>4. QED
      BY <1>1, <1>2, <1>3, <1>7, <2>1, <2>3 DEF CircuitOK, Abstract!Answer
  <1>8. QED
    BY <1>1, <1>4, <1>5, <1>6, <1>7 DEF CircuitRecord

(* A call that fails.                                                      *)
LEMMA FailStep ==
  ASSUME CircuitOK, NEW r \in Requests, Fail(r)
  PROVE  CircuitOK' /\ Abstract!Failure
  <1>1. /\ circuit \in CircuitRecord
        /\ circuit' = RecordFailure(circuit)
        /\ failures \in 0..FailureThreshold
        /\ circuit.state = "closed" => circuit.failures = failures
        /\ cooldown' = RecoveryTimeout /\ answers' = 0
        /\ failures' = Lower(failures + 1, FailureThreshold)
    BY DEF CircuitOK, Fail
  <1>2. /\ circuit' \in CircuitRecord
        /\ circuit'.failures = Lower(circuit.failures + 1, FailureThreshold)
        /\ circuit'.state =
             IF circuit.state = "closed" /\ circuit'.failures < FailureThreshold
             THEN "closed" ELSE "open"
    BY <1>1, FailureRecord
  <1>3. /\ failures' \in 0..FailureThreshold
        /\ failures' = Abstract!OneMore(failures, FailureThreshold)
    BY <1>1, ConstantsOK DEF Lower, Abstract!OneMore
  <1>4. circuit.state = "closed" => circuit'.failures = failures'
    BY <1>1, <1>2
  <1>5. CircuitOK'
    BY <1>1, <1>2, <1>3, <1>4, ConstantsOK DEF CircuitOK
  <1>6. circuit'.state = IF circuit.state = "closed" /\ failures' < FailureThreshold
                         THEN "closed" ELSE "open"
    BY <1>2, <1>4
  <1>7. QED
    BY <1>1, <1>3, <1>5, <1>6 DEF Abstract!Failure

(* A call that is let through.                                             *)
LEMMA MissStep ==
  ASSUME CircuitOK, NEW r \in Requests, NEW k \in Keys, Miss(r, k)
  PROVE  CircuitOK' /\ [Abstract!Next]_(Abstract!vars)
  <1>1. /\ circuit \in CircuitRecord
        /\ circuit' = Executing(circuit)
        /\ circuit.state = "open" => cooldown = 0
        /\ UNCHANGED <<cooldown, answers, failures>>
    BY DEF CircuitOK, Miss, CanExecute
  <1>2. CASE circuit.state = "open"
    <2>1. circuit' \in CircuitRecord /\ circuit'.state = "half_open" /\ circuit'.calls = 0
      BY <1>1, <1>2, ExecutingRecord
    <2>2. CircuitOK'
      BY <1>1, <2>1, ConstantsOK DEF CircuitOK
    <2>3. Abstract!Probe
      BY <1>1, <1>2, <2>1 DEF Abstract!Probe
    <2>4. QED
      BY <2>2, <2>3 DEF Abstract!Next
  <1>3. CASE circuit.state # "open"
    <2>1. circuit' = circuit
      BY <1>1, <1>3, ExecutingRecord
    <2>2. QED
      BY <1>1, <2>1 DEF CircuitOK, Abstract!vars
  <1>4. QED
    BY <1>2, <1>3

LEMMA TickStep ==
  ASSUME CircuitOK, Tick
  PROVE  CircuitOK' /\ [Abstract!Next]_(Abstract!vars)
  <1>1. /\ cooldown \in 0..RecoveryTimeout
        /\ cooldown' = Down(cooldown)
        /\ UNCHANGED <<circuit, answers, failures>>
    BY DEF CircuitOK, Tick
  <1>2. cooldown' \in 0..RecoveryTimeout
    BY <1>1, ConstantsOK DEF Down
  <1>3. CircuitOK'
    BY <1>1, <1>2 DEF CircuitOK
  <1>4. cooldown > 0 => Abstract!Rest
    BY <1>1 DEF Down, Abstract!Rest
  <1>5. ~(cooldown > 0) => UNCHANGED Abstract!vars
    BY <1>1, ConstantsOK DEF Down, Abstract!vars
  <1>6. QED
    BY <1>3, <1>4, <1>5 DEF Abstract!Next

(* Every other step leaves the circuit alone.                              *)
LEMMA QuietStep ==
  ASSUME CircuitOK, UNCHANGED CircuitVars
  PROVE  CircuitOK' /\ [Abstract!Next]_(Abstract!vars)
  BY DEF CircuitVars, CircuitOK, Abstract!vars

LEMMA NextCircuit ==
  ASSUME CircuitOK, [Next]_vars
  PROVE  CircuitOK' /\ [Abstract!Next]_(Abstract!vars)
  <1>1. CASE Call
    <2>1. PICK r \in Requests, k \in Keys : Hit(r, k) \/ Refuse(r, k) \/ Miss(r, k)
      BY <1>1 DEF Call
    <2>2. CASE Hit(r, k)
      BY <2>2, QuietStep DEF Hit, CircuitVars
    <2>3. CASE Refuse(r, k)
      BY <2>3, QuietStep DEF Refuse, CircuitVars, vars, history
    <2>4. CASE Miss(r, k)
      BY <2>4, MissStep
    <2>5. QED
      BY <2>1, <2>2, <2>3, <2>4
  <1>2. ASSUME NEW r \in Requests, Progress(r)
        PROVE  CircuitOK' /\ [Abstract!Next]_(Abstract!vars)
    <2>1. CASE Wake(r)
      BY <2>1, QuietStep DEF Wake, CircuitVars
    <2>2. CASE Retry(r)
      BY <2>2, QuietStep DEF Retry, CircuitVars
    <2>3. CASE Answer(r)
      <3>1. Succeed
        BY <2>3 DEF Answer
      <3>2. QED
        BY <3>1, SucceedStep DEF Abstract!Next
    <2>4. CASE Reject(r)
      <3>1. Succeed
        BY <2>4 DEF Reject
      <3>2. QED
        BY <3>1, SucceedStep DEF Abstract!Next
    <2>5. CASE Throttle(r)
      BY <2>5, QuietStep DEF Throttle, CircuitVars, history
    <2>6. CASE Fail(r)
      BY <2>6, FailStep DEF Abstract!Next
    <2>7. QED
      BY <1>2, <2>1, <2>2, <2>3, <2>4, <2>5, <2>6 DEF Progress
  <1>3. CASE Tick
    BY <1>3, TickStep
  <1>4. CASE Change
    BY <1>4, QuietStep DEF Change, CircuitVars, history
  <1>5. CASE UNCHANGED vars
    BY <1>5, QuietStep DEF CircuitVars, vars, history
  <1>6. QED
    BY <1>1, <1>2, <1>3, <1>4, <1>5 DEF Next

(* However the calls of any number of requests come back, they move the    *)
(* circuit as the abstract circuit breaker moves.                          *)
THEOREM ActsAsCircuitBreaker == Spec => ActsAsBreaker
  <1>1. Init => CircuitOK /\ Abstract!Init
    BY InitCircuit
  <1>2. CircuitOK /\ [Next]_vars => CircuitOK' /\ [Abstract!Next]_(Abstract!vars)
    BY NextCircuit
  <1>3. QED
    BY <1>1, <1>2, PTL DEF Spec, ActsAsBreaker, Abstract!Spec

(* ------------------------ types and the open circuit ------------------- *)

Entry == [kept : BOOLEAN, left : 0..(CacheTTL + StaleThreshold), age : 0..MaxAge]

(* A request only waits for another attempt if it has one left.            *)
RequestsOK ==
  /\ request \in [Requests -> RequestRecord]
  /\ \A r \in Requests : request[r].step = "backoff" => request[r].attempt < MaxRetries

RestOK ==
  /\ gap \in 0..Interval
  /\ cache \in [Keys -> Entry]
  /\ healthy \in BOOLEAN
  /\ early \subseteq Requests
  /\ newest \in [Keys -> 0..MaxAge]
  /\ since \in 0..Interval
  /\ crowded \subseteq Requests

(* The inductive invariant: the types, the counters of the circuit, and    *)
(* the property itself, which an action that ends no request and opens no  *)
(* circuit keeps because it leaves both alone.                             *)
ProxyInv == CircuitOK /\ RequestsOK /\ RestOK /\ NoNewLoad

LEMMA NumbersOK ==
  /\ MaxRetries \in Nat \ {0} /\ Interval \in Nat /\ Timeout \in Nat
  /\ CacheTTL \in Nat \ {0} /\ StaleThreshold \in Nat
  /\ MaxAge \in Nat /\ Timeout <= MaxAge /\ CacheTTL + StaleThreshold \in Nat
  /\ Delays \subseteq Nat
  BY ProxyAssumption DEF MaxAge

LEMMA IdleTyped ==
  /\ IdleRequest \in RequestRecord
  /\ IdleRequest.step = "idle"
  <1>1. (CHOOSE k \in Keys : TRUE) \in Keys
    BY ProxyAssumption
  <1>2. QED
    BY <1>1, NumbersOK DEF IdleRequest, At, RequestRecord

LEMMA EntryTyped ==
  /\ NoEntry \in Entry
  /\ \A a \in 0..Timeout :
       [kept |-> TRUE, age |-> a, left |-> CacheTTL + StaleThreshold] \in Entry
  BY NumbersOK DEF NoEntry, Entry

(* Whatever eviction leaves is a cache.                                    *)
LEMMA EvictedTyped ==
  ASSUME NEW c \in [Keys -> Entry], NEW d \in Evicted(c)
  PROVE  d \in [Keys -> Entry]
  <1>1. ASSUME NEW e \in [Keys -> Entry], NEW S
        PROVE  Drop(e, S) \in [Keys -> Entry]
    BY <1>1, EntryTyped DEF Drop
  <1> DEFINE rest == Drop(c, Expired(c))
             excess == Cardinality(Kept(rest)) - MaxSize
  <1>2. rest \in [Keys -> Entry]
    BY <1>1
  <1> HIDE DEF rest
  <1>3. \/ d = c \/ d = rest
        \/ \E S \in Oldest(rest, excess + EvictMore) : d = Drop(rest, S)
    BY DEF Evicted, rest
  <1>4. QED
    BY <1>1, <1>2, <1>3

LEMMA InitProxy ==
  ASSUME Init
  PROVE  ProxyInv
  <1>1. CircuitOK
    BY InitCircuit
  <1>2. RequestsOK
    BY IdleTyped DEF Init, RequestsOK
  <1>3. RestOK
    BY EntryTyped, NumbersOK DEF Init, RestOK
  <1>4. NoNewLoad
    BY DEF Init, NoNewLoad
  <1>5. QED
    BY <1>1, <1>2, <1>3, <1>4 DEF ProxyInv

(* A request that takes one step; the others keep their state.             *)
LEMMA OneRequest ==
  ASSUME RequestsOK, NEW r \in Requests, NEW next \in RequestRecord,
         next.step = "backoff" => next.attempt < MaxRetries,
         request' = [request EXCEPT ![r] = next]
  PROVE  /\ RequestsOK'
         /\ request'[r] = next
         /\ \A q \in Requests \ {r} : request'[q] = request[q]
  BY DEF RequestsOK

LEMMA FinishStep ==
  ASSUME RequestsOK, NEW r \in Requests, Finish(r)
  PROVE  RequestsOK' /\ Running' \subseteq Running
  <1>1. /\ RequestsOK'
        /\ request'[r] = IdleRequest
        /\ \A q \in Requests \ {r} : request'[q] = request[q]
    BY IdleTyped, OneRequest DEF Finish
  <1>2. QED
    BY <1>1, IdleTyped DEF Running

LEMMA PaceStep ==
  ASSUME RequestsOK, gap \in 0..Interval, since \in 0..Interval, crowded \subseteq Requests,
         NEW r \in Requests, NEW k \in Keys, NEW n \in 0..MaxRetries, Pace(r, k, n)
  PROVE  /\ RequestsOK'
         /\ gap' \in 0..Interval /\ since' \in 0..Interval /\ crowded' \subseteq Requests
         /\ \A q \in Requests \ {r} : request'[q] = request[q]
  <1>1. Paced(k, n) \in RequestRecord /\ Paced(k, n).step # "backoff"
    BY NumbersOK DEF Paced, At, RequestRecord
  <1>2. request' = [request EXCEPT ![r] = Paced(k, n)]
    BY DEF Pace
  <1>3. RequestsOK' /\ \A q \in Requests \ {r} : request'[q] = request[q]
    BY <1>1, <1>2, OneRequest
  <1>4. gap' \in 0..Interval
    BY NumbersOK DEF Pace
  <1>5. since' \in 0..Interval /\ crowded' \subseteq Requests
    BY NumbersOK DEF Pace, Watch, Pacing
  <1>6. QED
    BY <1>3, <1>4, <1>5

LEMMA BackoffStep ==
  ASSUME RequestsOK, NEW r \in Requests, request[r].step # "idle",
         request[r].attempt < MaxRetries, Backoff(r)
  PROVE  RequestsOK' /\ Running' \subseteq Running
  <1>1. PICK d \in Delays :
          request' = [request EXCEPT ![r] = At("backoff", request[r].key, request[r].attempt, d)]
    BY DEF Backoff, RequestsOK
  <1> DEFINE next == At("backoff", request[r].key, request[r].attempt, d)
  <1>2. next \in RequestRecord /\ next.attempt < MaxRetries
    BY NumbersOK DEF At, RequestRecord, RequestsOK
  <1> HIDE DEF next
  <1>3. RequestsOK' /\ \A q \in Requests \ {r} : request'[q] = request[q]
    BY <1>1, <1>2, OneRequest DEF next
  <1>4. QED
    BY <1>3 DEF Running

(* A step that ends requests or leaves them alone lets none in.            *)
LEMMA NoneJoins ==
  ASSUME NoNewLoad, early \subseteq Requests, Running' \subseteq Running, Remember
  PROVE  NoNewLoad' /\ early' \subseteq Requests
  <1>1. CASE circuit'.state # "open"
    BY <1>1 DEF NoNewLoad, Remember
  <1>2. CASE circuit'.state = "open"
    <2>1. early' = {r \in IF circuit.state = "open" THEN early ELSE Requests :
                      request'[r].step # "idle"}
      BY <1>2 DEF Remember
    <2>2. QED
      BY <1>2, <2>1 DEF NoNewLoad, Running
  <1>3. QED
    BY <1>1, <1>2

(* The moves of time, by variable.                                         *)
LEMMA OlderTyped ==
  ASSUME NEW n \in 0..MaxAge
  PROVE  Older(n) \in 0..MaxAge
  BY NumbersOK DEF Older, Lower

LEMMA AgedTyped ==
  ASSUME NEW e \in Entry
  PROVE  Aged(e) \in Entry
  <1>1. /\ e.kept \in BOOLEAN
        /\ e.left \in 0..(CacheTTL + StaleThreshold)
        /\ e.age \in 0..MaxAge
    BY DEF Entry
  <1>2. Down(e.left) \in 0..(CacheTTL + StaleThreshold)
    BY <1>1, NumbersOK DEF Down
  <1>3. QED
    BY <1>1, <1>2, OlderTyped DEF Entry, Aged

LEMMA TickProxy ==
  ASSUME ProxyInv, Tick
  PROVE  RequestsOK' /\ RestOK' /\ NoNewLoad'
  <1>1. ASSUME NEW r \in Requests
        PROVE  /\ request'[r] \in RequestRecord
               /\ request'[r].step = request[r].step
               /\ request'[r].attempt = request[r].attempt
    <2>1. /\ request[r] \in RequestRecord
          /\ request[r].step = "sent" => request[r].age < Timeout
      BY DEF ProxyInv, RequestsOK, Tick
    <2> DEFINE age == IF request[r].step = "sent" THEN request[r].age + 1 ELSE request[r].age
    <2>2. age \in 0..Timeout /\ Down(request[r].wait) \in Nat
      BY <2>1, NumbersOK DEF RequestRecord, Down
    <2>3. request'[r] = [request[r] EXCEPT !.wait = Down(@), !.age = age]
      BY DEF Tick
    <2> HIDE DEF age
    <2>4. QED
      BY <2>1, <2>2, <2>3 DEF RequestRecord
  <1>2. RequestsOK'
    <2>1. request' = [r \in Requests |-> request'[r]]
      BY DEF Tick
    <2>2. QED
      BY <1>1, <2>1 DEF ProxyInv, RequestsOK
  <1>3. cache' \in [Keys -> Entry]
    <2>1. \A k \in Keys : Aged(cache[k]) \in Entry
      BY AgedTyped DEF ProxyInv, RestOK
    <2>2. QED
      BY <2>1 DEF Tick
  <1>4. newest' \in [Keys -> 0..MaxAge]
    <2>1. \A k \in Keys : Older(newest[k]) \in 0..MaxAge
      BY OlderTyped DEF ProxyInv, RestOK
    <2>2. QED
      BY <2>1 DEF Tick
  <1>5. gap' \in 0..Interval /\ since' \in 0..Interval
    <2>1. /\ gap \in 0..Interval /\ gap' = Down(gap)
          /\ since \in 0..Interval /\ since' = Lower(since + 1, Interval)
      BY DEF ProxyInv, RestOK, Tick
    <2>2. QED
      BY <2>1, NumbersOK DEF Down, Lower
  <1>6. RestOK'
    BY <1>3, <1>4, <1>5 DEF ProxyInv, RestOK, Tick
  <1>7. NoNewLoad'
    BY <1>1 DEF ProxyInv, NoNewLoad, Running, Tick
  <1>8. QED
    BY <1>2, <1>6, <1>7

LEMMA GivenTyped ==
  ASSUME newest \in [Keys -> 0..MaxAge], NEW k \in Keys, NEW a \in 0..MaxAge, Given(k, a)
  PROVE  newest' \in [Keys -> 0..MaxAge]
  BY NumbersOK DEF Given, Lower

LEMMA AnswerProxy ==
  ASSUME ProxyInv, NEW r \in Requests, Answer(r)
  PROVE  RequestsOK' /\ RestOK' /\ NoNewLoad'
  <1> DEFINE k == request[r].key
             a == request[r].age
  <1>1. k \in Keys /\ a \in 0..Timeout /\ a \in 0..MaxAge
    BY NumbersOK DEF ProxyInv, RequestsOK, RequestRecord
  <1>2. RequestsOK' /\ Running' \subseteq Running
    BY FinishStep DEF ProxyInv, Answer
  <1>3. NoNewLoad' /\ early' \subseteq Requests
    BY <1>2, NoneJoins DEF ProxyInv, RestOK, Answer
  <1>4. PICK c \in Evicted(cache) : cache' = Stored(c, k, a)
    BY DEF Answer
  <1>5. c \in [Keys -> Entry]
    BY EvictedTyped DEF ProxyInv, RestOK
  <1>6. cache' \in [Keys -> Entry]
    BY <1>1, <1>4, <1>5, EntryTyped DEF Stored
  <1>7. newest' \in [Keys -> 0..MaxAge]
    BY <1>1, GivenTyped DEF ProxyInv, RestOK, Answer
  <1>8. UNCHANGED <<gap, healthy, since, crowded>>
    BY DEF Answer
  <1>9. QED
    BY <1>2, <1>3, <1>6, <1>7, <1>8 DEF ProxyInv, RestOK

LEMMA RejectProxy ==
  ASSUME ProxyInv, NEW r \in Requests, Reject(r)
  PROVE  RequestsOK' /\ RestOK' /\ NoNewLoad'
  <1>1. RequestsOK' /\ Running' \subseteq Running
    BY FinishStep DEF ProxyInv, Reject
  <1>2. NoNewLoad' /\ early' \subseteq Requests
    BY <1>1, NoneJoins DEF ProxyInv, RestOK, Reject
  <1>3. QED
    BY <1>1, <1>2 DEF ProxyInv, RestOK, Reject

LEMMA FailProxy ==
  ASSUME ProxyInv, NEW r \in Requests, Fail(r)
  PROVE  RequestsOK' /\ RestOK' /\ NoNewLoad'
  <1> DEFINE k == request[r].key
  <1>1. /\ k \in Keys /\ cache[k].age \in 0..MaxAge
        /\ request[r].step = "sent" /\ request[r].attempt \in 0..MaxRetries
    BY DEF ProxyInv, RequestsOK, RequestRecord, RestOK, Entry, Fail
  <1>2. /\ RequestsOK' /\ Running' \subseteq Running
        /\ newest' \in [Keys -> 0..MaxAge]
    <2>1. CASE LastAttempt(r)
      <3>1. RequestsOK' /\ Running' \subseteq Running
        BY <2>1, FinishStep DEF ProxyInv, Fail
      <3>2. newest' \in [Keys -> 0..MaxAge]
        BY <1>1, <2>1, GivenTyped DEF ProxyInv, RestOK, Fail
      <3>3. QED
        BY <3>1, <3>2
    <2>2. CASE ~LastAttempt(r)
      <3>1. request[r].attempt < MaxRetries
        BY <1>1, <2>2, NumbersOK DEF LastAttempt
      <3>2. QED
        BY <1>1, <2>2, <3>1, BackoffStep DEF ProxyInv, RestOK, Fail
    <2>3. QED
      BY <2>1, <2>2
  <1>3. NoNewLoad' /\ early' \subseteq Requests
    BY <1>2, NoneJoins DEF ProxyInv, RestOK, Fail
  <1>4. QED
    BY <1>2, <1>3 DEF ProxyInv, RestOK, Fail

LEMMA ThrottleProxy ==
  ASSUME ProxyInv, NEW r \in Requests, Throttle(r)
  PROVE  RequestsOK' /\ RestOK' /\ NoNewLoad'
  <1>1. request[r].step = "sent" /\ request[r].attempt < MaxRetries
    BY NumbersOK DEF ProxyInv, RequestsOK, RequestRecord, Throttle, LastAttempt
  <1>2. RequestsOK' /\ Running' \subseteq Running
    BY <1>1, BackoffStep DEF ProxyInv, Throttle
  <1>3. QED
    BY <1>2 DEF ProxyInv, RestOK, NoNewLoad, Throttle, history

LEMMA MissProxy ==
  ASSUME ProxyInv, NEW r \in Requests, NEW k \in Keys, Miss(r, k)
  PROVE  RequestsOK' /\ RestOK' /\ NoNewLoad'
  <1>1. /\ RequestsOK'
        /\ gap' \in 0..Interval /\ since' \in 0..Interval /\ crowded' \subseteq Requests
    <2>1. 1 \in 0..MaxRetries
      BY NumbersOK
    <2>2. QED
      BY <2>1, PaceStep DEF ProxyInv, RestOK, Miss
  <1>2. circuit'.state # "open"
    <2>1. circuit \in CircuitRecord /\ circuit' = Executing(circuit)
      BY DEF ProxyInv, CircuitOK, Miss
    <2>2. QED
      BY <2>1, ExecutingRecord
  <1>3. early' = {}
    BY <1>2 DEF Miss, Remember
  <1>4. QED
    BY <1>1, <1>2, <1>3 DEF ProxyInv, RestOK, NoNewLoad, Miss

LEMMA RetryProxy ==
  ASSUME ProxyInv, NEW r \in Requests, Retry(r)
  PROVE  RequestsOK' /\ RestOK' /\ NoNewLoad'
  <1>1. /\ request[r].key \in Keys /\ request[r].step = "backoff"
        /\ request[r].attempt + 1 \in 0..MaxRetries
    BY NumbersOK DEF ProxyInv, RequestsOK, RequestRecord, Retry
  <1>2. /\ RequestsOK'
        /\ gap' \in 0..Interval /\ since' \in 0..Interval /\ crowded' \subseteq Requests
        /\ \A q \in Requests \ {r} : request'[q] = request[q]
    BY <1>1, PaceStep DEF ProxyInv, RestOK, Retry
  <1>3. Running' \subseteq Running
    BY <1>1, <1>2 DEF Running
  <1>4. QED
    BY <1>2, <1>3 DEF ProxyInv, RestOK, NoNewLoad, Retry

LEMMA WakeProxy ==
  ASSUME ProxyInv, NEW r \in Requests, Wake(r)
  PROVE  RequestsOK' /\ RestOK' /\ NoNewLoad'
  <1> DEFINE next == At("sent", request[r].key, request[r].attempt, 0)
  <1>1. next \in RequestRecord /\ next.step = "sent"
    BY NumbersOK DEF At, RequestRecord, ProxyInv, RequestsOK
  <1>2. request' = [request EXCEPT ![r] = next]
    BY DEF Wake, ProxyInv, RequestsOK
  <1> HIDE DEF next
  <1>3. RequestsOK' /\ \A q \in Requests \ {r} : request'[q] = request[q]
    BY <1>1, <1>2, OneRequest DEF ProxyInv
  <1>4. Running' \subseteq Running
    BY <1>3 DEF Running, Wake
  <1>5. QED
    BY <1>3, <1>4, NumbersOK DEF ProxyInv, RestOK, NoNewLoad, Wake

LEMMA NextProxy ==
  ASSUME ProxyInv, [Next]_vars
  PROVE  ProxyInv'
  <1>1. CircuitOK'
    BY NextCircuit DEF ProxyInv
  <1>2. ASSUME UNCHANGED vars
        PROVE  RequestsOK' /\ RestOK' /\ NoNewLoad'
    BY <1>2 DEF ProxyInv, RequestsOK, RestOK, NoNewLoad, Running, vars, history
  <1>3. CASE Call
    <2>1. PICK r \in Requests, k \in Keys : Hit(r, k) \/ Refuse(r, k) \/ Miss(r, k)
      BY <1>3 DEF Call
    <2>2. CASE Hit(r, k)
      <3>1. cache[k].age \in 0..MaxAge
        BY DEF ProxyInv, RestOK, Entry
      <3>2. newest' \in [Keys -> 0..MaxAge]
        BY <2>2, <3>1, GivenTyped DEF ProxyInv, RestOK, Hit
      <3>3. QED
        BY <1>1, <2>2, <3>2 DEF ProxyInv, RequestsOK, RestOK, NoNewLoad, Running, Hit
    <2>3. CASE Refuse(r, k)
      BY <1>1, <1>2, <2>3 DEF ProxyInv, Refuse
    <2>4. CASE Miss(r, k)
      BY <1>1, <2>4, MissProxy DEF ProxyInv
    <2>5. QED
      BY <2>1, <2>2, <2>3, <2>4
  <1>4. ASSUME NEW r \in Requests, Progress(r)
        PROVE  RequestsOK' /\ RestOK' /\ NoNewLoad'
    BY <1>4, WakeProxy, RetryProxy, AnswerProxy, RejectProxy, ThrottleProxy, FailProxy
       DEF Progress
  <1>5. CASE Tick
    BY <1>1, <1>5, TickProxy DEF ProxyInv
  <1>6. CASE Change
    <2>1. healthy' \in BOOLEAN
      BY <1>6 DEF Change
    <2>2. QED
      BY <1>1, <1>6, <2>1 DEF ProxyInv, RequestsOK, RestOK, NoNewLoad, Running, Change, history
  <1>7. QED
    BY <1>1, <1>2, <1>3, <1>4, <1>5, <1>6 DEF ProxyInv, Next

THEOREM ProxyInvariant == Spec => []ProxyInv
  BY InitProxy, NextProxy, PTL DEF Spec

(* Every variable keeps its type; in particular no request makes more than *)
(* MaxRetries attempts and none waits for an answer beyond the timeout.    *)
THEOREM TypeCorrect == Spec => []TypeOK
  <1>1. ProxyInv => TypeOK
    BY DEF ProxyInv, CircuitOK, CircuitRecord, RequestsOK, RestOK, Entry, TypeOK
  <1>2. QED
    BY <1>1, ProxyInvariant, PTL

(* While the circuit is open, no request joins the ones that were running  *)
(* when it opened.                                                         *)
THEOREM NoLoadWhileOpen == Spec => []NoNewLoad
  <1>1. ProxyInv => NoNewLoad
    BY DEF ProxyInv
  <1>2. QED
    BY <1>1, ProxyInvariant, PTL

(* ----------------------- what the cache hands out ---------------------- *)

(* Eviction only takes entries away.                                       *)
LEMMA EvictionDrops ==
  ASSUME NEW c \in [Keys -> Entry], NEW d \in Evicted(c), NEW k \in Keys
  PROVE  d[k] = c[k] \/ d[k] = NoEntry
  <1>1. ASSUME NEW e, NEW S
        PROVE  Drop(e, S)[k] = e[k] \/ Drop(e, S)[k] = NoEntry
    BY <1>1 DEF Drop
  <1> DEFINE rest == Drop(c, Expired(c))
             excess == Cardinality(Kept(rest)) - MaxSize
  <1>2. rest[k] = c[k] \/ rest[k] = NoEntry
    BY <1>1
  <1>3. \/ d = c \/ d = rest
        \/ \E S \in Oldest(rest, excess + EvictMore) : d = Drop(rest, S)
    BY DEF Evicted
  <1> HIDE DEF rest
  <1>4. QED
    BY <1>1, <1>2, <1>3

(* The caller of one request is given data of age a, for which k is fetched*)
(* or found; the entry of k is then no older than a and a timeout.         *)
LEMMA GivenKeepsUp ==
  ASSUME RestOK, RestOK', CacheKeepsUp, NEW k \in Keys, NEW a \in 0..MaxAge, Given(k, a),
         \A l \in Keys : Usable(l)' => \/ cache'[l] = cache[l] /\ Usable(l) /\ l # k
                                       \/ l = k /\ cache'[l].age <= a + Timeout
                                                /\ cache'[l].age <= newest[l] + Timeout
  PROVE  CacheKeepsUp'
  <1> SUFFICES ASSUME NEW l \in Keys, Usable(l)'
               PROVE  cache'[l].age <= newest'[l] + Timeout
    BY DEF CacheKeepsUp
  <1>1. newest' = [newest EXCEPT ![k] = Lower(newest[k], a)]
    BY DEF Given, RestOK
  <1>2. CASE l # k
    BY <1>1, <1>2 DEF CacheKeepsUp, RestOK
  <1>3. CASE l = k
    <2>1. newest'[l] = Lower(newest[l], a)
      BY <1>1, <1>3 DEF RestOK
    <2>2. newest'[l] = newest[l] \/ newest'[l] = a
      BY <2>1 DEF Lower
    <2>3. QED
      BY <1>3, <2>2
  <1>4. QED
    BY <1>2, <1>3

LEMMA AnswerKeepsUp ==
  ASSUME ProxyInv, ProxyInv', CacheKeepsUp, NEW r \in Requests, Answer(r)
  PROVE  CacheKeepsUp'
  <1> DEFINE k == request[r].key
             a == request[r].age
  <1>1. k \in Keys /\ a \in 0..Timeout /\ a \in 0..MaxAge
    BY NumbersOK DEF ProxyInv, RequestsOK, RequestRecord
  <1>2. PICK c \in Evicted(cache) : cache' = Stored(c, k, a)
    BY DEF Answer
  <1>3. c \in [Keys -> Entry]
    BY EvictedTyped DEF ProxyInv, RestOK
  <1>4. ASSUME NEW l \in Keys, Usable(l)', l # k
        PROVE  cache'[l] = cache[l] /\ Usable(l)
    <2>1. cache'[l] = c[l]
      BY <1>1, <1>2, <1>3, <1>4 DEF Stored
    <2>2. c[l] = cache[l] \/ c[l] = NoEntry
      BY EvictionDrops DEF ProxyInv, RestOK
    <2>3. QED
      BY <1>4, <2>1, <2>2 DEF Usable, NoEntry
  <1>5. cache'[k].age = a
    BY <1>1, <1>2, <1>3 DEF Stored
  <1>6. newest[k] \in Nat
    BY <1>1 DEF ProxyInv, RestOK
  <1>7. a <= a + Timeout /\ a <= newest[k] + Timeout
    BY <1>1, <1>6, NumbersOK
  <1>8. Given(k, a)
    BY DEF Answer
  <1> HIDE DEF k, a
  <1>9. QED
    BY <1>1, <1>4, <1>5, <1>7, <1>8, GivenKeepsUp DEF ProxyInv

(* Data that come out of the cache are as old as the entry.                *)
LEMMA FoundKeepsUp ==
  ASSUME ProxyInv, ProxyInv', CacheKeepsUp, NEW k \in Keys, Usable(k),
         Given(k, cache[k].age), UNCHANGED cache
  PROVE  CacheKeepsUp'
  <1>1. cache[k].age \in 0..MaxAge /\ cache[k].age <= cache[k].age + Timeout
    BY NumbersOK DEF ProxyInv, RestOK, Entry
  <1>2. cache[k].age <= newest[k] + Timeout
    BY DEF CacheKeepsUp
  <1>3. QED
    BY <1>1, <1>2, GivenKeepsUp DEF ProxyInv, Usable

LEMMA TickKeepsUp ==
  ASSUME ProxyInv, CacheKeepsUp, Tick
  PROVE  CacheKeepsUp'
  <1> SUFFICES ASSUME NEW k \in Keys, Usable(k)'
               PROVE  cache'[k].age <= newest'[k] + Timeout
    BY DEF CacheKeepsUp
  <1>1. /\ cache[k].age \in 0..MaxAge /\ cache[k].left \in Nat
        /\ newest[k] \in 0..MaxAge
    BY NumbersOK DEF ProxyInv, RestOK, Entry
  <1>2. /\ cache'[k].age = Older(cache[k].age)
        /\ cache'[k].left = Down(cache[k].left)
        /\ newest'[k] = Older(newest[k])
    BY DEF Tick, Aged
  <1>3. Usable(k)
    BY <1>1, <1>2 DEF Usable, Down
  <1>4. cache[k].age <= newest[k] + Timeout
    BY <1>3 DEF CacheKeepsUp
  <1>5. QED
    BY <1>1, <1>2, <1>4, NumbersOK DEF Older, Lower

LEMMA NextKeepsUp ==
  ASSUME ProxyInv, ProxyInv', CacheKeepsUp, [Next]_vars
  PROVE  CacheKeepsUp'
  <1>1. ASSUME UNCHANGED <<cache, newest>>
        PROVE  CacheKeepsUp'
    BY <1>1 DEF CacheKeepsUp, Usable
  <1>2. CASE Call
    BY <1>1, <1>2, FoundKeepsUp DEF Call, Hit, Refuse, Miss, vars, history
  <1>3. ASSUME NEW r \in Requests, Wake(r) \/ Retry(r) \/ Reject(r) \/ Throttle(r)
        PROVE  CacheKeepsUp'
    BY <1>1, <1>3 DEF Wake, Retry, Reject, Throttle, history
  <1>4. ASSUME NEW r \in Requests, Fail(r)
        PROVE  CacheKeepsUp'
    <2>1. request[r].key \in Keys
      BY DEF ProxyInv, RequestsOK, RequestRecord
    <2>2. UNCHANGED cache
      BY <1>4 DEF Fail
    <2>3. \/ UNCHANGED newest
          \/ Usable(request[r].key) /\ Given(request[r].key, cache[request[r].key].age)
      BY <1>4 DEF Fail
    <2>4. QED
      BY <1>1, <2>1, <2>2, <2>3, FoundKeepsUp
  <1>5. CASE Tick
    BY <1>5, TickKeepsUp
  <1>6. CASE Change \/ UNCHANGED vars
    BY <1>1, <1>6 DEF Change, vars, history
  <1>7. QED
    BY <1>2, <1>3, <1>4, <1>5, <1>6, AnswerKeepsUp DEF Next, Progress

(* However the requests for a key overtake each other, what the cache      *)
(* hands out was asked for at most one timeout before anything that a      *)
(* caller has already been given.                                          *)
THEOREM CacheOvertaken == Spec => []CacheKeepsUp
  <1>1. Init => CacheKeepsUp
    BY DEF Init, CacheKeepsUp, Usable, NoEntry
  <1>2. CacheKeepsUp /\ ProxyInv /\ ProxyInv' /\ [Next]_vars => CacheKeepsUp'
    BY NextKeepsUp
  <1>3. QED
    BY <1>1, <1>2, ProxyInvariant, PTL DEF Spec

(* ------------------------------ the pace ------------------------------- *)

(* The sleep of a request that paces alone lasts until the interval is     *)
(* over, as no attempt is sent meanwhile.                                  *)
PaceInv ==
  /\ since = Interval - gap
  /\ crowded \subseteq Pacing
  /\ \A r \in Pacing \ crowded : gap <= request[r].wait
  /\ \A r, q \in Pacing : r # q => r \in crowded

SpacedStep == \A r \in Requests : Sends(r) => since = Interval \/ r \in crowded

LEMMA PaceKeepsPace ==
  ASSUME ProxyInv, PaceInv, NEW r \in Requests, request[r].step # "pacing",
         NEW k \in Keys, NEW n \in 0..MaxRetries, Pace(r, k, n)
  PROVE  PaceInv' /\ SpacedStep
  <1>1. /\ request \in [Requests -> RequestRecord] /\ gap \in 0..Interval
        /\ request' = [request EXCEPT ![r] = Paced(k, n)]
        /\ gap' = IF gap = 0 THEN Interval ELSE gap
        /\ since' = IF gap = 0 THEN 0 ELSE since
        /\ crowded' = crowded \cup Pacing \cup (IF gap > 0 /\ Pacing # {} THEN {r} ELSE {})
    BY DEF ProxyInv, RequestsOK, RestOK, Pace, Watch
  <1>2. \A q \in Requests \ {r} : request'[q] = request[q]
    BY <1>1
  <1>3. r \notin Pacing
    BY DEF Pacing
  <1>4. CASE gap = 0
    <2>1. request'[r].step = "sent"
      BY <1>1, <1>4 DEF Paced, At
    <2>2. Pacing' = Pacing
      BY <1>2, <1>3, <2>1 DEF Pacing
    <2>3. crowded' = Pacing
      BY <1>1, <1>4 DEF PaceInv
    <2>4. since' = Interval - gap'
      BY <1>1, <1>4, NumbersOK
    <2>5. PaceInv'
      BY <2>2, <2>3, <2>4 DEF PaceInv
    <2>6. SpacedStep
      BY <1>1, <1>2, <1>4, NumbersOK DEF SpacedStep, Sends, PaceInv
    <2>7. QED
      BY <2>5, <2>6
  <1>5. CASE gap # 0
    <2>1. request'[r].step = "pacing" /\ request'[r].wait = gap
      BY <1>1, <1>5 DEF Paced, At
    <2>2. Pacing' = Pacing \cup {r}
      BY <1>2, <2>1 DEF Pacing
    <2>3. crowded' = IF Pacing = {} THEN {} ELSE Pacing \cup {r}
      BY <1>1, <1>5 DEF PaceInv
    <2>4. since' = Interval - gap' /\ gap' = gap
      BY <1>1, <1>5 DEF PaceInv
    <2>5. \A q \in Pacing' \ crowded' : gap' <= request'[q].wait
      BY <1>1, <2>1, <2>2, <2>3, <2>4
    <2>6. PaceInv'
      BY <2>2, <2>3, <2>4, <2>5 DEF PaceInv
    <2>7. SpacedStep
      BY <1>2, <2>1 DEF SpacedStep, Sends
    <2>8. QED
      BY <2>6, <2>7
  <1>6. QED
    BY <1>4, <1>5

LEMMA WakeKeepsPace ==
  ASSUME ProxyInv, PaceInv, NEW r \in Requests, Wake(r)
  PROVE  PaceInv' /\ SpacedStep
  <1>1. /\ request \in [Requests -> RequestRecord] /\ gap \in 0..Interval
        /\ request[r].step = "pacing" /\ request[r].wait = 0
        /\ request' = [request EXCEPT ![r] = At("sent", @.key, @.attempt, 0)]
        /\ gap' = Interval /\ since' = 0 /\ crowded' = crowded \ {r}
    BY DEF ProxyInv, RequestsOK, RestOK, Wake
  <1>2. \A q \in Requests \ {r} : request'[q] = request[q]
    BY <1>1
  <1>3. request'[r].step = "sent"
    BY <1>1 DEF At
  <1>4. r \in Pacing /\ Pacing' = Pacing \ {r}
    BY <1>1, <1>2, <1>3 DEF Pacing
  <1>5. Pacing' = crowded'
    BY <1>1, <1>4 DEF PaceInv
  <1>6. PaceInv'
    BY <1>1, <1>5, NumbersOK DEF PaceInv
  <1>7. r \notin crowded => since = Interval
    BY <1>1, <1>4, NumbersOK DEF PaceInv
  <1>8. SpacedStep
    BY <1>2, <1>7 DEF SpacedStep, Sends
  <1>9. QED
    BY <1>6, <1>8

(* A request that comes back from an attempt.                              *)
LEMMA ReturnKeepsPace ==
  ASSUME PaceInv, NEW r \in Requests, request[r].step # "pacing",
         request'[r].step \in {"idle", "backoff"},
         \A q \in Requests \ {r} : request'[q] = request[q],
         UNCHANGED <<gap, since, crowded>>
  PROVE  PaceInv' /\ SpacedStep
  <1>1. Pacing' = Pacing /\ \A q \in Pacing : request'[q] = request[q]
    BY DEF Pacing
  <1>2. PaceInv'
    BY <1>1 DEF PaceInv
  <1>3. SpacedStep
    BY DEF SpacedStep, Sends
  <1>4. QED
    BY <1>2, <1>3

LEMMA TickKeepsPace ==
  ASSUME ProxyInv, PaceInv, Tick
  PROVE  PaceInv' /\ SpacedStep
  <1>1. /\ gap \in 0..Interval /\ gap' = Down(gap)
        /\ since \in 0..Interval /\ since' = Lower(since + 1, Interval)
        /\ crowded' = crowded
    BY DEF ProxyInv, RestOK, Tick
  <1>2. ASSUME NEW r \in Requests
        PROVE  /\ request'[r].step = request[r].step
               /\ request'[r].wait = Down(request[r].wait)
               /\ request[r].wait \in Nat
    BY DEF Tick, ProxyInv, RequestsOK, RequestRecord
  <1>3. Pacing' = Pacing
    BY <1>2 DEF Pacing
  <1>4. since' = Interval - gap'
    BY <1>1, NumbersOK DEF Down, Lower, PaceInv
  <1>5. ASSUME NEW r \in Pacing \ crowded
        PROVE  gap' <= request'[r].wait
    <2>1. r \in Requests /\ gap <= request[r].wait
      BY DEF PaceInv, Pacing
    <2>2. QED
      BY <1>1, <1>2, <2>1, NumbersOK DEF Down
  <1>6. PaceInv'
    BY <1>1, <1>3, <1>4, <1>5 DEF PaceInv
  <1>7. SpacedStep
    BY <1>2 DEF SpacedStep, Sends
  <1>8. QED
    BY <1>6, <1>7

LEMMA StillKeepsPace ==
  ASSUME PaceInv, UNCHANGED <<gap, since, crowded, request>>
  PROVE  PaceInv' /\ SpacedStep
  BY DEF PaceInv, Pacing, SpacedStep, Sends

LEMMA FinishReturns ==
  ASSUME RequestsOK, NEW r \in Requests, Finish(r)
  PROVE  /\ request'[r].step \in {"idle", "backoff"}
         /\ \A q \in Requests \ {r} : request'[q] = request[q]
  BY IdleTyped DEF Finish, RequestsOK

LEMMA BackoffReturns ==
  ASSUME RequestsOK, NEW r \in Requests, Backoff(r)
  PROVE  /\ request'[r].step \in {"idle", "backoff"}
         /\ \A q \in Requests \ {r} : request'[q] = request[q]
  BY DEF Backoff, At, RequestsOK

LEMMA NextKeepsPace ==
  ASSUME ProxyInv, PaceInv, [Next]_vars
  PROVE  PaceInv' /\ SpacedStep
  <1>1. CASE Call
    <2>1. PICK r \in Requests, k \in Keys : Hit(r, k) \/ Refuse(r, k) \/ Miss(r, k)
      BY <1>1 DEF Call
    <2>2. CASE Hit(r, k) \/ Refuse(r, k)
      BY <2>2, StillKeepsPace DEF Hit, Refuse, vars, history
    <2>3. CASE Miss(r, k)
      <3>1. 1 \in 0..MaxRetries
        BY NumbersOK
      <3>2. QED
        BY <2>3, <3>1, PaceKeepsPace DEF Miss
    <2>4. QED
      BY <2>1, <2>2, <2>3
  <1>2. ASSUME NEW r \in Requests, Progress(r)
        PROVE  PaceInv' /\ SpacedStep
    <2>1. CASE Wake(r)
      BY <2>1, WakeKeepsPace
    <2>2. CASE Retry(r)
      <3>1. /\ request[r].key \in Keys /\ request[r].step = "backoff"
            /\ request[r].attempt + 1 \in 0..MaxRetries
        BY <2>2, NumbersOK DEF ProxyInv, RequestsOK, RequestRecord, Retry
      <3>2. QED
        BY <2>2, <3>1, PaceKeepsPace DEF Retry
    <2>3. CASE Answer(r) \/ Reject(r)
      BY <2>3, FinishReturns, ReturnKeepsPace DEF Answer, Reject, ProxyInv
    <2>4. CASE Throttle(r)
      BY <2>4, BackoffReturns, ReturnKeepsPace DEF Throttle, ProxyInv, history
    <2>5. CASE Fail(r)
      <3>1. Finish(r) \/ Backoff(r)
        BY <2>5 DEF Fail
      <3>2. request[r].step = "sent" /\ UNCHANGED <<gap, since, crowded>>
        BY <2>5 DEF Fail
      <3>3. QED
        BY <3>1, <3>2, FinishReturns, BackoffReturns, ReturnKeepsPace DEF ProxyInv
    <2>6. QED
      BY <1>2, <2>1, <2>2, <2>3, <2>4, <2>5 DEF Progress
  <1>3. CASE Tick
    BY <1>3, TickKeepsPace
  <1>4. CASE Change \/ UNCHANGED vars
    BY <1>4, StillKeepsPace DEF Change, vars, history
  <1>5. QED
    BY <1>1, <1>2, <1>3, <1>4 DEF Next

(* Attempts leave at least an interval apart, but for the ones that paced  *)
(* while another paced or left: the interval is only lost to the order in  *)
(* which the time of the last request is read and written.                 *)
THEOREM AttemptsSpaced == Spec => Spaced
  <1>1. Init => PaceInv
    BY IdleTyped, NumbersOK DEF Init, PaceInv, Pacing
  <1>2. PaceInv /\ ProxyInv /\ [Next]_vars => PaceInv' /\ SpacedStep
    BY NextKeepsPace
  <1>3. SpacedStep => [\A r \in Requests : Sends(r) => since = Interval \/ r \in crowded]_vars
    BY DEF SpacedStep
  <1>4. QED
    BY <1>1, <1>2, <1>3, ProxyInvariant, PTL DEF Spec, Spaced
=============================================================================
