---------------------- MODULE GoldTradeProcessor_proofs ----------------------
(***************************************************************************)
(* Theorems about the position engine and the trade processor that runs    *)
(* it.  PositionFills: what apply_fill returns, for every position,        *)
(* quantity, price and fee, and what any number of fills adds up to.       *)
(* GoldTradeProcessor, for every set of jobs, wallets, outcomes and        *)
(* trades: types, the log of processed days, each trade in the positions   *)
(* once, no update lost, the ledger as one history that ends at the        *)
(* positions, the partitions, and the refinement of TradeSettlement.       *)
(***************************************************************************)
EXTENDS GoldTradeProcessor, PositionFills, TLAPS, FiniteSetTheorems, WellFoundedInduction

(* ---------------------------- one position ----------------------------- *)

LEMMA RatioTypes ==
  ASSUME NEW a \in Ratio, NEW b \in Ratio, NEW n \in Int
  PROVE  /\ Whole(n) \in Ratio
         /\ RatioAdd(a, b) \in Ratio
         /\ RatioTimes(n, a) \in Ratio
         /\ RatioNeg(a) \in Ratio
         /\ Abs(n) \in Int
  BY DEF Ratio, Whole, RatioAdd, RatioTimes, RatioNeg, Abs

LEMMA PnlType ==
  ASSUME NEW p \in PositionState, NEW q \in Int, NEW price \in Int, NEW fees \in Int
  PROVE  RealizedPnl(p, q, price, fees) \in Ratio
<1> DEFINE gain == RatioAdd(Whole(price), RatioNeg(p.avg_cost))
<1>1. gain \in Ratio /\ RatioNeg(gain) \in Ratio
  <2>1. p.avg_cost \in Ratio
    BY DEF PositionState
  <2>2. Whole(price) \in Ratio /\ RatioNeg(p.avg_cost) \in Ratio
    BY <2>1 DEF Ratio, Whole, RatioNeg
  <2>3. gain \in Ratio
    BY <2>2, RatioTypes
  <2> QED
    BY <2>3 DEF Ratio, RatioNeg
<1>2. -fees \in Int
  OBVIOUS
<1> HIDE DEF gain
<1>3. /\ RatioAdd(RatioTimes(q, gain), Whole(-fees)) \in Ratio
      /\ RatioAdd(RatioTimes(q, RatioNeg(gain)), Whole(-fees)) \in Ratio
  BY <1>1, <1>2, RatioTypes
<1> QED
  BY <1>3 DEF RealizedPnl, gain

LEMMA WeightedCostType ==
  ASSUME NEW p \in PositionState, NEW delta \in Int, NEW price \in Int
  PROVE  WeightedCost(p, delta, price) \in Ratio
  BY DEF WeightedCost, PositionState, Ratio, Whole, Abs

LEMMA IncreaseType ==
  ASSUME NEW p \in PositionState, NEW delta \in Int, NEW price \in Int, NEW fees \in Int
  PROVE  /\ ApplyIncrease(p, delta, price, fees).position \in PositionState
         /\ ApplyIncrease(p, delta, price, fees).realized_pnl \in Ratio
<1> DEFINE avg == WeightedCost(p, delta, price)
           qty == p.qty + delta
           basis == RatioAdd(RatioTimes(Abs(qty), avg), Whole(fees))
<1>1. avg \in Ratio
  BY WeightedCostType
<1>2. qty \in Int /\ Abs(qty) \in Int
  BY DEF PositionState, Abs
<1> HIDE DEF avg, qty
<1>3. basis \in Ratio
  BY <1>1, <1>2, RatioTypes
<1> HIDE DEF basis
<1>4. [p EXCEPT !.qty = qty, !.avg_cost = avg, !.cost_basis = basis] \in PositionState
  BY <1>1, <1>2, <1>3 DEF PositionState
<1>5. Whole(0) \in Ratio
  BY DEF Whole, Ratio
<1> QED
  BY <1>4, <1>5 DEF ApplyIncrease, avg, qty, basis

LEMMA ReduceType ==
  ASSUME NEW p \in PositionState, NEW delta \in Int, NEW price \in Int, NEW fees \in Int
  PROVE  /\ ApplyReduce(p, delta, price, fees).position \in PositionState
         /\ ApplyReduce(p, delta, price, fees).realized_pnl \in Ratio
<1>1. /\ RealizedPnl(p, Abs(delta), price, fees) \in Ratio
      /\ RealizedPnl(p, Abs(p.qty), price, fees) \in Ratio
  BY PnlType DEF PositionState, Abs
<1>2. /\ Decrease(p, delta, price, fees).position \in PositionState
      /\ Decrease(p, delta, price, fees).realized_pnl \in Ratio
  <2> DEFINE qty == p.qty + delta
             basis == IF qty = 0 THEN Whole(0) ELSE RatioTimes(Abs(qty), p.avg_cost)
  <2>1. qty \in Int
    BY DEF PositionState
  <2>2. basis \in Ratio
    BY <2>1 DEF PositionState, Ratio, Whole, RatioTimes, Abs
  <2> HIDE DEF qty, basis
  <2>3. [p EXCEPT !.qty = qty, !.cost_basis = basis,
                  !.first_open_ts = IF qty = 0 THEN NoTs ELSE @] \in PositionState
    BY <2>1, <2>2 DEF PositionState, NoTs
  <2> QED
    BY <1>1, <2>3 DEF Decrease, qty, basis
<1>3. /\ Flip(p, delta, price, fees).position \in PositionState
      /\ Flip(p, delta, price, fees).realized_pnl \in Ratio
  <2> DEFINE remainder == Abs(delta) - Abs(p.qty)
             qty == IF delta > 0 THEN remainder ELSE -remainder
             basis == Whole(remainder * price)
             avg == Whole(price)
  <2>1. remainder \in Int
    BY DEF PositionState, Abs
  <2>2. qty \in Int /\ basis \in Ratio /\ avg \in Ratio
    <3> HIDE DEF remainder
    <3>1. remainder * price \in Int /\ -remainder \in Int
      BY <2>1
    <3> QED
      BY <2>1, <3>1 DEF Whole, Ratio
  <2> HIDE DEF qty, basis, avg
  <2>3. [p EXCEPT !.qty = qty, !.avg_cost = avg, !.cost_basis = basis,
                  !.first_open_ts = p.last_fill_ts] \in PositionState
    BY <2>2 DEF PositionState
  <2> QED
    BY <1>1, <2>3 DEF Flip, qty, basis, avg
<1> QED
  BY <1>2, <1>3 DEF ApplyReduce

(* apply_fill maps positions to positions.                                 *)
THEOREM ApplyFillType ==
  ASSUME NEW p \in PositionState, NEW side, NEW q \in Int, NEW price \in Int,
         NEW fees \in Int, NEW ts \in Int
  PROVE  /\ ApplyFill(p, side, q, price, fees, ts).position \in PositionState
         /\ ApplyFill(p, side, q, price, fees, ts).realized_pnl \in Ratio
<1> DEFINE touched == [p EXCEPT !.last_fill_ts = ts,
                                !.first_open_ts = IF p.qty = 0 THEN ts ELSE @]
           delta == SignedDelta(side, q)
<1>1. touched \in PositionState
  BY DEF PositionState
<1>2. delta \in Int
  BY DEF SignedDelta
<1> HIDE DEF touched, delta
<1>3. /\ ApplyIncrease(touched, delta, price, fees).position \in PositionState
      /\ ApplyIncrease(touched, delta, price, fees).realized_pnl \in Ratio
      /\ ApplyReduce(touched, delta, price, fees).position \in PositionState
      /\ ApplyReduce(touched, delta, price, fees).realized_pnl \in Ratio
  BY <1>1, <1>2, IncreaseType, ReduceType
<1> QED
  BY <1>3 DEF ApplyFill, touched, delta

(* Whichever branch a fill takes - increase, partial or exact close, flip  *)
(* - the position moves by exactly the signed quantity of the fill, and    *)
(* carries the timestamp of the fill.                                      *)
THEOREM ApplyFillMoves ==
  ASSUME NEW p \in PositionState, NEW side, NEW q \in Int, NEW price \in Int,
         NEW fees \in Int, NEW ts \in Int, ~Rejected(side, q)
  PROVE  /\ ApplyFill(p, side, q, price, fees, ts).position.qty
              = p.qty + SignedDelta(side, q)
         /\ ApplyFill(p, side, q, price, fees, ts).position.last_fill_ts = ts
<1> DEFINE touched == [p EXCEPT !.last_fill_ts = ts,
                                !.first_open_ts = IF p.qty = 0 THEN ts ELSE @]
           delta == SignedDelta(side, q)
<1>1. /\ touched \in PositionState
      /\ touched.qty = p.qty
      /\ touched.last_fill_ts = ts
  BY DEF PositionState
<1>2. delta \in Int /\ delta # 0
  BY DEF SignedDelta, Rejected
<1> HIDE DEF touched, delta
<1>3. /\ ApplyIncrease(touched, delta, price, fees).position.qty = p.qty + delta
      /\ ApplyIncrease(touched, delta, price, fees).position.last_fill_ts = ts
  BY <1>1, <1>2 DEF ApplyIncrease, PositionState
<1>4. ASSUME ~IsIncreasing(p.qty, delta)
      PROVE  /\ ApplyReduce(touched, delta, price, fees).position.qty = p.qty + delta
             /\ ApplyReduce(touched, delta, price, fees).position.last_fill_ts = ts
  <2>1. p.qty \in Int
    BY DEF PositionState
  <2>2. (p.qty > 0 /\ delta < 0) \/ (p.qty < 0 /\ delta > 0)
    BY <1>2, <1>4, <2>1 DEF IsIncreasing
  <2>3. /\ Decrease(touched, delta, price, fees).position.qty = p.qty + delta
        /\ Decrease(touched, delta, price, fees).position.last_fill_ts = ts
    BY <1>1 DEF Decrease, PositionState
  <2>4. CASE Abs(delta) <= Abs(p.qty)
    BY <1>1, <2>3, <2>4 DEF ApplyReduce
  <2>5. CASE ~(Abs(delta) <= Abs(p.qty))
    <3> DEFINE remainder == Abs(delta) - Abs(touched.qty)
    <3>1. (IF delta > 0 THEN remainder ELSE -remainder) = p.qty + delta
      BY <1>1, <1>2, <2>1, <2>2 DEF Abs
    <3>2. /\ Flip(touched, delta, price, fees).position.qty
               = IF delta > 0 THEN remainder ELSE -remainder
          /\ Flip(touched, delta, price, fees).position.last_fill_ts = touched.last_fill_ts
      <4> HIDE DEF remainder
      <4> QED
        BY <1>1 DEF Flip, PositionState, remainder
    <3>3. /\ Flip(touched, delta, price, fees).position.qty = p.qty + delta
          /\ Flip(touched, delta, price, fees).position.last_fill_ts = ts
      BY <1>1, <3>1, <3>2
    <3> QED
      BY <1>1, <2>5, <3>3 DEF ApplyReduce
  <2> QED
    BY <2>4, <2>5
<1> QED
  BY <1>3, <1>4 DEF ApplyFill, touched, delta

(* -------------------------- sequences of fills ------------------------- *)

(* A finite set of numbers has a largest one: of the sets of what is above *)
(* an element, one has no other below it.                                  *)
LEMMA Largest ==
  ASSUME NEW S \in SUBSET Int, IsFiniteSet(S), S # {}
  PROVE  \E m \in S : \A n \in S : n <= m
<1> DEFINE Above(a) == {n \in S : n > a}
           T == {Above(a) : a \in S}
<1>1. T \subseteq FiniteSubsetsOf(S) /\ T # {}
  <2>1. \A a \in S : Above(a) \in SUBSET S /\ IsFiniteSet(Above(a))
    BY FS_Subset
  <2> QED
    BY <2>1 DEF FiniteSubsetsOf
<1>2. PICK x \in T : \A y \in T : ~ (<<y, x>> \in StrictSubsetOrdering(S))
  <2> HIDE DEF T
  <2> QED
    BY <1>1, FS_StrictSubsetOrderingWellFounded, WFMin
<1>3. PICK m \in S : x = Above(m)
  OBVIOUS
<1>4. ASSUME NEW n \in S, n > m PROVE FALSE
  <2>0. m \in Int /\ n \in Int /\ \A k \in S : k \in Int
    OBVIOUS
  <2>a. \A k \in S : k > n => k > m
    BY <1>4, <2>0
  <2>b. ~(n > n)
    BY <2>0
  <2>1. Above(n) \subseteq Above(m) /\ n \in Above(m) /\ n \notin Above(n)
    BY <1>4, <2>a, <2>b
  <2>2. <<Above(n), Above(m)>> \in StrictSubsetOrdering(S)
    BY <2>1 DEF StrictSubsetOrdering
  <2> QED
    BY <1>2, <1>3, <2>2
<1> QED
  BY <1>4

(* A fraction in its lowest terms is the same fraction.                    *)
LEMMA LowestIs ==
  ASSUME NEW r \in Ratio, r[2] > 0
  PROVE  Lowest(r) \in Ratio /\ Lowest(r)[2] > 0 /\ RatioEq(Lowest(r), r)
<1>0. PICK n, m \in Int : n = r[1] /\ m = r[2] /\ m > 0
  BY DEF Ratio
<1> DEFINE divides(d) == n % d = 0 /\ m % d = 0
           S == {d \in 1..m : divides(d)}
<1>1. \E d \in 1..m : divides(d) /\ \A e \in (d + 1)..m : ~divides(e)
  <2>1. IsFiniteSet(S) /\ S \subseteq Int
    <3>1. IsFiniteSet(1..m)
      BY <1>0, FS_Interval
    <3> QED
      BY <3>1, FS_Subset
  <2>2. 1 \in S
    BY <1>0
  <2> HIDE DEF S
  <2>3. PICK g \in S : \A e \in S : e <= g
    BY <2>1, <2>2, Largest
  <2> QED
    BY <1>0, <2>3 DEF S
<1>2. PICK g : g = CHOOSE d \in 1..m : divides(d) /\ \A e \in (d + 1)..m : ~divides(e)
  OBVIOUS
<1>3. g \in 1..m /\ divides(g)
  BY <1>1, <1>2
<1>4. PICK a, b \in Int : a = n \div g /\ b = m \div g
  BY <1>0, <1>3
<1>5. n = g * a /\ m = g * b
  BY <1>0, <1>3, <1>4
<1>6. g \in Int /\ g > 0
  BY <1>0, <1>3
<1> HIDE DEF divides
<1>7. b > 0
  BY <1>0, <1>5, <1>6
<1>8. a * m = n * b
  BY <1>5, <1>6
<1>9. Lowest(r) = <<a, b>>
  BY <1>0, <1>2, <1>4 DEF Lowest, divides
<1> QED
  BY <1>0, <1>7, <1>8, <1>9 DEF Ratio, RatioEq

(* ------------------------- the cases of a fill ------------------------- *)

(* The fill of delta that opens the position or adds to it.                *)
Grows(delta, price, fees, ts) ==
  /\ IsIncreasing(position.qty, delta)
  /\ position'.avg_cost = WeightedCost(position, delta, price)
  /\ position'.first_open_ts = IF position.qty = 0 THEN ts ELSE position.first_open_ts
  /\ realized' = Lowest(RatioAdd(realized, Whole(0)))
  /\ openingFees' = openingFees + fees
  /\ era' = IF position.qty = 0 THEN [prices |-> {price}, since |-> ts]
            ELSE [prices |-> era.prices \cup {price}, since |-> era.since]

(* The one that closes a part of it, or all.                               *)
Shrinks(delta, price, fees) ==
  /\ ~IsIncreasing(position.qty, delta)
  /\ position'.avg_cost = position.avg_cost
  /\ position'.first_open_ts = IF position'.qty = 0 THEN NoTs ELSE position.first_open_ts
  /\ realized' = Lowest(RatioAdd(realized, RealizedPnl(position, Abs(delta), price, fees)))
  /\ openingFees' = openingFees
  /\ era' = IF position'.qty = 0 THEN NoEra ELSE era

(* The one that closes it and opens the other direction.                   *)
Flips(delta, price, fees, ts) ==
  /\ ~IsIncreasing(position.qty, delta)
  /\ position'.avg_cost = Whole(price)
  /\ position'.first_open_ts = ts
  /\ realized' = Lowest(RatioAdd(realized, RealizedPnl(position, Abs(position.qty), price, fees)))
  /\ openingFees' = openingFees
  /\ era' = [prices |-> {price}, since |-> ts]

Moves(delta, price, fees, ts) ==
  /\ position'.qty = position.qty + delta
  /\ position'.last_fill_ts = ts
  /\ cash' = cash - delta * price - fees
  /\ \/ Grows(delta, price, fees, ts) \/ Shrinks(delta, price, fees)
     \/ Flips(delta, price, fees, ts)

EraType == [prices : SUBSET Nat, since : Int]

TypeInv ==
  /\ FillsTypeOK
  /\ clock <= fills
  /\ realized[2] > 0
  /\ era \in EraType

LEMMA FillChanges ==
  ASSUME TypeInv, NEW side \in Sides, NEW q \in Quantities, NEW price \in Prices, NEW fees \in Fees,
         NEW ts \in Int, Fill(side, q, price, fees, ts)
  PROVE  /\ SignedDelta(side, q) \in Int \ {0}
         /\ Moves(SignedDelta(side, q), price, fees, ts)
<1> DEFINE touched == [position EXCEPT !.last_fill_ts = ts,
                         !.first_open_ts = IF position.qty = 0 THEN ts ELSE @]
           result == ApplyFill(position, side, q, price, fees, ts)
<1>0. /\ q \in Int /\ price \in Nat /\ fees \in Nat /\ ~Rejected(side, q)
      /\ position \in PositionState /\ era \in EraType
  BY FillAssumption DEF Fill, TypeInv, FillsTypeOK
<1>1. PICK delta : delta = SignedDelta(side, q)
  OBVIOUS
<1>2. delta \in Int /\ delta # 0
  BY <1>0, <1>1 DEF SignedDelta, Rejected
<1>3. PICK t \in PositionState : t = touched
  BY <1>0 DEF PositionState
<1>4. /\ t.qty = position.qty /\ t.avg_cost = position.avg_cost /\ t.last_fill_ts = ts
      /\ t.first_open_ts = IF position.qty = 0 THEN ts ELSE position.first_open_ts
  BY <1>0, <1>3 DEF PositionState
<1>5. result = IF IsIncreasing(position.qty, delta) THEN ApplyIncrease(t, delta, price, fees)
               ELSE ApplyReduce(t, delta, price, fees)
  BY <1>1, <1>3 DEF ApplyFill
<1>6. /\ result.position.qty = position.qty + delta
      /\ result.position.last_fill_ts = ts
  BY <1>0, <1>1, ApplyFillMoves
<1>7. /\ position' = result.position
      /\ cash' = cash - delta * price - fees
      /\ realized' = Lowest(RatioAdd(realized, result.realized_pnl))
      /\ openingFees' = IF IsIncreasing(position.qty, delta) THEN openingFees + fees ELSE openingFees
  BY <1>1 DEF Fill
<1>8. era' = IF position'.qty = 0 THEN NoEra
             ELSE IF position.qty # 0 /\ (position'.qty > 0) = (position.qty > 0)
             THEN [prices |-> IF IsIncreasing(position.qty, delta)
                              THEN era.prices \cup {price} ELSE era.prices,
                   since |-> era.since]
             ELSE [prices |-> {price}, since |-> ts]
  <2> DEFINE grows == IsIncreasing(position.qty, delta)
             sameEra == position.qty # 0 /\ (result.position.qty > 0) = (position.qty > 0)
  <2>1. era' = CASE result.position.qty = 0 -> NoEra
                 [] result.position.qty # 0 /\ sameEra ->
                      [era EXCEPT !.prices = IF grows THEN @ \cup {price} ELSE @]
                 [] OTHER -> [prices |-> {price}, since |-> ts]
    BY <1>1 DEF Fill
  <2>2. \A P : [era EXCEPT !.prices = P] = [prices |-> P, since |-> era.since]
    BY <1>0 DEF EraType
  <2> HIDE DEF grows, result
  <2>3. CASE result.position.qty = 0
    BY <1>7, <2>1, <2>3
  <2>4. CASE result.position.qty # 0 /\ sameEra
    BY <1>7, <2>1, <2>2, <2>4 DEF grows
  <2>5. CASE result.position.qty # 0 /\ ~sameEra
    BY <1>7, <2>1, <2>5
  <2> QED
    BY <2>3, <2>4, <2>5
<1>9. position.qty \in Int
  BY <1>0 DEF PositionState
<1> HIDE DEF touched, result
<1>10. CASE IsIncreasing(position.qty, delta)
  <2>1. /\ result.position.avg_cost = WeightedCost(t, delta, price)
        /\ result.position.first_open_ts = t.first_open_ts
        /\ result.realized_pnl = Whole(0)
    BY <1>5, <1>10 DEF ApplyIncrease, PositionState
  <2>2. WeightedCost(t, delta, price) = WeightedCost(position, delta, price)
    BY <1>4 DEF WeightedCost
  <2>3. position.qty + delta # 0
        /\ (position.qty # 0 => (position.qty + delta > 0) = (position.qty > 0))
    BY <1>2, <1>9, <1>10 DEF IsIncreasing
  <2>4. era' = IF position.qty = 0 THEN [prices |-> {price}, since |-> ts]
               ELSE [prices |-> era.prices \cup {price}, since |-> era.since]
    BY <1>6, <1>7, <1>8, <1>10, <2>3
  <2>5. Grows(delta, price, fees, ts)
    BY <1>4, <1>7, <1>10, <2>1, <2>2, <2>4 DEF Grows
  <2> QED
    BY <1>1, <1>2, <1>6, <1>7, <2>5 DEF Moves
<1>11. CASE ~IsIncreasing(position.qty, delta)
  <2>1. (position.qty > 0 /\ delta < 0) \/ (position.qty < 0 /\ delta > 0)
    BY <1>2, <1>9, <1>11 DEF IsIncreasing
  <2>2. \A c : RealizedPnl(t, c, price, fees) = RealizedPnl(position, c, price, fees)
    BY <1>4 DEF RealizedPnl
  <2>3. CASE Abs(delta) <= Abs(position.qty)
    <3>1. result = Decrease(t, delta, price, fees)
      BY <1>4, <1>5, <1>11, <2>3 DEF ApplyReduce
    <3>2. /\ result.position.avg_cost = t.avg_cost
          /\ result.position.first_open_ts = (IF t.qty + delta = 0 THEN NoTs ELSE t.first_open_ts)
          /\ result.realized_pnl = RealizedPnl(t, Abs(delta), price, fees)
      BY <3>1 DEF Decrease, PositionState
    <3>3. position.qty + delta # 0 => (position.qty + delta > 0) = (position.qty > 0)
      BY <1>2, <1>9, <2>1, <2>3 DEF Abs
    <3>4. era' = IF position'.qty = 0 THEN NoEra ELSE era
      BY <1>0, <1>6, <1>7, <1>8, <1>11, <2>1, <3>3 DEF EraType
    <3>5. Shrinks(delta, price, fees)
      BY <1>4, <1>6, <1>7, <1>11, <2>1, <2>2, <3>2, <3>4 DEF Shrinks
    <3> QED
      BY <1>1, <1>2, <1>6, <1>7, <3>5 DEF Moves
  <2>4. CASE ~(Abs(delta) <= Abs(position.qty))
    <3>1. result = Flip(t, delta, price, fees)
      BY <1>4, <1>5, <1>11, <2>4 DEF ApplyReduce
    <3>2. /\ result.position.avg_cost = Whole(price)
          /\ result.position.first_open_ts = t.last_fill_ts
          /\ result.realized_pnl = RealizedPnl(t, Abs(t.qty), price, fees)
      BY <3>1 DEF Flip, PositionState
    <3>3. position.qty + delta # 0 /\ (position.qty + delta > 0) # (position.qty > 0)
      BY <1>2, <1>9, <2>1, <2>4 DEF Abs
    <3>4. era' = [prices |-> {price}, since |-> ts]
      BY <1>6, <1>7, <1>8, <3>3
    <3>5. Flips(delta, price, fees, ts)
      BY <1>4, <1>7, <1>11, <2>2, <3>2, <3>4 DEF Flips
    <3> QED
      BY <1>1, <1>2, <1>6, <1>7, <3>5 DEF Moves
  <2> QED
    BY <2>3, <2>4
<1> QED
  BY <1>10, <1>11

(* ------------------------------- the types ----------------------------- *)

LEMMA Product ==
  ASSUME NEW a \in Int, NEW b \in Int, a > 0, b > 0
  PROVE  a * b \in Int /\ a * b > 0
  OBVIOUS

LEMMA PnlDenominator ==
  ASSUME NEW p \in PositionState, NEW c \in Int, NEW price \in Int, NEW fees \in Int
  PROVE  RealizedPnl(p, c, price, fees)[2] = p.avg_cost[2]
<1>1. p.avg_cost[2] \in Int
  BY DEF PositionState, Ratio
<1> QED
  BY <1>1 DEF RealizedPnl, RatioAdd, RatioTimes, RatioNeg, Whole

LEMMA Denominators ==
  ASSUME NEW p \in PositionState, p.avg_cost[2] > 0, NEW side \in Sides, NEW q \in Int, q > 0,
         NEW price \in Int, NEW fees \in Int, NEW ts \in Int
  PROVE  /\ ApplyFill(p, side, q, price, fees, ts).position.avg_cost[2] > 0
         /\ ApplyFill(p, side, q, price, fees, ts).position.cost_basis[2] > 0
         /\ ApplyFill(p, side, q, price, fees, ts).realized_pnl[2] > 0
<1> DEFINE touched == [p EXCEPT !.last_fill_ts = ts,
                         !.first_open_ts = IF p.qty = 0 THEN ts ELSE @]
<1>1. PICK t \in PositionState : t = touched
  BY DEF PositionState
<1>2. t.qty = p.qty /\ t.avg_cost = p.avg_cost /\ t.qty \in Int
  BY <1>1 DEF PositionState
<1>3. PICK delta \in Int : delta = SignedDelta(side, q) /\ delta # 0
  BY DEF SignedDelta
<1>4. PICK n, d \in Int : t.avg_cost = <<n, d>> /\ d > 0
  BY <1>2 DEF PositionState, Ratio
<1>5. PICK r : r = ApplyFill(p, side, q, price, fees, ts)
  OBVIOUS
<1>6. r = IF IsIncreasing(t.qty, delta) THEN ApplyIncrease(t, delta, price, fees)
          ELSE ApplyReduce(t, delta, price, fees)
  BY <1>1, <1>2, <1>3, <1>5 DEF ApplyFill
<1> HIDE DEF touched
<1>7. CASE IsIncreasing(t.qty, delta)
  <2>1. t.qty + delta \in Int /\ t.qty + delta # 0
    BY <1>2, <1>3, <1>7 DEF IsIncreasing
  <2>2. PICK k \in Int : k = Abs(t.qty + delta) /\ k > 0
    BY <2>1 DEF Abs
  <2>3. PICK avg : avg = WeightedCost(t, delta, price)
    OBVIOUS
  <2>4. avg[2] \in Int /\ avg[2] > 0
    BY <1>4, <2>2, <2>3, Product DEF WeightedCost, Whole
  <2>5. /\ r.position.avg_cost = avg
        /\ r.position.cost_basis = RatioAdd(RatioTimes(k, avg), Whole(fees))
        /\ r.realized_pnl = Whole(0)
    BY <1>6, <1>7, <2>2, <2>3 DEF ApplyIncrease, PositionState
  <2>6. RatioAdd(RatioTimes(k, avg), Whole(fees))[2] > 0
    BY <2>4 DEF RatioAdd, RatioTimes, Whole
  <2>7. Whole(0)[2] > 0
    BY DEF Whole
  <2> QED
    BY <1>5, <2>4, <2>5, <2>6, <2>7
<1>8. CASE ~IsIncreasing(t.qty, delta)
  <2>1. \A c \in Int : RealizedPnl(t, c, price, fees)[2] > 0
    BY <1>4, PnlDenominator
  <2>2. Abs(delta) \in Int /\ Abs(t.qty) \in Int
    BY <1>2 DEF Abs
  <2>3. CASE Abs(delta) <= Abs(t.qty)
    <3>1. r = Decrease(t, delta, price, fees)
      BY <1>6, <1>8, <2>3 DEF ApplyReduce
    <3>2. /\ r.position.avg_cost = t.avg_cost
          /\ r.position.cost_basis = (IF t.qty + delta = 0 THEN Whole(0)
                                      ELSE RatioTimes(Abs(t.qty + delta), t.avg_cost))
          /\ r.realized_pnl = RealizedPnl(t, Abs(delta), price, fees)
      BY <3>1 DEF Decrease, PositionState
    <3>3. r.position.cost_basis[2] > 0
      BY <1>4, <3>2 DEF RatioTimes, Whole
    <3> QED
      BY <1>4, <1>5, <2>1, <2>2, <3>2, <3>3
  <2>4. CASE ~(Abs(delta) <= Abs(t.qty))
    <3>1. r = Flip(t, delta, price, fees)
      BY <1>6, <1>8, <2>4 DEF ApplyReduce
    <3>2. /\ r.position.avg_cost = Whole(price)
          /\ r.position.cost_basis = Whole((Abs(delta) - Abs(t.qty)) * price)
          /\ r.realized_pnl = RealizedPnl(t, Abs(t.qty), price, fees)
      BY <3>1 DEF Flip, PositionState
    <3> QED
      BY <1>5, <2>1, <2>2, <3>2 DEF Whole
  <2> QED
    BY <2>3, <2>4
<1> QED
  BY <1>5, <1>7, <1>8

(* What a sum of PnL becomes.                                              *)
LEMMA SumType ==
  ASSUME NEW a \in Ratio, a[2] > 0, NEW b \in Ratio, b[2] > 0
  PROVE  /\ RatioAdd(a, b) \in Ratio /\ RatioAdd(a, b)[2] > 0
         /\ Lowest(RatioAdd(a, b)) \in Ratio /\ Lowest(RatioAdd(a, b))[2] > 0
<1>1. a[2] \in Int /\ b[2] \in Int
  BY DEF Ratio
<1>2. RatioAdd(a, b) \in Ratio
  BY RatioTypes, <1>1
<1>3. RatioAdd(a, b)[2] > 0
  BY <1>1, Product DEF RatioAdd
<1> QED
  BY <1>2, <1>3, LowestIs

LEMMA FillType ==
  ASSUME TypeInv, NEW side \in Sides, NEW q \in Quantities, NEW price \in Prices, NEW fees \in Fees,
         NEW ts \in {clock, clock + 1}, Fill(side, q, price, fees, ts)
  PROVE  TypeInv'
<1>1. /\ q \in Int /\ q > 0 /\ price \in Nat /\ fees \in Nat /\ position \in PositionState
      /\ clock \in 0..MaxFills /\ fills \in 0..MaxFills /\ clock <= fills /\ MaxFills \in Nat
  BY FillAssumption DEF Fill, TypeInv, FillsTypeOK, Rejected
<1>2. ts \in Int /\ ts <= clock + 1 /\ ts >= 0
  BY <1>1
<1>3. PICK r : r = ApplyFill(position, side, q, price, fees, ts)
  OBVIOUS
<1>4. /\ r.position \in PositionState /\ r.realized_pnl \in Ratio
      /\ r.position.avg_cost[2] > 0 /\ r.position.cost_basis[2] > 0 /\ r.realized_pnl[2] > 0
  BY <1>1, <1>2, <1>3, ApplyFillType, Denominators DEF TypeInv, FillsTypeOK
<1>5. position' = r.position /\ realized' = Lowest(RatioAdd(realized, r.realized_pnl))
  BY <1>3 DEF Fill
<1>6. realized' \in Ratio /\ realized'[2] > 0
  BY <1>4, <1>5, SumType DEF TypeInv, FillsTypeOK
<1>7. clock' \in 0..MaxFills /\ fills' \in 0..MaxFills /\ clock' <= fills'
  BY <1>1, <1>2 DEF Fill
<1>8. PICK delta \in Int : Moves(delta, price, fees, ts)
  BY <1>2, FillChanges
<1>9. cash' \in Int /\ openingFees' \in Nat
  <2>1. cash \in Int /\ openingFees \in Nat
    BY DEF TypeInv, FillsTypeOK
  <2> QED
    BY <1>1, <1>8, <2>1 DEF Moves, Grows, Shrinks, Flips
<1>10. era' \in EraType
  <2>1. era \in EraType /\ {price} \subseteq Nat
    BY <1>1 DEF TypeInv
  <2>2. /\ [prices |-> {price}, since |-> ts] \in EraType
        /\ [prices |-> era.prices \cup {price}, since |-> era.since] \in EraType
        /\ NoEra \in EraType
    BY <1>2, <2>1 DEF EraType, NoEra, NoTs
  <2> QED
    BY <1>8, <2>1, <2>2 DEF Moves, Grows, Shrinks, Flips
<1> QED
  BY <1>4, <1>5, <1>6, <1>7, <1>9, <1>10 DEF TypeInv, FillsTypeOK

LEMMA FillsInitType == FillsInit => TypeInv
  BY FillAssumption DEF FillsInit, TypeInv, FillsTypeOK, EmptyPosition, PositionState, Whole, Ratio, NoTs, NoEra,
     EraType

LEMMA FillsStepType == TypeInv /\ [FillsNext]_fillsVars => TypeInv'
<1> SUFFICES ASSUME TypeInv, [FillsNext]_fillsVars PROVE TypeInv'
  OBVIOUS
<1>1. CASE UNCHANGED fillsVars
  BY <1>1 DEF fillsVars, TypeInv, FillsTypeOK
<1> QED
  BY <1>1, FillType DEF FillsNext, Refuse

LEMMA TypesHold == FillsSpec => []TypeInv
  BY FillsInitType, FillsStepType, PTL DEF FillsSpec

(* Every state of a position is well typed, its quotients defined.         *)
THEOREM FillsTypeCorrect == FillsSpec => []FillsTypeOK
<1>1. TypeInv => FillsTypeOK
  BY DEF TypeInv
<1> QED
  BY TypesHold, <1>1, PTL

(* --------------------- the opening of a position ----------------------- *)

LEMMA StepOpened == TypeInv /\ OpenedSince /\ [FillsNext]_fillsVars => OpenedSince'
<1> SUFFICES ASSUME TypeInv, OpenedSince, [FillsNext]_fillsVars PROVE OpenedSince'
  OBVIOUS
<1>1. CASE UNCHANGED fillsVars
  BY <1>1 DEF fillsVars, OpenedSince
<1>2. ASSUME NEW delta \in Int, NEW price, NEW fees, NEW ts, Moves(delta, price, fees, ts)
      PROVE  OpenedSince'
  BY <1>2 DEF Moves, Grows, Shrinks, Flips, OpenedSince, NoEra
<1>3. clock \in Int
  BY DEF TypeInv, FillsTypeOK
<1> QED
  BY <1>1, <1>2, <1>3, FillChanges DEF FillsNext, Refuse

(* first_open_ts is the moment the position took its present direction,    *)
(* through every sequence of increases, closes and flips.                  *)
THEOREM OpeningIsKept == FillsSpec => []OpenedSince
<1>1. FillsInit => OpenedSince
  BY DEF FillsInit, OpenedSince, EmptyPosition, NoEra
<1> QED
  BY TypesHold, <1>1, StepOpened, PTL DEF FillsSpec

(* -------------------------- the average cost --------------------------- *)

LEMMA Times ==
  ASSUME NEW a \in Nat, NEW x \in Int, NEW y \in Int, x <= y
  PROVE  a * x <= a * y
  OBVIOUS

(* A weighted mean is not below the lesser of what it is the mean of.      *)
LEMMA MeanAbove ==
  ASSUME NEW a \in Nat, NEW b \in Nat, NEW n \in Int, NEW d \in Nat, NEW price \in Int,
         NEW low \in Int, low * d <= n, low <= price
  PROVE  low * (d * (a + b)) <= a * n + b * price * d
<1>1. a * (low * d) <= a * n
  BY Times
<1>2. (b * d) * low <= (b * d) * price
  BY Times
<1>3. low * (d * (a + b)) = a * (low * d) + (b * d) * low /\ b * price * d = (b * d) * price
  OBVIOUS
<1>4. /\ a * (low * d) \in Int /\ a * n \in Int /\ (b * d) * low \in Int
      /\ (b * d) * price \in Int
  OBVIOUS
<1> QED
  BY <1>1, <1>2, <1>3, <1>4

LEMMA MeanBelow ==
  ASSUME NEW a \in Nat, NEW b \in Nat, NEW n \in Int, NEW d \in Nat, NEW price \in Int,
         NEW high \in Int, n <= high * d, price <= high
  PROVE  a * n + b * price * d <= high * (d * (a + b))
<1>1. a * n <= a * (high * d)
  BY Times
<1>2. (b * d) * price <= (b * d) * high
  BY Times
<1>3. high * (d * (a + b)) = a * (high * d) + (b * d) * high /\ b * price * d = (b * d) * price
  OBVIOUS
<1>4. /\ a * (high * d) \in Int /\ a * n \in Int /\ (b * d) * high \in Int
      /\ (b * d) * price \in Int
  OBVIOUS
<1> QED
  BY <1>1, <1>2, <1>3, <1>4

LEMMA GrowthCost ==
  ASSUME TypeInv, position.qty # 0, NEW delta \in Int, delta # 0, IsIncreasing(position.qty, delta),
         NEW price \in Nat
  PROVE  \E n \in Int, d \in Nat, a \in Nat, b \in Nat :
           /\ position.avg_cost = <<n, d>>
           /\ WeightedCost(position, delta, price) = <<a * n + b * price * d, d * (a + b)>>
<1>1. PICK n \in Int, d \in Nat : position.avg_cost = <<n, d>>
  BY DEF TypeInv, FillsTypeOK, PositionState, Ratio
<1>2. PICK a \in Nat, b \in Nat : a = Abs(position.qty) /\ b = Abs(delta)
  BY DEF TypeInv, FillsTypeOK, PositionState, Abs
<1>3. Abs(position.qty + delta) = a + b
  BY <1>2 DEF TypeInv, FillsTypeOK, PositionState, Abs, IsIncreasing
<1>4. WeightedCost(position, delta, price) = <<a * n + b * price * d, d * (a + b)>>
  BY <1>1, <1>2, <1>3 DEF WeightedCost
<1> QED
  BY <1>1, <1>4

LEMMA StepCost == TypeInv /\ CostWithinEra /\ [FillsNext]_fillsVars => CostWithinEra'
<1> SUFFICES ASSUME TypeInv, CostWithinEra, [FillsNext]_fillsVars PROVE CostWithinEra'
  OBVIOUS
<1>1. CASE UNCHANGED fillsVars
  BY <1>1 DEF fillsVars, CostWithinEra
<1>2. ASSUME NEW delta \in Int \ {0}, NEW price \in Nat, NEW fees, NEW ts, Moves(delta, price, fees, ts),
             position'.qty # 0
      PROVE  /\ \E p \in era'.prices : RatioLeq(Whole(p), position'.avg_cost)
             /\ \E p \in era'.prices : RatioLeq(position'.avg_cost, Whole(p))
  <2>0. RatioLeq(Whole(price), Whole(price))
    BY DEF RatioLeq, Whole
  <2>1. CASE Flips(delta, price, fees, ts)
    BY <2>0, <2>1 DEF Flips
  <2>2. CASE Shrinks(delta, price, fees)
    BY <1>2, <2>2 DEF Shrinks, CostWithinEra, IsIncreasing
  <2>3. CASE Grows(delta, price, fees, ts)
    <3>1. CASE position.qty = 0
      BY <2>0, <2>3, <3>1 DEF Grows, WeightedCost
    <3>2. CASE position.qty # 0
      <4>1. PICK n \in Int, d \in Nat, a \in Nat, b \in Nat :
              /\ position.avg_cost = <<n, d>>
              /\ position'.avg_cost = <<a * n + b * price * d, d * (a + b)>>
        <5>1. /\ delta \in Int /\ delta # 0 /\ IsIncreasing(position.qty, delta)
              /\ position'.avg_cost = WeightedCost(position, delta, price)
          BY <2>3 DEF Grows
        <5>2. PICK n \in Int, d \in Nat, a \in Nat, b \in Nat :
                /\ position.avg_cost = <<n, d>>
                /\ WeightedCost(position, delta, price) = <<a * n + b * price * d, d * (a + b)>>
          BY <3>2, <5>1, GrowthCost
        <5> QED
          BY <5>1, <5>2
      <4>2. era'.prices = era.prices \cup {price} /\ era.prices \subseteq Nat
        BY <2>3, <3>2 DEF Grows, TypeInv, EraType
      <4>3. PICK low \in era.prices, high \in era.prices : low * d <= n /\ n <= high * d
        <5>1. PICK low \in era.prices, high \in era.prices :
                RatioLeq(Whole(low), <<n, d>>) /\ RatioLeq(<<n, d>>, Whole(high))
          BY <3>2, <4>1 DEF CostWithinEra
        <5> QED
          BY <4>2, <5>1 DEF RatioLeq, Whole
      <4>4. PICK l \in era'.prices : l \in Int /\ l <= price /\ l * d <= n
        <5>1. CASE low <= price
          BY <4>2, <4>3, <5>1
        <5>2. CASE price < low
          <6>1. d * price <= d * low
            BY <4>2, <5>2, Times
          <6>2. price * d <= n
            BY <4>2, <4>3, <6>1
          <6> QED
            BY <4>2, <6>2
        <5> QED
          BY <4>2, <5>1, <5>2
      <4>5. PICK h \in era'.prices : h \in Int /\ price <= h /\ n <= h * d
        <5>1. CASE price <= high
          BY <4>2, <4>3, <5>1
        <5>2. CASE high < price
          <6>1. d * high <= d * price
            BY <4>2, <5>2, Times
          <6>2. n <= price * d
            BY <4>2, <4>3, <6>1
          <6> QED
            BY <4>2, <6>2
        <5> QED
          BY <4>2, <5>1, <5>2
      <4>6. PICK x, y \in Int : x = a * n + b * price * d /\ y = d * (a + b)
        OBVIOUS
      <4>7. l * y <= x /\ x <= h * y
        BY <4>4, <4>5, <4>6, MeanAbove, MeanBelow
      <4>8. RatioLeq(Whole(l), <<x, y>>) /\ RatioLeq(<<x, y>>, Whole(h))
        BY <4>4, <4>5, <4>6, <4>7 DEF RatioLeq, Whole
      <4> QED
        BY <4>1, <4>4, <4>5, <4>6, <4>8
    <3> QED
      BY <3>1, <3>2
  <2> QED
    BY <1>2, <2>1, <2>2, <2>3 DEF Moves
<1>3. clock \in Int
  BY DEF TypeInv, FillsTypeOK
<1> QED
  BY <1>1, <1>2, <1>3, FillChanges, FillAssumption DEF FillsNext, Refuse, CostWithinEra

(* The average cost of an open position lies between the cheapest and the  *)
(* dearest of the fills that built it, whatever was held before it.        *)
THEOREM CostIsOfEra == FillsSpec => []CostWithinEra
<1>1. FillsInit => CostWithinEra
  BY DEF FillsInit, CostWithinEra, EmptyPosition
<1> QED
  BY TypesHold, <1>1, StepCost, PTL DEF FillsSpec

(* ------------------------------- the money ----------------------------- *)

(* The value of a position with average cost n/d, after c was paid.        *)
LEMMA GrowKeeps ==
  ASSUME NEW r \in Int, NEW m \in Int, NEW n \in Int, NEW d \in Int, NEW c \in Int, NEW q \in Int,
         NEW delta \in Int, NEW price \in Int, NEW s \in {1, -1}, r * d = (c * d + q * n) * m
  PROVE  r * (d * (s * (q + delta)))
           = ((c - delta * price) * (d * (s * (q + delta)))
                + (q + delta) * ((s * q) * n + (s * delta) * price * d)) * m
<1>1. (r * d) * (s * (q + delta)) = ((c * d + q * n) * m) * (s * (q + delta))
  OBVIOUS
<1>2. ((c - delta * price) * (d * (s * (q + delta)))
         + (q + delta) * ((s * q) * n + (s * delta) * price * d)) * m
        = ((c * d + q * n) * m) * (s * (q + delta))
  OBVIOUS
<1>3. (r * d) * (s * (q + delta)) = r * (d * (s * (q + delta)))
  OBVIOUS
<1> QED
  BY <1>1, <1>2, <1>3

LEMMA ShrinkKeeps ==
  ASSUME NEW r \in Int, NEW m \in Int, NEW n \in Int, NEW d \in Int, NEW c \in Int, NEW q \in Int,
         NEW delta \in Int, NEW price \in Int, NEW fees \in Int, r * d = (c * d + q * n) * m
  PROVE  (r * d + (-delta * (price * d - n) - fees * d) * m) * d
           = ((c - delta * price - fees) * d + (q + delta) * n) * (m * d)
<1>1. (r * d) * d = ((c * d + q * n) * m) * d
  OBVIOUS
<1>2. ((c - delta * price - fees) * d + (q + delta) * n) * (m * d)
        = ((c * d + q * n) * m) * d + (-delta * (price * d - n) - fees * d) * m * d
  OBVIOUS
<1>3. (r * d + (-delta * (price * d - n) - fees * d) * m) * d
        = (r * d) * d + (-delta * (price * d - n) - fees * d) * m * d
  OBVIOUS
<1> QED
  BY <1>1, <1>2, <1>3

LEMMA FlipKeeps ==
  ASSUME NEW r \in Int, NEW m \in Int, NEW n \in Int, NEW d \in Int, NEW c \in Int, NEW q \in Int,
         NEW delta \in Int, NEW price \in Int, NEW fees \in Int, r * d = (c * d + q * n) * m
  PROVE  r * d + (q * (price * d - n) - fees * d) * m
           = ((c - delta * price - fees) + (q + delta) * price) * (m * d)
<1>1. ((c - delta * price - fees) + (q + delta) * price) * (m * d)
        = (c * d + q * n) * m + (q * (price * d - n) - fees * d) * m
  OBVIOUS
<1> QED
  BY <1>1

(* Cancelling a denominator.                                               *)
LEMMA Cancel ==
  ASSUME NEW a \in Int, NEW b \in Int, NEW m \in Int, m > 0, a * m = b * m
  PROVE  a = b
  OBVIOUS

LEMMA IdentityIs ==
  ASSUME NEW r \in Int, NEW m \in Int, NEW n \in Int, NEW d \in Int, NEW c \in Int, NEW q \in Int
  PROVE  RatioEq(<<r, m>>, RatioAdd(Whole(c), RatioTimes(q, <<n, d>>)))
           <=> r * d = (c * d + q * n) * m
  BY DEF RatioEq, RatioAdd, Whole, RatioTimes

(* An equation about a sum holds of it in its lowest terms.                *)
LEMMA LowestSum ==
  ASSUME NEW r \in Int, NEW m \in Int, m > 0, NEW u \in Int, NEW v \in Int, v > 0,
         NEW e \in Int, NEW y \in Int, (r * v + u * m) * e = y * (m * v)
  PROVE  Lowest(RatioAdd(<<r, m>>, <<u, v>>))[1] * e
           = y * Lowest(RatioAdd(<<r, m>>, <<u, v>>))[2]
<1>1. PICK x, w \in Int : x = r * v + u * m /\ w = m * v
  OBVIOUS
<1>2. w > 0
  BY <1>1, Product
<1>3. RatioAdd(<<r, m>>, <<u, v>>) = <<x, w>>
  BY <1>1 DEF RatioAdd
<1>4. PICK l \in Ratio : l = Lowest(<<x, w>>) /\ RatioEq(l, <<x, w>>)
  BY <1>2, LowestIs DEF Ratio
<1>5. PICK a, b \in Int : a = l[1] /\ b = l[2]
  BY DEF Ratio
<1>6. a * w = x * b
  BY <1>4, <1>5 DEF RatioEq
<1>7. x * e = y * w
  BY <1>1
<1>8. (a * e) * w = (y * b) * w
  <2>1. (a * e) * w = (a * w) * e
    OBVIOUS
  <2>2. (x * b) * e = (x * e) * b
    OBVIOUS
  <2>3. (y * w) * b = (y * b) * w
    OBVIOUS
  <2> QED
    BY <1>6, <1>7, <2>1, <2>2, <2>3
<1>9. a * e = y * b
  <2>1. a * e \in Int /\ y * b \in Int
    OBVIOUS
  <2> QED
    BY <1>2, <1>8, <2>1, Cancel
<1> QED
  BY <1>3, <1>4, <1>5, <1>9

(* What a closing fill reports of c closed units.                          *)
Sold(p, c) == IF p.qty > 0 THEN c ELSE -c

LEMMA PnlIs ==
  ASSUME NEW p, NEW n \in Int, NEW d \in Int, p.avg_cost = <<n, d>>, NEW c \in Int,
         NEW price \in Int, NEW fees \in Int
  PROVE  RealizedPnl(p, c, price, fees) = <<Sold(p, c) * (price * d - n) - fees * d, d>>
<1>1. RatioAdd(Whole(price), RatioNeg(p.avg_cost)) = <<price * d - n, d>>
  BY DEF RatioAdd, RatioNeg, Whole
<1>2. PICK g \in Int : g = price * d - n
  OBVIOUS
<1>3. RatioAdd(RatioTimes(c, <<g, d>>), Whole(-fees)) = <<c * g - fees * d, d>>
  BY DEF RatioAdd, RatioTimes, Whole
<1>4. RatioAdd(RatioTimes(c, RatioNeg(<<g, d>>)), Whole(-fees)) = <<(-c) * g - fees * d, d>>
  BY DEF RatioAdd, RatioTimes, RatioNeg, Whole
<1> QED
  BY <1>1, <1>2, <1>3, <1>4 DEF RealizedPnl, Sold

(* The money of a position whose value an equation states.                 *)
LEMMA MoneyAfter ==
  ASSUME NEW r \in Int, NEW m \in Int, m > 0, position'.qty \in Int, cash' + openingFees' \in Int,
         NEW n \in Int, NEW d \in Int, position'.avg_cost = <<n, d>>,
         NEW u \in Int, NEW v \in Int, v > 0, realized' = Lowest(RatioAdd(<<r, m>>, <<u, v>>)),
         (r * v + u * m) * d = ((cash' + openingFees') * d + position'.qty * n) * (m * v)
  PROVE  AccountingIdentity'
<1>0. PICK c, q \in Int : c = cash' + openingFees' /\ q = position'.qty
  OBVIOUS
<1>1. PICK y \in Int : y = c * d + q * n
  OBVIOUS
<1>2. (r * v + u * m) * d = y * (m * v)
  BY <1>0, <1>1
<1>3. realized'[1] * d = y * realized'[2]
  BY <1>2, LowestSum
<1>4. PICK a, b \in Int : realized' = <<a, b>>
  <2>1. RatioAdd(<<r, m>>, <<u, v>>) \in Ratio /\ RatioAdd(<<r, m>>, <<u, v>>)[2] > 0
    BY Product DEF RatioAdd, Ratio
  <2> QED
    BY <2>1, LowestIs DEF Ratio
<1>5. a * d = (c * d + q * n) * b
  BY <1>1, <1>3, <1>4
<1>6. RatioEq(<<a, b>>, RatioAdd(Whole(c), RatioTimes(q, <<n, d>>)))
  BY <1>5, IdentityIs
<1> QED
  BY <1>0, <1>4, <1>6 DEF AccountingIdentity

LEMMA StepMoney == TypeInv /\ AccountingIdentity /\ [FillsNext]_fillsVars => AccountingIdentity'
<1> SUFFICES ASSUME TypeInv, AccountingIdentity, [FillsNext]_fillsVars PROVE AccountingIdentity'
  OBVIOUS
<1>1. CASE UNCHANGED fillsVars
  BY <1>1 DEF fillsVars, AccountingIdentity
<1>2. PICK q, n, d, r, m, c \in Int :
        /\ q = position.qty /\ position.avg_cost = <<n, d>> /\ d > 0
        /\ realized = <<r, m>> /\ m > 0 /\ c = cash + openingFees
  BY DEF TypeInv, FillsTypeOK, PositionState, Ratio
<1>3. r * d = (c * d + q * n) * m
  <2>1. RatioEq(<<r, m>>, RatioAdd(Whole(c), RatioTimes(q, <<n, d>>)))
    BY <1>2, Zenon DEF AccountingIdentity
  <2> QED
    BY <2>1, IdentityIs
<1>4. ASSUME NEW delta \in Int \ {0}, NEW price \in Int, NEW fees \in Int, NEW ts,
             Moves(delta, price, fees, ts)
      PROVE  AccountingIdentity'
  <2>1. position'.qty = q + delta /\ position'.qty \in Int /\ delta \in Int
    BY <1>2, <1>4 DEF Moves
  <2>2. cash \in Int /\ openingFees \in Int
    BY DEF TypeInv, FillsTypeOK
  <2>3. CASE Grows(delta, price, fees, ts)
    <3>1. cash' + openingFees' = c - delta * price /\ c - delta * price \in Int
      BY <1>2, <1>4, <2>2, <2>3 DEF Moves, Grows
    <3>2. realized' = Lowest(RatioAdd(<<r, m>>, <<0, 1>>))
      BY <1>2, <2>3 DEF Grows, Whole
    <3>3. CASE position.qty = 0
      <4>1. position'.avg_cost = <<price, 1>>
        BY <2>3, <3>3 DEF Grows, WeightedCost, Whole
      <4>2. r = c * m
        <5>1. r * d = (c * m) * d
          BY <1>2, <1>3, <3>3
        <5>2. PICK p \in Int : p = c * m
          BY <1>2
        <5>3. r * d = p * d
          BY <5>1, <5>2
        <5>4. r = p
          BY <1>2, <5>2, <5>3, Cancel
        <5> QED
          BY <5>2, <5>4
      <4>3. (r * 1 + 0 * m) * 1
              = ((cash' + openingFees') * 1 + position'.qty * price) * (m * 1)
        BY <1>2, <2>1, <3>1, <3>3, <4>2
      <4>4. 0 \in Int /\ 1 \in Int /\ 1 > 0
        OBVIOUS
      <4> QED
        BY <1>2, <2>1, <3>1, <3>2, <4>1, <4>3, <4>4, MoneyAfter
    <3>4. CASE position.qty # 0
      <4>1. PICK s \in {1, -1} : Abs(q) = s * q /\ Abs(delta) = s * delta
                                /\ Abs(q + delta) = s * (q + delta)
        <5>1. (q > 0 /\ delta > 0) \/ (q < 0 /\ delta < 0)
          BY <1>2, <2>3, <3>4 DEF Grows, IsIncreasing
        <5>2. CASE q > 0 /\ delta > 0
          BY <1>2, <5>2 DEF Abs
        <5>3. CASE q < 0 /\ delta < 0
          <6>1. Abs(q) = -1 * q /\ Abs(delta) = -1 * delta /\ Abs(q + delta) = -1 * (q + delta)
            BY <5>3 DEF Abs
          <6> QED
            BY <6>1
        <5> QED
          BY <5>1, <5>2, <5>3
      <4>2. PICK n1, d1 \in Int : /\ n1 = (s * q) * n + (s * delta) * price * d
                                  /\ d1 = d * (s * (q + delta))
        OBVIOUS
      <4>3. position'.avg_cost = <<n1, d1>>
        BY <1>2, <2>3, <3>4, <4>1, <4>2 DEF Grows, WeightedCost
      <4>4. r * d1 = ((c - delta * price) * d1 + (q + delta) * n1) * m
        BY <1>3, <4>2, GrowKeeps
      <4>5. (r * 1 + 0 * m) * d1 = ((cash' + openingFees') * d1 + position'.qty * n1) * (m * 1)
        <5>1. (cash' + openingFees') * d1 + position'.qty * n1
                = (c - delta * price) * d1 + (q + delta) * n1
          BY <2>1, <3>1, Zenon
        <5>2. r * 1 + 0 * m = r /\ m * 1 = m
          OBVIOUS
        <5> QED
          BY <4>4, <5>1, <5>2, Zenon
      <4>6. 0 \in Int /\ 1 \in Int /\ 1 > 0
        OBVIOUS
      <4> QED
        BY <1>2, <2>1, <3>1, <3>2, <4>3, <4>5, <4>6, MoneyAfter
    <3> QED
      BY <3>3, <3>4
  <2>4. CASE ~IsIncreasing(position.qty, delta)
    <3>1. (q > 0 /\ delta < 0) \/ (q < 0 /\ delta > 0)
      BY <1>2, <2>4 DEF IsIncreasing
    <3>2. /\ Abs(delta) \in Int /\ Abs(position.qty) \in Int /\ -delta \in Int
          /\ Sold(position, Abs(delta)) = -delta
          /\ Sold(position, Abs(position.qty)) = q
      BY <1>2, <2>1, <3>1 DEF Abs, Sold
    <3>3. PICK c1, e \in Int : c1 = c - delta * price - fees /\ e = -delta
      BY <2>1
    <3>4. CASE Shrinks(delta, price, fees)
      <4>1. cash' + openingFees' = c1
        BY <1>2, <1>4, <2>2, <3>3, <3>4 DEF Moves, Shrinks
      <4>2. PICK u \in Int : u = e * (price * d - n) - fees * d
        OBVIOUS
      <4>3. RealizedPnl(position, Abs(delta), price, fees) = <<u, d>>
        <5>1. RealizedPnl(position, Abs(delta), price, fees)
                = <<Sold(position, Abs(delta)) * (price * d - n) - fees * d, d>>
          <6>1. PICK k \in Int : k = Abs(delta)
            BY <3>2
          <6>a. position.avg_cost = <<n, d>>
            BY <1>2
          <6>2. RealizedPnl(position, k, price, fees)
                  = <<Sold(position, k) * (price * d - n) - fees * d, d>>
            BY <6>a, PnlIs
          <6> QED
            BY <6>1, <6>2, Zenon
        <5> QED
          BY <3>2, <3>3, <4>2, <5>1, Zenon
      <4>4. position'.avg_cost = <<n, d>> /\ realized' = Lowest(RatioAdd(<<r, m>>, <<u, d>>))
        BY <1>2, <3>4, <4>3 DEF Shrinks
      <4>5. (r * d + u * m) * d = (c1 * d + (q + delta) * n) * (m * d)
        BY <1>3, <2>1, <3>3, <4>2, ShrinkKeeps
      <4>6. (r * d + u * m) * d = ((cash' + openingFees') * d + position'.qty * n) * (m * d)
        BY <2>1, <4>1, <4>5
      <4> QED
        BY <1>2, <2>1, <3>3, <4>1, <4>4, <4>6, MoneyAfter
    <3>5. CASE Flips(delta, price, fees, ts)
      <4>1. cash' + openingFees' = c1
        BY <1>2, <1>4, <2>2, <3>3, <3>5 DEF Moves, Flips
      <4>2. PICK u \in Int : u = q * (price * d - n) - fees * d
        OBVIOUS
      <4>3. RealizedPnl(position, Abs(position.qty), price, fees) = <<u, d>>
        <5>1. RealizedPnl(position, Abs(position.qty), price, fees)
                = <<Sold(position, Abs(position.qty)) * (price * d - n) - fees * d, d>>
          <6>1. PICK k \in Int : k = Abs(position.qty)
            BY <3>2
          <6>a. position.avg_cost = <<n, d>>
            BY <1>2
          <6>2. RealizedPnl(position, k, price, fees)
                  = <<Sold(position, k) * (price * d - n) - fees * d, d>>
            BY <6>a, PnlIs
          <6> QED
            BY <6>1, <6>2, Zenon
        <5> QED
          BY <3>2, <4>2, <5>1, Zenon
      <4>4. position'.avg_cost = <<price, 1>> /\ realized' = Lowest(RatioAdd(<<r, m>>, <<u, d>>))
        BY <1>2, <3>5, <4>3 DEF Flips, Whole
      <4>5. r * d + u * m = (c1 + (q + delta) * price) * (m * d)
        BY <1>3, <2>1, <3>3, <4>2, FlipKeeps
      <4>6. (r * d + u * m) * 1 = ((cash' + openingFees') * 1 + position'.qty * price) * (m * d)
        BY <2>1, <4>1, <4>5
      <4> QED
        BY <1>2, <2>1, <3>3, <4>1, <4>4, <4>6, MoneyAfter
    <3> QED
      BY <1>4, <2>4, <3>4, <3>5 DEF Moves, Grows
  <2> QED
    BY <1>4, <2>3, <2>4 DEF Moves, Shrinks, Flips
<1>5. clock \in Int
  BY DEF TypeInv, FillsTypeOK
<1> QED
  BY <1>1, <1>4, <1>5, FillChanges, FillAssumption DEF FillsNext, Refuse

(* No money is made or lost: what was realized is the cash moved, with the *)
(* fees of opening fills given back, and the cost of what is still held.   *)
THEOREM MoneyIsKept == FillsSpec => []AccountingIdentity
<1>1. FillsInit => AccountingIdentity
  BY DEF FillsInit, AccountingIdentity, EmptyPosition, Whole, RatioEq, RatioAdd, RatioTimes
<1> QED
  BY TypesHold, <1>1, StepMoney, PTL DEF FillsSpec

(* ------------------------- type correctness --------------------------- *)

LEMMA EmptyPositionType == EmptyPosition \in PositionState
  BY DEF EmptyPosition, PositionState, Whole, Ratio, NoTs

LEMMA IdleJobType == IdleJob \in JobRecord
  BY EmptyPositionType, GoldAssumption DEF IdleJob, JobRecord, Days

LEMMA FillTypes ==
  ASSUME NEW t \in Feed
  PROVE  /\ MakerFill(t).key \in Keys
         /\ TakerFill(t).key \in Keys
         /\ t.qty \in Int /\ t.price \in Int /\ t.ts \in Int /\ t.ts # NoTs
  BY GoldAssumption DEF Trade, MakerFill, TakerFill, Keys, NoTs

LEMMA BookTypes ==
  ASSUME NEW book \in [Keys -> PositionState], NEW t \in Feed, NEW f,
         f = MakerFill(t) \/ f = TakerFill(t)
  PROVE  /\ BookAfter(book, t, f) \in [Keys -> PositionState]
         /\ LedgerRow(book, t, f) \in Row
<1>1. /\ f.key \in Keys
      /\ t.qty \in Int /\ t.price \in Int /\ t.ts \in Int
  BY FillTypes
<1>2. book[f.key] \in PositionState
  BY <1>1
<1>3. /\ FillOf(book, t, f).position \in PositionState
      /\ FillOf(book, t, f).realized_pnl \in Ratio
  BY <1>1, <1>2, ApplyFillType DEF FillOf
<1>4. book[f.key].qty \in Int /\ FillOf(book, t, f).position.qty \in Int
  BY <1>2, <1>3 DEF PositionState
<1> QED
  BY <1>1, <1>3, <1>4 DEF BookAfter, LedgerRow, Row

LEMMA OpenPositionsType ==
  ASSUME TypeOK
  PROVE  OpenPositions \in [Keys -> PositionState]
  BY EmptyPositionType DEF TypeOK, OpenPositions

(* Proceed keeps the types: it starts the next day of the range or idles.  *)
LEMMA ProceedType ==
  ASSUME TypeOK, NEW j \in Jobs, Proceed(j)
  PROVE  pc' \in [Jobs -> Steps \cup {"idle"}] /\ job' \in [Jobs -> JobRecord]
<1>1. job[j] \in JobRecord /\ IdleJob \in JobRecord
  BY IdleJobType DEF TypeOK
<1>2. CASE job[j].day < job[j].last
  <2>1. /\ job[j].day + 1 \in Days /\ job[j].last \in Days
        /\ job[j].force \in BOOLEAN
    BY <1>1, <1>2, GoldAssumption DEF JobRecord, Days
  <2>2. [IdleJob EXCEPT !.day = job[j].day + 1, !.last = job[j].last,
                        !.force = job[j].force] \in JobRecord
    BY <1>1, <2>1 DEF JobRecord
  <2> QED
    BY <1>2, <2>2 DEF Proceed, TypeOK, Steps
<1>3. CASE ~(job[j].day < job[j].last)
  BY <1>1, <1>3 DEF Proceed, TypeOK
<1> QED
  BY <1>2, <1>3

LEMMA InitType == Init => TypeOK
<1> SUFFICES ASSUME Init PROVE TypeOK
  OBVIOUS
<1>1. position_state \in [Keys -> PositionState]
  BY EmptyPositionType DEF Init
<1>2. job \in [Jobs -> JobRecord]
  BY IdleJobType DEF Init
<1>3. partition \in [Days -> Seq(Row)] /\ ledger \in Seq(Row)
  BY DEF Init, NoFile
<1> QED
  BY <1>1, <1>2, <1>3, GoldAssumption DEF Init, TypeOK, Kinds

LEMMA StepType == TypeOK /\ [Next]_vars => TypeOK'
<1> SUFFICES ASSUME TypeOK, [Next]_vars PROVE TypeOK'
  OBVIOUS
<1> USE GoldAssumption
<1>1. ASSUME NextDay PROVE TypeOK'
  BY <1>1 DEF NextDay, TypeOK, store
<1>2. ASSUME NEW t \in Feed, Arrive(t) PROVE TypeOK'
  BY <1>2 DEF Arrive, Admit, TypeOK, store
<1>3. ASSUME NEW k \in Keys, Expire(k) PROVE TypeOK'
  BY <1>3, EmptyPositionType DEF Expire, Admit, TypeOK
<1>4. ASSUME NEW j \in Jobs, JobStep(j) PROVE TypeOK'
  <2>0. job[j] \in JobRecord /\ IdleJob \in JobRecord
    BY IdleJobType DEF TypeOK
  <2>1. ASSUME NEW lo \in Days, NEW hi \in Days, NEW force \in BOOLEAN,
               Start(j, lo, hi, force)
        PROVE  TypeOK'
    <3>1. [IdleJob EXCEPT !.day = lo, !.last = hi, !.force = force] \in JobRecord
      BY <2>0 DEF JobRecord
    <3>2. runs' \in 0..MaxRuns
      BY <2>1 DEF Start, TypeOK
    <3> QED
      BY <2>1, <3>1, <3>2 DEF Start, Admit, TypeOK, store, Steps
  <2>2. ASSUME SkipDay(j) \/ ReadNothing(j) PROVE TypeOK'
    BY <2>2, ProceedType DEF SkipDay, ReadNothing, TypeOK, store
  <2>3. ASSUME PassCheck(j) \/ CheckFails(j) PROVE TypeOK'
    BY <2>3 DEF PassCheck, CheckFails, Admit, TypeOK, store, Steps
  <2>4. ASSUME Read(j) PROVE TypeOK'
    <3> DEFINE batch == TradesOf(silver, job[j].day)
    <3>1. batch \in SUBSET Feed
      BY DEF TradesOf, TypeOK
    <3>2. [job[j] EXCEPT !.batch = batch, !.todo = batch] \in JobRecord
      BY <2>0, <3>1 DEF JobRecord
    <3>3. job' \in [Jobs -> JobRecord]
      BY <2>4, <3>1, <3>2 DEF Read, TypeOK, JobRecord
    <3>4. events' \subseteq Kinds
      BY <2>4 DEF Read, TypeOK, Kinds
    <3> QED
      BY <2>4, <3>3, <3>4 DEF Read, TypeOK, store, Steps
  <2>5. ASSUME Load(j) PROVE TypeOK'
    <3>1. [job[j] EXCEPT !.book = OpenPositions] \in JobRecord
      BY <2>0, OpenPositionsType DEF JobRecord
    <3> QED
      BY <2>5, <3>1 DEF Load, TypeOK, store, Steps
  <2>6. ASSUME Apply(j) PROVE TypeOK'
    <3>1. PICK t \in Earliest(job[j].todo) :
            LET before == job[j].book
                mid == BookAfter(before, t, MakerFill(t))
                rest == job[j].todo \ {t}
            IN  /\ job' = [job EXCEPT
                     ![j].book = BookAfter(mid, t, TakerFill(t)),
                     ![j].rows = @ \o <<LedgerRow(before, t, MakerFill(t)),
                                        LedgerRow(mid, t, TakerFill(t))>>,
                     ![j].todo = rest]
                /\ pc' = [pc EXCEPT ![j] = IF rest = {} THEN "delete" ELSE "apply"]
      BY <2>6 DEF Apply
    <3> DEFINE before == job[j].book
               mid == BookAfter(before, t, MakerFill(t))
               after == BookAfter(mid, t, TakerFill(t))
               pair == <<LedgerRow(before, t, MakerFill(t)), LedgerRow(mid, t, TakerFill(t))>>
               rest == job[j].todo \ {t}
    <3>2. t \in Feed /\ rest \in SUBSET Feed
      BY <2>0 DEF Earliest, JobRecord
    <3>3. before \in [Keys -> PositionState]
      BY <2>0 DEF JobRecord
    <3>4. /\ mid \in [Keys -> PositionState]
          /\ LedgerRow(before, t, MakerFill(t)) \in Row
      BY <3>2, <3>3, BookTypes
    <3>5. /\ after \in [Keys -> PositionState]
          /\ LedgerRow(mid, t, TakerFill(t)) \in Row
      BY <3>2, <3>4, BookTypes
    <3>6. pair \in Seq(Row)
      BY <3>4, <3>5
    <3> HIDE DEF before, mid, after, pair, rest
    <3>7. job[j].rows \o pair \in Seq(Row)
      BY <2>0, <3>6 DEF JobRecord
    <3>8. [job[j] EXCEPT !.book = after, !.rows = @ \o pair, !.todo = rest] \in JobRecord
      BY <2>0, <3>2, <3>5, <3>7 DEF JobRecord
    <3>9. job' = [job EXCEPT ![j] = [job[j] EXCEPT !.book = after, !.rows = @ \o pair,
                                                   !.todo = rest]]
      BY <3>1, <2>0 DEF before, mid, after, pair, rest, TypeOK, JobRecord
    <3>10. pc' \in [Jobs -> Steps \cup {"idle"}]
      BY <3>1 DEF TypeOK, Steps
    <3> QED
      BY <2>6, <3>8, <3>9, <3>10 DEF Apply, TypeOK, store
  <2>7. ASSUME Raise(j) \/ Crash(j) PROVE TypeOK'
    BY <2>0, <2>7 DEF Raise, Crash, Admit, TypeOK, store
  <2>8. ASSUME DeletePartition(j) PROVE TypeOK'
    <3>1. NoFile \in Seq(Row)
      BY DEF NoFile
    <3>2. partition' \in [Days -> Seq(Row)]
      BY <2>8, <3>1 DEF DeletePartition, TypeOK
    <3> QED
      BY <2>8, <3>2 DEF DeletePartition, TypeOK, Steps
  <2>9. ASSUME PutPartition(j) PROVE TypeOK'
    <3>1. job[j].rows \in Seq(Row)
      BY <2>0 DEF JobRecord
    <3> QED
      BY <2>9, <3>1 DEF PutPartition, TypeOK, Steps
  <2>10. ASSUME InsertLedger(j) PROVE TypeOK'
    <3>1. ledger \o job[j].rows \in Seq(Row)
      BY <2>0 DEF JobRecord, TypeOK
    <3> QED
      BY <2>10, <3>1 DEF InsertLedger, TypeOK, Steps
  <2>11. ASSUME InsertPositions(j) PROVE TypeOK'
    <3>1. job[j].book \in [Keys -> PositionState]
      BY <2>0 DEF JobRecord
    <3>2. position_state' \in [Keys -> PositionState]
      BY <2>11, <3>1 DEF InsertPositions, Survivor, TypeOK
    <3>3. commits' \in [Feed -> Nat]
      BY <2>11 DEF InsertPositions, TypeOK
    <3> QED
      BY <2>11, <3>2, <3>3 DEF InsertPositions, TypeOK, Steps
  <2>12. ASSUME MarkGet(j) PROVE TypeOK'
    <3>1. job[j].day \in Days
      BY <2>0 DEF JobRecord
    <3>2. /\ [job[j] EXCEPT !.log = processed \cup {job[j].day}] \in JobRecord
          /\ [job[j] EXCEPT !.log = {job[j].day}] \in JobRecord
      BY <2>0, <3>1 DEF JobRecord, TypeOK
    <3> QED
      BY <2>12, <3>2 DEF MarkGet, Admit, TypeOK, store, Steps
  <2>13. ASSUME MarkPut(j) PROVE TypeOK'
    <3>1. job[j].log \subseteq Days
      BY <2>0 DEF JobRecord
    <3> QED
      BY <2>13, <3>1, ProceedType DEF MarkPut, TypeOK
  <2> QED
    BY <1>4, <2>1, <2>2, <2>3, <2>4, <2>5, <2>6, <2>7, <2>8, <2>9, <2>10, <2>11,
       <2>12, <2>13 DEF JobStep
<1>5. CASE UNCHANGED vars
  BY <1>5 DEF vars, store, TypeOK
<1> QED
  BY <1>1, <1>2, <1>3, <1>4, <1>5 DEF Next

(* The state is well typed whatever days are requested, whichever storage  *)
(* calls fail and however many jobs run.                                   *)
THEOREM TypeCorrect == Spec => []TypeOK
<1>1. Init => TypeOK
  BY InitType
<1>2. TypeOK /\ [Next]_vars => TypeOK'
  BY StepType
<1> QED
  BY <1>1, <1>2, PTL DEF Spec

(* ----------------------- the log of processed days -------------------- *)

(* Unless two runs overlapped, one job at a time is not idle.              *)
SingleJob ==
  Without({"overlap"}) =>
    \A i, j \in Jobs : pc[i] # "idle" /\ pc[j] # "idle" => i = j

(* A job holds a copy of the log only between its GET and its PUT, and     *)
(* that copy has its own day and, if no GET failed, every logged day.      *)
LogCopy ==
  \A j \in Jobs :
    /\ pc[j] # "write" => job[j].log = {}
    /\ pc[j] = "write" /\ Without({"getError", "overlap"}) =>
         processed \subseteq job[j].log

LogInv == TypeOK /\ SingleJob /\ LogCopy

(* ------------------------- no trade is missed ------------------------- *)

(* Unless a trade came late, every trade of a job's day is in its batch;   *)
(* once the positions are inserted, the batch is in them; and the days a   *)
(* job is about to log are in the positions.                               *)
Covered(day) == \A t \in silver : DayOf(t.ts) = day => commits[t] >= 1

Batches ==
  \A j \in Jobs :
    /\ pc[j] \in Holding /\ Without({"late"}) =>
         TradesOf(silver, job[j].day) \subseteq job[j].batch
    /\ pc[j] \in {"mark", "write"} => \A t \in job[j].batch : commits[t] >= 1
    /\ Without({"late"}) => \A d \in job[j].log : Covered(d)

MissedInv == TypeOK /\ LogCopy /\ Batches /\ NoTradeMissed

(* ---------------------- no trade is counted twice --------------------- *)

Orderly == Without({"crash", "getError", "overlap", "force"})

(* A trade in the positions belongs to a day that is logged or about to be.*)
Logged(day) ==
  \/ day \in processed
  \/ \E j \in Jobs : pc[j] \in {"mark", "write"} /\ job[j].day = day

(* A job that has passed the check, and has not inserted its positions yet,*)
(* works on a day of which no trade is in the positions.                   *)
FreshDay ==
  Orderly =>
    \A j \in Jobs :
      /\ pc[j] = "read" /\ ~job[j].force => job[j].day \notin processed
      /\ pc[j] \in Holding \ {"mark", "write"} => ~Repeated(job[j].day)

OwnDay ==
  \A j \in Jobs :
    /\ pc[j] \in Holding => \A t \in job[j].batch : DayOf(t.ts) = job[j].day
    /\ pc[j] = "write" => job[j].day \in job[j].log

CommitsLogged == Orderly => \A t \in Feed : commits[t] >= 1 => Logged(DayOf(t.ts))

TwiceInv ==
  /\ LogInv
  /\ OwnDay
  /\ FreshDay
  /\ CommitsLogged
  /\ NoTradeTwice

(* ------------------------- effects of a step -------------------------- *)

(* A step of one job leaves the others alone.                              *)
Elsewhere(j) == \A i \in Jobs \ {j} : pc'[i] = pc[i] /\ job'[i] = job[i]

Accrues ==
  /\ events \subseteq events'
  /\ \A t \in Feed : commits[t] <= commits'[t]

LEMMA ProceedEffect ==
  ASSUME TypeOK, NEW j \in Jobs, Proceed(j)
  PROVE  /\ pc'[j] \in {"check", "idle"}
         /\ job'[j].log = {}
         /\ Elsewhere(j)
<1> DEFINE next == [IdleJob EXCEPT !.day = job[j].day + 1, !.last = job[j].last,
                                   !.force = job[j].force]
<1>1. IdleJob.log = {} /\ next.log = {}
  BY DEF IdleJob
<1> HIDE DEF next
<1>2. \/ pc' = [pc EXCEPT ![j] = "check"] /\ job' = [job EXCEPT ![j] = next]
      \/ pc' = [pc EXCEPT ![j] = "idle"] /\ job' = [job EXCEPT ![j] = IdleJob]
  BY DEF Proceed, next
<1> QED
  BY <1>1, <1>2 DEF TypeOK, Elsewhere

LEMMA StopEffect ==
  ASSUME TypeOK, NEW j \in Jobs, Raise(j) \/ Crash(j)
  PROVE  /\ pc'[j] = "idle"
         /\ job'[j].log = {}
         /\ Elsewhere(j)
  BY DEF Raise, Crash, TypeOK, IdleJob, Elsewhere

LEMMA CommitsGrow ==
  ASSUME TypeOK, NEW j \in Jobs, InsertPositions(j)
  PROVE  /\ \A t \in Feed : commits'[t] = IF t \in job[j].batch THEN commits[t] + 1
                                            ELSE commits[t]
         /\ \A t \in Feed : commits[t] <= commits'[t]
  BY DEF InsertPositions, TypeOK

LEMMA StepGrows ==
  ASSUME TypeOK, [Next]_vars
  PROVE  Accrues
<1> USE DEF Accrues, TypeOK
<1>1. CASE NextDay
  BY <1>1 DEF NextDay
<1>2. ASSUME NEW t \in Feed, Arrive(t) PROVE Accrues
  BY <1>2 DEF Arrive, Admit
<1>3. ASSUME NEW k \in Keys, Expire(k) PROVE Accrues
  BY <1>3 DEF Expire, Admit
<1>4. ASSUME NEW j \in Jobs, JobStep(j) PROVE Accrues
  <2>1. ASSUME NEW lo \in Days, NEW hi \in Days, NEW force \in BOOLEAN,
               Start(j, lo, hi, force)
        PROVE  Accrues
    BY <2>1 DEF Start, Admit
  <2>2. CASE SkipDay(j) \/ PassCheck(j) \/ CheckFails(j) \/ ReadNothing(j)
    BY <2>2 DEF SkipDay, PassCheck, CheckFails, ReadNothing, Admit
  <2>3. CASE Read(j)
    BY <2>3 DEF Read
  <2>7. CASE Load(j) \/ Apply(j) \/ Raise(j)
    <3>1. events' = events /\ commits' = commits
      BY <2>7 DEF Load, Apply, Raise
    <3> QED
      BY <3>1
  <2>4. CASE DeletePartition(j) \/ PutPartition(j) \/ InsertLedger(j)
    BY <2>4 DEF DeletePartition, PutPartition, InsertLedger
  <2>5. CASE InsertPositions(j)
    <3>1. events' = events
      BY <2>5 DEF InsertPositions
    <3> QED
      BY <2>5, <3>1, CommitsGrow
  <2>6. CASE MarkGet(j) \/ MarkPut(j) \/ Crash(j)
    BY <2>6 DEF MarkGet, MarkPut, Crash, Admit
  <2> QED
    BY <1>4, <2>1, <2>2, <2>3, <2>4, <2>5, <2>6, <2>7 DEF JobStep
<1>5. CASE UNCHANGED vars
  BY <1>5 DEF vars
<1> QED
  BY <1>1, <1>2, <1>3, <1>4, <1>5 DEF Next

LEMMA WithoutBefore ==
  ASSUME Accrues, NEW kinds, Without(kinds)'
  PROVE  Without(kinds)
  BY DEF Accrues, Without

(* --------------------------- one job at a time ------------------------ *)

LEMMA StepSingle ==
  ASSUME TypeOK, SingleJob, [Next]_vars
  PROVE  SingleJob'
<1> SUFFICES ASSUME Without({"overlap"})'
             PROVE  \A i, j \in Jobs : pc'[i] # "idle" /\ pc'[j] # "idle" => i = j
  BY DEF SingleJob, Without
<1>0. \A i, j \in Jobs : pc[i] # "idle" /\ pc[j] # "idle" => i = j
  BY StepGrows, WithoutBefore DEF SingleJob
<1>1. CASE NextDay \/ (\E t \in Feed : Arrive(t)) \/ (\E k \in Keys : Expire(k))
           \/ UNCHANGED vars
  BY <1>0, <1>1 DEF NextDay, Arrive, Expire, vars
<1>2. ASSUME NEW j \in Jobs, JobStep(j)
      PROVE  \A i, k \in Jobs : pc'[i] # "idle" /\ pc'[k] # "idle" => i = k
  <2>1. ASSUME NEW lo \in Days, NEW hi \in Days, NEW force \in BOOLEAN,
               Start(j, lo, hi, force)
        PROVE  /\ \A i \in Jobs : pc[i] = "idle"
               /\ pc' = [pc EXCEPT ![j] = "check"]
    BY <2>1 DEF Start, Admit, Without
  <2>2. CASE \E lo, hi \in Days, force \in BOOLEAN : Start(j, lo, hi, force)
    BY <2>1, <2>2 DEF TypeOK
  <2>3. CASE SkipDay(j) \/ ReadNothing(j) \/ MarkPut(j)
    <3>1. pc[j] # "idle" /\ \A i \in Jobs \ {j} : pc'[i] = pc[i]
      BY <2>3, ProceedEffect DEF SkipDay, ReadNothing, MarkPut, Elsewhere
    <3> QED
      BY <1>0, <3>1
  <2>4. CASE Raise(j) \/ Crash(j)
    BY <1>0, <2>4, StopEffect DEF Elsewhere
  <2>5. CASE PassCheck(j) \/ CheckFails(j) \/ Read(j) \/ Load(j)
    BY <1>0, <2>5 DEF PassCheck, CheckFails, Read, Load, TypeOK
  <2>6. CASE Apply(j)
    BY <1>0, <2>6 DEF Apply, TypeOK
  <2>7. CASE DeletePartition(j) \/ PutPartition(j) \/ InsertLedger(j) \/ InsertPositions(j)
             \/ MarkGet(j)
    BY <1>0, <2>7 DEF DeletePartition, PutPartition, InsertLedger, InsertPositions,
                      MarkGet, TypeOK
  <2> QED
    BY <1>2, <2>2, <2>3, <2>4, <2>5, <2>6, <2>7 DEF JobStep
<1> QED
  BY <1>1, <1>2 DEF Next

LEMMA StepLogCopy ==
  ASSUME TypeOK, SingleJob, LogCopy, [Next]_vars
  PROVE  LogCopy'
<1> DEFINE Copy(i) == /\ pc[i] # "write" => job[i].log = {}
                      /\ pc[i] = "write" /\ Without({"getError", "overlap"}) =>
                           processed \subseteq job[i].log
<1> SUFFICES ASSUME NEW i \in Jobs PROVE Copy(i)'
  BY DEF LogCopy, Without
<1>0. Copy(i)
  BY DEF LogCopy
<1>a. Without({"getError", "overlap"})' =>
        Without({"getError", "overlap"}) /\ Without({"overlap"})
  BY StepGrows, WithoutBefore DEF Without
<1>1. CASE NextDay \/ (\E t \in Feed : Arrive(t)) \/ (\E k \in Keys : Expire(k))
           \/ UNCHANGED vars
  <2>1. pc' = pc /\ job' = job /\ processed' = processed
    BY <1>1 DEF NextDay, Arrive, Expire, vars, store
  <2> QED
    BY <1>0, <1>a, <2>1
<1>2. ASSUME NEW j \in Jobs, JobStep(j) PROVE Copy(i)'
  <2>1. CASE \E lo, hi \in Days, force \in BOOLEAN : Start(j, lo, hi, force)
    <3>1. PICK lo \in Days, hi \in Days, force \in BOOLEAN : Start(j, lo, hi, force)
      BY <2>1
    <3>2. /\ processed' = processed
          /\ pc' = [pc EXCEPT ![j] = "check"]
          /\ job' = [job EXCEPT ![j] =
               [IdleJob EXCEPT !.day = lo, !.last = hi, !.force = force]]
      BY <3>1 DEF Start, store
    <3>3. [IdleJob EXCEPT !.day = lo, !.last = hi, !.force = force].log = {}
      BY DEF IdleJob
    <3> QED
      BY <1>0, <1>a, <3>2, <3>3 DEF TypeOK
  <2>2. CASE SkipDay(j) \/ ReadNothing(j)
    <3>1. processed' = processed
      BY <2>2 DEF SkipDay, ReadNothing, store
    <3> QED
      BY <1>0, <1>a, <2>2, <3>1, ProceedEffect DEF SkipDay, ReadNothing, Elsewhere
  <2>3. CASE MarkPut(j)
    <3>1. CASE i = j
      BY <2>3, <3>1, ProceedEffect DEF MarkPut
    <3>2. CASE i # j
      <4>1. pc'[i] = pc[i] /\ job'[i] = job[i] /\ pc[j] = "write"
        BY <2>3, <3>2, ProceedEffect DEF MarkPut, Elsewhere
      <4>2. Without({"overlap"}) => pc[i] = "idle"
        BY <3>2, <4>1 DEF SingleJob
      <4> QED
        BY <1>0, <1>a, <4>1, <4>2
    <3> QED
      BY <3>1, <3>2
  <2>4. CASE Raise(j) \/ Crash(j)
    <3>1. processed' = processed
      BY <2>4 DEF Raise, Crash, store
    <3> QED
      BY <1>0, <1>a, <2>4, <3>1, StopEffect DEF Elsewhere
  <2>5. CASE PassCheck(j) \/ CheckFails(j) \/ Read(j) \/ Load(j) \/ Apply(j)
    <3>1. /\ processed' = processed
          /\ pc[j] # "write" /\ pc'[j] # "write"
          /\ job'[j].log = job[j].log
          /\ Elsewhere(j)
      <4>1. CASE PassCheck(j) \/ CheckFails(j)
        BY <4>1 DEF PassCheck, CheckFails, TypeOK, store, Elsewhere
      <4>2. CASE Read(j) \/ Load(j)
        BY <4>2 DEF Read, Load, TypeOK, JobRecord, store, Elsewhere
      <4>3. CASE Apply(j)
        BY <4>3 DEF Apply, TypeOK, JobRecord, store, Elsewhere
      <4> QED
        BY <2>5, <4>1, <4>2, <4>3
    <3> QED
      BY <1>0, <1>a, <3>1 DEF Elsewhere
  <2>6. CASE DeletePartition(j) \/ PutPartition(j) \/ InsertLedger(j) \/ InsertPositions(j)
    <3>1. /\ processed' = processed /\ job' = job
          /\ pc[j] # "write" /\ pc'[j] # "write"
          /\ \A k \in Jobs \ {j} : pc'[k] = pc[k]
      BY <2>6 DEF DeletePartition, PutPartition, InsertLedger, InsertPositions, TypeOK
    <3> QED
      BY <1>0, <1>a, <3>1
  <2>7. CASE MarkGet(j)
    <3>1. /\ processed' = processed
          /\ pc' = [pc EXCEPT ![j] = "write"]
          /\ Elsewhere(j)
      BY <2>7 DEF MarkGet, store, TypeOK, Elsewhere
    <3>2. Without({"getError", "overlap"})' => processed \subseteq job'[j].log
      <4>1. CASE job' = [job EXCEPT ![j].log = processed \cup {job[j].day}]
        BY <4>1 DEF TypeOK, JobRecord
      <4>2. CASE Admit("getError")
        BY <4>2 DEF Admit, Without
      <4> QED
        BY <2>7, <4>1, <4>2 DEF MarkGet
    <3> QED
      BY <1>0, <1>a, <3>1, <3>2 DEF Elsewhere, TypeOK
  <2> QED
    BY <1>2, <2>1, <2>2, <2>3, <2>4, <2>5, <2>6, <2>7 DEF JobStep
<1> QED
  BY <1>1, <1>2 DEF Next

(* --------------------- effects of a step of a job --------------------- *)

Quiet(j) ==
  PassCheck(j) \/ CheckFails(j) \/ Load(j) \/ Apply(j) \/ DeletePartition(j)
  \/ PutPartition(j) \/ InsertLedger(j)

Leaves(j) ==
  SkipDay(j) \/ ReadNothing(j) \/ MarkPut(j) \/ Raise(j) \/ Crash(j)
  \/ \E lo, hi \in Days, force \in BOOLEAN : Start(j, lo, hi, force)

(* Steps that neither take up a day nor write anything the log is about.   *)
LEMMA QuietEffect ==
  ASSUME TypeOK, NEW j \in Jobs, Quiet(j)
  PROVE  /\ silver' = silver /\ processed' = processed /\ commits' = commits
         /\ Elsewhere(j)
         /\ job'[j].day = job[j].day /\ job'[j].batch = job[j].batch
         /\ job'[j].log = job[j].log /\ job'[j].force = job[j].force
         /\ pc'[j] \in Holding <=> pc[j] \in Holding
         /\ pc[j] \notin {"mark", "write", "idle"} /\ pc'[j] \notin {"mark", "write"}
         /\ pc'[j] = "read" <=> pc[j] = "check"
         /\ pc[j] = "check" => \/ job[j].force \/ job[j].day \notin processed
                               \/ "getError" \in events'
<1>1. CASE PassCheck(j) \/ CheckFails(j)
  BY <1>1 DEF PassCheck, CheckFails, Admit, TypeOK, store, Elsewhere, Holding
<1>2. CASE Load(j)
  BY <1>2 DEF Load, TypeOK, JobRecord, store, Elsewhere, Holding
<1>3. CASE Apply(j)
  BY <1>3 DEF Apply, TypeOK, JobRecord, store, Elsewhere, Holding
<1>4. CASE DeletePartition(j) \/ PutPartition(j) \/ InsertLedger(j)
  BY <1>4 DEF DeletePartition, PutPartition, InsertLedger, TypeOK, Elsewhere, Holding
<1> QED
  BY <1>1, <1>2, <1>3, <1>4 DEF Quiet

(* Steps after which the job holds neither a day's trades nor a log.       *)
LEMMA LeavesEffect ==
  ASSUME TypeOK, NEW j \in Jobs, Leaves(j)
  PROVE  /\ silver' = silver /\ commits' = commits
         /\ Elsewhere(j)
         /\ job'[j].log = {}
         /\ pc'[j] \in {"check", "idle"}
         /\ processed' = processed \/ MarkPut(j)
<1>1. CASE SkipDay(j) \/ ReadNothing(j)
  BY <1>1, ProceedEffect DEF SkipDay, ReadNothing, store
<1>2. CASE MarkPut(j)
  BY <1>2, ProceedEffect DEF MarkPut
<1>3. CASE Raise(j) \/ Crash(j)
  <2>1. silver' = silver /\ commits' = commits /\ processed' = processed
    BY <1>3 DEF Raise, Crash, store
  <2> QED
    BY <1>3, <2>1, StopEffect
<1>4. ASSUME NEW lo \in Days, NEW hi \in Days, NEW force \in BOOLEAN,
             Start(j, lo, hi, force)
      PROVE  /\ silver' = silver /\ commits' = commits /\ processed' = processed
             /\ Elsewhere(j)
             /\ job'[j].log = {}
             /\ pc'[j] = "check"
  <2>1. [IdleJob EXCEPT !.day = lo, !.last = hi, !.force = force].log = {}
    BY DEF IdleJob
  <2> QED
    BY <1>4, <2>1 DEF Start, TypeOK, store, Elsewhere
<1> QED
  BY <1>1, <1>2, <1>3, <1>4 DEF Leaves

LEMMA ReadEffect ==
  ASSUME TypeOK, NEW j \in Jobs, Read(j)
  PROVE  /\ silver' = silver /\ processed' = processed /\ commits' = commits
         /\ Elsewhere(j)
         /\ job'[j].day = job[j].day /\ job'[j].batch = TradesOf(silver, job[j].day)
         /\ job'[j].log = job[j].log /\ job'[j].force = job[j].force
         /\ pc[j] = "read" /\ pc'[j] = "load"
         /\ Repeated(job[j].day) /\ job[j].force => "force" \in events'
  BY DEF Read, TypeOK, JobRecord, store, Elsewhere

LEMMA InsertEffect ==
  ASSUME TypeOK, NEW j \in Jobs, InsertPositions(j)
  PROVE  /\ silver' = silver /\ processed' = processed /\ job' = job
         /\ \A i \in Jobs \ {j} : pc'[i] = pc[i]
         /\ pc[j] = "state" /\ pc'[j] = "mark"
         /\ \A t \in job[j].batch : commits'[t] >= 1
  BY CommitsGrow DEF InsertPositions, TypeOK, JobRecord

LEMMA MarkGetEffect ==
  ASSUME TypeOK, NEW j \in Jobs, MarkGet(j)
  PROVE  /\ silver' = silver /\ processed' = processed /\ commits' = commits
         /\ Elsewhere(j)
         /\ job'[j].day = job[j].day /\ job'[j].batch = job[j].batch
         /\ job'[j].log \subseteq processed \cup {job[j].day}
         /\ job[j].day \in job'[j].log
         /\ pc[j] = "mark" /\ pc'[j] = "write"
  BY DEF MarkGet, TypeOK, JobRecord, store, Elsewhere

LEMMA StepCases ==
  ASSUME NEW j \in Jobs, JobStep(j)
  PROVE  Quiet(j) \/ Leaves(j) \/ Read(j) \/ InsertPositions(j) \/ MarkGet(j)
  BY DEF JobStep, Quiet, Leaves

(* ------------------------- no trade is missed ------------------------- *)

(* An arrival that is not late is of a day no job has read or will log.    *)
LEMMA ArriveEffect ==
  ASSUME NEW t \in Feed, Arrive(t), Without({"late"})'
  PROVE  /\ silver' = silver \cup {t}
         /\ processed' = processed /\ commits' = commits /\ pc' = pc /\ job' = job
         /\ DayOf(t.ts) \notin processed
         /\ \A j \in Jobs : /\ pc[j] \in Holding => job[j].day # DayOf(t.ts)
                            /\ DayOf(t.ts) \notin job[j].log
  BY DEF Arrive, Admit, Without, Settled, store

LEMMA StepBatches ==
  ASSUME TypeOK, LogCopy, Batches, NoTradeMissed, [Next]_vars
  PROVE  Batches' /\ NoTradeMissed'
<1> DEFINE Ok(i) ==
             /\ pc[i] \in Holding /\ Without({"late"}) =>
                  TradesOf(silver, job[i].day) \subseteq job[i].batch
             /\ pc[i] \in {"mark", "write"} => \A t \in job[i].batch : commits[t] >= 1
             /\ Without({"late"}) => \A d \in job[i].log : Covered(d)
<1>0. \A i \in Jobs : Ok(i)
  BY DEF Batches
<1>a. Without({"late"})' => Without({"late"})
  BY StepGrows, WithoutBefore
<1>b. Without({"late"}) => \A d \in processed : Covered(d)
  BY DEF NoTradeMissed, Covered
<1>c. \A t \in Feed : commits[t] \in Nat /\ commits'[t] \in Nat /\ commits[t] <= commits'[t]
  BY StepGrows, StepType DEF Accrues, TypeOK
<1>d. \A i \in Jobs : job[i].batch \subseteq Feed
  BY DEF TypeOK, JobRecord
<1>e. silver \subseteq Feed
  BY DEF TypeOK
<1> SUFFICES /\ \A i \in Jobs : Ok(i)'
             /\ Without({"late"})' => \A d \in processed' : Covered(d)'
  BY DEF Batches, NoTradeMissed, Covered
<1>1. CASE UNCHANGED <<silver, processed, pc, job, commits>>
  BY <1>0, <1>1, <1>a, <1>b DEF Covered
<1>2. CASE \E t \in Feed : Arrive(t)
  <2>1. PICK t \in Feed : Arrive(t)
    BY <1>2
  <2>2. CASE Without({"late"})'
    <3>1. \A d : d # DayOf(t.ts) /\ Covered(d) => Covered(d)'
      BY <2>1, <2>2, ArriveEffect DEF Covered
    <3>2. \A d : d # DayOf(t.ts) => TradesOf(silver', d) = TradesOf(silver, d)
      BY <2>1, <2>2, ArriveEffect DEF TradesOf
    <3> QED
      BY <1>0, <1>a, <1>b, <2>1, <2>2, <3>1, <3>2, ArriveEffect DEF TradesOf
  <2>3. CASE ~Without({"late"})'
    <3>1. UNCHANGED <<pc, job, commits>>
      BY <2>1 DEF Arrive
    <3> QED
      BY <1>0, <2>3, <3>1
  <2> QED
    BY <2>2, <2>3
<1>3. ASSUME NEW j \in Jobs, JobStep(j), silver' = silver
      PROVE  /\ \A i \in Jobs : Ok(i)'
             /\ Without({"late"})' => \A d \in processed' : Covered(d)'
  <2>1. \A d : Covered(d) => Covered(d)'
    BY <1>3, <1>c, <1>e DEF Covered
  <2>2. ASSUME NEW i \in Jobs, pc'[i] = pc[i], job'[i] = job[i]
        PROVE  Ok(i)'
    BY <1>0, <1>3, <1>a, <1>c, <1>d, <2>1, <2>2
  <2>3. CASE Quiet(j)
    <3>1. Ok(j)'
      BY <1>0, <1>a, <2>1, <2>3, QuietEffect DEF Holding
    <3> QED
      BY <1>a, <1>b, <2>1, <2>2, <2>3, <3>1, QuietEffect DEF Elsewhere
  <2>4. CASE Leaves(j)
    <3>1. Ok(j)'
      BY <2>4, LeavesEffect DEF Holding
    <3>2. processed' = processed \/ processed' = job[j].log
      BY <2>4, LeavesEffect DEF MarkPut
    <3> QED
      BY <1>0, <1>a, <1>b, <2>1, <2>2, <2>4, <3>1, <3>2, LeavesEffect DEF Elsewhere
  <2>5. CASE Read(j)
    <3>1. Ok(j)'
      BY <1>0, <1>a, <2>1, <2>5, ReadEffect
    <3> QED
      BY <1>a, <1>b, <2>1, <2>2, <2>5, <3>1, ReadEffect DEF Elsewhere
  <2>6. CASE InsertPositions(j)
    <3>1. Ok(j)'
      BY <1>0, <1>a, <2>1, <2>6, InsertEffect DEF Holding
    <3> QED
      BY <1>a, <1>b, <2>1, <2>2, <2>6, <3>1, InsertEffect
  <2>7. CASE MarkGet(j)
    <3>1. Without({"late"}) => Covered(job[j].day)
      BY <1>0, <2>7, MarkGetEffect DEF Covered, TradesOf, Holding
    <3>2. Ok(j)'
      BY <1>0, <1>a, <1>b, <2>1, <2>7, <3>1, MarkGetEffect DEF Holding
    <3> QED
      BY <1>a, <1>b, <2>1, <2>2, <2>7, <3>2, MarkGetEffect DEF Elsewhere
  <2> QED
    BY <1>3, <2>3, <2>4, <2>5, <2>6, <2>7, StepCases
<1>4. ASSUME NEW j \in Jobs, JobStep(j)
      PROVE  silver' = silver
  BY <1>4, StepCases, QuietEffect, LeavesEffect, ReadEffect, InsertEffect, MarkGetEffect
<1>5. CASE NextDay \/ (\E k \in Keys : Expire(k)) \/ UNCHANGED vars
  <2>1. UNCHANGED <<silver, processed, pc, job, commits>>
    BY <1>5 DEF NextDay, Expire, vars, store
  <2> QED
    BY <1>1, <2>1
<1> QED
  BY <1>2, <1>3, <1>4, <1>5 DEF Next

(* ---------------------- no trade is counted twice --------------------- *)

LEMMA LeavesLogged ==
  ASSUME TypeOK, NEW j \in Jobs, Leaves(j), pc[j] \in {"mark", "write"}
  PROVE  (MarkPut(j) /\ pc[j] = "write") \/ "crash" \in events'
  BY DEF Leaves, SkipDay, ReadNothing, MarkPut, Raise, Crash, Start, Admit

LEMMA StepOwnDay ==
  ASSUME TypeOK, OwnDay, [Next]_vars
  PROVE  OwnDay'
<1> DEFINE Ok(i) ==
             /\ pc[i] \in Holding => \A t \in job[i].batch : DayOf(t.ts) = job[i].day
             /\ pc[i] = "write" => job[i].day \in job[i].log
<1>0. \A i \in Jobs : Ok(i)
  BY DEF OwnDay
<1> SUFFICES \A i \in Jobs : Ok(i)'
  BY DEF OwnDay
<1>1. CASE UNCHANGED <<pc, job>>
  BY <1>0, <1>1
<1>2. CASE NextDay \/ (\E t \in Feed : Arrive(t)) \/ (\E k \in Keys : Expire(k))
           \/ UNCHANGED vars
  BY <1>1, <1>2 DEF NextDay, Arrive, Expire, vars
<1>3. ASSUME NEW j \in Jobs, JobStep(j) PROVE \A i \in Jobs : Ok(i)'
  <2>1. ASSUME NEW i \in Jobs, pc'[i] = pc[i], job'[i] = job[i]
        PROVE  Ok(i)'
    BY <1>0, <2>1
  <2>2. Ok(j)'
    <3>1. CASE Quiet(j)
      BY <1>0, <3>1, QuietEffect
    <3>2. CASE Leaves(j)
      BY <3>2, LeavesEffect DEF Holding
    <3>3. CASE Read(j)
      BY <3>3, ReadEffect DEF TradesOf
    <3>4. CASE InsertPositions(j)
      BY <1>0, <3>4, InsertEffect DEF Holding
    <3>5. CASE MarkGet(j)
      BY <1>0, <3>5, MarkGetEffect DEF Holding
    <3> QED
      BY <1>3, <3>1, <3>2, <3>3, <3>4, <3>5, StepCases
  <2>3. \A i \in Jobs \ {j} : pc'[i] = pc[i] /\ job'[i] = job[i]
    BY <1>3, StepCases, QuietEffect, LeavesEffect, ReadEffect, InsertEffect,
       MarkGetEffect DEF Elsewhere
  <2> QED
    BY <2>1, <2>2, <2>3
<1> QED
  BY <1>2, <1>3 DEF Next

LEMMA StepTwice ==
  ASSUME TwiceInv, [Next]_vars
  PROVE  FreshDay' /\ CommitsLogged' /\ NoTradeTwice'
<1> USE DEF TwiceInv, LogInv
<1> DEFINE Fresh(i) ==
             /\ pc[i] = "read" /\ ~job[i].force => job[i].day \notin processed
             /\ pc[i] \in Holding \ {"mark", "write"} => ~Repeated(job[i].day)
           Known(t) == commits[t] >= 1 => Logged(DayOf(t.ts))
<1>1. SUFFICES ASSUME Orderly'
               PROVE  /\ \A i \in Jobs : Fresh(i)'
                      /\ \A t \in Feed : Known(t)' /\ commits'[t] <= 1
  BY DEF FreshDay, CommitsLogged, NoTradeTwice, Orderly
<1>2. /\ Orderly
      /\ "crash" \notin events' /\ "getError" \notin events' /\ "force" \notin events'
      /\ Without({"overlap"}) /\ Without({"getError", "overlap"})
  BY <1>1, StepGrows, WithoutBefore DEF Orderly, Without, Accrues
<1>3. /\ \A i \in Jobs : Fresh(i)
      /\ \A t \in Feed : Known(t) /\ commits[t] <= 1
  BY <1>2 DEF FreshDay, CommitsLogged, NoTradeTwice, Orderly
<1>4. \A i, j \in Jobs : pc[i] # "idle" /\ pc[j] # "idle" => i = j
  BY <1>2 DEF SingleJob
<1>5. CASE UNCHANGED <<processed, pc, job, commits>>
  BY <1>3, <1>5 DEF Logged, Repeated
<1>6. ASSUME NEW j \in Jobs, JobStep(j)
      PROVE  /\ \A i \in Jobs : Fresh(i)'
             /\ \A t \in Feed : Known(t)' /\ commits'[t] <= 1
  <2>1. CASE Quiet(j)
    <3>1. \A d : Logged(d) => Logged(d)'
      BY <2>1, QuietEffect DEF Logged, Elsewhere
    <3>2. \A i \in Jobs : Fresh(i)'
      BY <1>2, <1>3, <2>1, QuietEffect DEF Elsewhere, Repeated
    <3> QED
      BY <1>3, <2>1, <3>1, <3>2, QuietEffect
  <2>2. CASE Leaves(j)
    <3>1. processed \subseteq processed'
      BY <1>2, <2>2, LeavesEffect DEF MarkPut, LogCopy
    <3>2. \A d : Logged(d) => Logged(d)'
      <4> SUFFICES ASSUME NEW d, Logged(d), d \notin processed PROVE Logged(d)'
        BY <3>1 DEF Logged
      <4>1. PICK i \in Jobs : pc[i] \in {"mark", "write"} /\ job[i].day = d
        BY DEF Logged
      <4>2. CASE i = j
        <5>1. MarkPut(j) /\ pc[j] = "write"
          BY <1>2, <2>2, <4>1, <4>2, LeavesLogged
        <5>2. d \in processed'
          BY <4>1, <4>2, <5>1 DEF MarkPut, OwnDay
        <5> QED
          BY <5>2 DEF Logged
      <4>3. CASE i # j
        BY <2>2, <4>1, <4>3, LeavesEffect DEF Logged, Elsewhere
      <4> QED
        BY <4>2, <4>3
    <3>3. Fresh(j)'
      BY <2>2, LeavesEffect DEF Holding
    <3>4. ASSUME NEW i \in Jobs, i # j PROVE Fresh(i)'
      <4>1. pc'[i] = pc[i] /\ job'[i] = job[i] /\ commits' = commits
        BY <2>2, <3>4, LeavesEffect DEF Elsewhere
      <4>2. CASE MarkPut(j)
        BY <1>4, <3>4, <4>1, <4>2 DEF MarkPut, Holding
      <4>3. CASE processed' = processed
        BY <1>3, <4>1, <4>3 DEF Repeated
      <4> QED
        BY <2>2, <4>2, <4>3, LeavesEffect
    <3> QED
      BY <1>3, <2>2, <3>2, <3>3, <3>4, LeavesEffect
  <2>3. CASE Read(j)
    <3>1. \A d : Logged(d) => Logged(d)'
      BY <2>3, ReadEffect DEF Logged, Elsewhere
    <3>2. ~Repeated(job[j].day)
      <4>1. CASE job[j].force
        BY <1>2, <2>3, <4>1, ReadEffect
      <4>2. CASE ~job[j].force
        <5>1. ~Logged(job[j].day)
          BY <1>3, <1>4, <2>3, <4>2, ReadEffect DEF Logged
        <5>2. \A t \in Feed : commits[t] > 0 => commits[t] >= 1
          BY DEF TypeOK
        <5> QED
          BY <1>3, <5>1, <5>2 DEF Repeated
      <4> QED
        BY <4>1, <4>2
    <3>3. \A i \in Jobs : Fresh(i)'
      BY <1>3, <2>3, <3>2, ReadEffect DEF Elsewhere, Repeated
    <3> QED
      BY <1>3, <2>3, <3>1, <3>3, ReadEffect
  <2>4. CASE InsertPositions(j)
    <3>1. ~Repeated(job[j].day)
      BY <1>3, <2>4, InsertEffect DEF Holding
    <3>2. \A t \in job[j].batch : DayOf(t.ts) = job[j].day
      BY <2>4, InsertEffect DEF OwnDay, Holding
    <3>3. \A d : Logged(d) => Logged(d)'
      BY <2>4, InsertEffect DEF Logged
    <3>4. Logged(job[j].day)'
      BY <2>4, InsertEffect DEF Logged
    <3>5. \A t \in Feed : t \in job[j].batch => commits[t] = 0
      BY <3>1, <3>2 DEF Repeated, TypeOK
    <3>6. \A t \in Feed : commits'[t] <= 1
      BY <1>3, <2>4, <3>5, CommitsGrow
    <3>7. \A t \in Feed : Known(t)'
      <4> SUFFICES ASSUME NEW t \in Feed, commits'[t] >= 1 PROVE Logged(DayOf(t.ts))'
        OBVIOUS
      <4>1. CASE t \in job[j].batch
        BY <2>4, <3>2, <3>4, <4>1, InsertEffect
      <4>2. CASE t \notin job[j].batch
        BY <1>3, <2>4, <3>3, <4>2, CommitsGrow
      <4> QED
        BY <4>1, <4>2
    <3>8. \A i \in Jobs : Fresh(i)'
      <4>1. Fresh(j)'
        BY <2>4, InsertEffect
      <4>2. ASSUME NEW i \in Jobs, i # j PROVE pc'[i] = "idle"
        BY <1>4, <2>4, <4>2, InsertEffect
      <4> QED
        BY <4>1, <4>2 DEF Holding
    <3> QED
      BY <3>6, <3>7, <3>8
  <2>5. CASE MarkGet(j)
    <3>1. \A d : Logged(d) => Logged(d)'
      BY <2>5, MarkGetEffect DEF Logged, Elsewhere
    <3>2. \A i \in Jobs : Fresh(i)'
      BY <1>3, <2>5, MarkGetEffect DEF Elsewhere, Repeated
    <3> QED
      BY <1>3, <2>5, <3>1, <3>2, MarkGetEffect
  <2> QED
    BY <1>6, <2>1, <2>2, <2>3, <2>4, <2>5, StepCases
<1>7. CASE NextDay \/ (\E t \in Feed : Arrive(t)) \/ (\E k \in Keys : Expire(k))
           \/ UNCHANGED vars
  <2>1. UNCHANGED <<processed, pc, job, commits>>
    BY <1>7 DEF NextDay, Arrive, Expire, vars, store
  <2> QED
    BY <1>5, <2>1
<1> QED
  BY <1>6, <1>7 DEF Next

LEMMA InitSafe == Init => TwiceInv /\ MissedInv
<1> SUFFICES ASSUME Init PROVE TwiceInv /\ MissedInv
  OBVIOUS
<1>1. TypeOK
  BY InitType
<1>2. \A j \in Jobs : pc[j] = "idle" /\ job[j].log = {}
  BY DEF Init, IdleJob
<1>3. \A t \in Feed : commits[t] = 0
  BY DEF Init
<1> QED
  BY <1>1, <1>2, <1>3 DEF Init, TwiceInv, MissedInv, LogInv, SingleJob, LogCopy, Batches,
     NoTradeMissed, OwnDay, FreshDay, CommitsLogged, NoTradeTwice, Holding

(* A logged day has all its trades in the positions, through crashes,      *)
(* failed log reads, overlapping and forced runs, unless one came late.    *)
THEOREM NothingMissed == Spec => []NoTradeMissed
<1>1. MissedInv /\ SingleJob /\ [Next]_vars => (MissedInv /\ SingleJob)'
  BY StepType, StepSingle, StepLogCopy, StepBatches DEF MissedInv
<1>2. Init => MissedInv /\ SingleJob
  BY InitSafe DEF TwiceInv, LogInv
<1>3. MissedInv => NoTradeMissed
  BY DEF MissedInv
<1> QED
  BY <1>1, <1>2, <1>3, PTL DEF Spec

(* Without a crash, a failed log read, an overlap or a forced repetition,  *)
(* no trade enters the positions twice, whatever ranges of days are asked. *)
THEOREM NothingTwice == Spec => []NoTradeTwice
<1>1. TwiceInv /\ [Next]_vars => TwiceInv'
  BY StepType, StepSingle, StepLogCopy, StepOwnDay, StepTwice DEF TwiceInv, LogInv
<1>2. Init => TwiceInv
  BY InitSafe
<1>3. TwiceInv => NoTradeTwice
  BY DEF TwiceInv
<1> QED
  BY <1>1, <1>2, <1>3, PTL DEF Spec

(* The log of processed days never loses a day, unless a GET of it fails   *)
(* or two runs overlap.                                                    *)
THEOREM LogIsKept == Spec => LogKept
<1> DEFINE Kept == Without({"getError", "overlap"})' => processed \subseteq processed'
<1>1. LogInv /\ [Next]_vars => LogInv'
  BY StepType, StepSingle, StepLogCopy DEF LogInv
<1>2. Init => LogInv
  BY InitSafe DEF TwiceInv
<1>3. LogInv /\ [Next]_vars => [Kept]_vars
  <2> SUFFICES ASSUME LogInv, [Next]_vars, Without({"getError", "overlap"})'
               PROVE  processed \subseteq processed'
    OBVIOUS
  <2>1. Without({"getError", "overlap"})
    BY StepGrows, WithoutBefore DEF LogInv
  <2>2. ASSUME NEW j \in Jobs, JobStep(j) PROVE processed \subseteq processed'
    <3>1. CASE MarkPut(j)
      BY <2>1, <3>1 DEF MarkPut, LogInv, LogCopy
    <3> QED
      BY <2>2, <3>1, StepCases, QuietEffect, LeavesEffect, ReadEffect, InsertEffect,
         MarkGetEffect DEF LogInv
  <2>3. CASE NextDay \/ (\E t \in Feed : Arrive(t)) \/ (\E k \in Keys : Expire(k))
             \/ UNCHANGED vars
    BY <2>3 DEF NextDay, Arrive, Expire, vars, store
  <2> QED
    BY <2>2, <2>3 DEF Next
<1>4. Spec => []LogInv
  BY <1>1, <1>2, PTL DEF Spec
<1> QED
  BY <1>3, <1>4, PTL DEF Spec, LogKept

(* h[s] is the sum of g over s, for every subset s of S.                   *)
IsTotal(h, g, S) ==
  /\ h \in [SUBSET S -> Int]
  /\ h[{}] = 0
  /\ \A s \in SUBSET S, x \in S : x \notin s => h[s \cup {x}] = h[s] + g[x]

LEMMA TotalExists ==
  ASSUME NEW S, IsFiniteSet(S), NEW g \in [S -> Int]
  PROVE  \E h : IsTotal(h, g, S)
<1> DEFINE Bad == {s \in SUBSET S : \A h : ~IsTotal(h, g, s)}
<1> SUFFICES ASSUME Bad # {} PROVE FALSE
  OBVIOUS
<1>1. PICK s \in Bad : \A u \in Bad : ~(<<u, s>> \in StrictSubsetOrdering(S))
  <2>1. Bad \subseteq FiniteSubsetsOf(S)
    BY FS_FiniteSubsetsOfFinite
  <2> HIDE DEF Bad
  <2> QED
    BY <2>1, FS_StrictSubsetOrderingWellFounded, WFMin
<1>2. CASE s = {}
  <2> DEFINE h == [u \in SUBSET {} |-> 0]
  <2>1. IsTotal(h, g, {})
    BY DEF IsTotal
  <2> QED
    BY <1>1, <1>2, <2>1
<1>3. CASE s # {}
  <2>1. PICK x \in s : x \in S
    BY <1>1, <1>3
  <2>2. PICK r \in SUBSET S : r = s \ {x}
    BY <1>1
  <2>3. r \notin Bad
    <3>1. <<r, s>> \in StrictSubsetOrdering(S)
      BY <1>1, <2>1, <2>2 DEF StrictSubsetOrdering
    <3> QED
      BY <1>1, <3>1
  <2>4. PICK f : IsTotal(f, g, r)
    BY <2>3
  <2> DEFINE h == [u \in SUBSET s |-> IF x \in u THEN f[u \ {x}] + g[x] ELSE f[u]]
  <2>5. /\ \A u \in SUBSET s : u \ {x} \in SUBSET r /\ (x \notin u => u \in SUBSET r)
        /\ g[x] \in Int /\ \A y \in s : g[y] \in Int
        /\ \A u \in SUBSET r : f[u] \in Int
    BY <1>1, <2>1, <2>2, <2>4 DEF IsTotal
  <2>6. h \in [SUBSET s -> Int]
    BY <2>5
  <2>7. h[{}] = 0
    BY <2>4 DEF IsTotal
  <2>8. ASSUME NEW u \in SUBSET s, NEW y \in s, y \notin u
        PROVE  h[u \cup {y}] = h[u] + g[y]
    <3>0. u \cup {y} \in SUBSET s
      OBVIOUS
    <3>1. CASE y = x
      <4>1. (u \cup {y}) \ {x} = u /\ x \in u \cup {y}
        BY <2>8, <3>1
      <4> QED
        BY <3>0, <3>1, <4>1, <2>8
    <3>2. CASE y # x /\ x \in u
      <4>1. (u \cup {y}) \ {x} = (u \ {x}) \cup {y} /\ x \in u \cup {y}
        BY <3>2
      <4>2. f[(u \ {x}) \cup {y}] = f[u \ {x}] + g[y]
        BY <2>2, <2>4, <2>5, <2>8, <3>2 DEF IsTotal
      <4>3. f[u \ {x}] \in Int /\ g[x] \in Int /\ g[y] \in Int
        BY <2>5
      <4>4. h[u \cup {y}] = f[(u \ {x}) \cup {y}] + g[x] /\ h[u] = f[u \ {x}] + g[x]
        BY <3>0, <3>2, <4>1
      <4> HIDE DEF h
      <4> QED
        BY <4>2, <4>3, <4>4
    <3>3. CASE y # x /\ x \notin u
      <4>1. f[u \cup {y}] = f[u] + g[y]
        BY <2>2, <2>4, <2>5, <2>8, <3>3 DEF IsTotal
      <4> QED
        BY <3>0, <3>3, <4>1
    <3> QED
      BY <3>1, <3>2, <3>3
  <2>9. IsTotal(h, g, s)
    BY <2>6, <2>7, <2>8 DEF IsTotal
  <2> QED
    BY <1>1, <2>9
<1> QED
  BY <1>2, <1>3

(* The equation by which MapThenSumSet is defined.                         *)
Adds(i, g, S) ==
  i = [s \in SUBSET S |-> IF s = {} THEN 0
                          ELSE g[CHOOSE x \in s : TRUE] + i[s \ {CHOOSE x \in s : TRUE}]]

LEMMA Chosen ==
  ASSUME NEW s, s # {}
  PROVE  (CHOOSE x \in s : TRUE) \in s
<1>1. PICK x : x \in s
  OBVIOUS
<1> QED
  BY <1>1

LEMMA TotalAdds ==
  ASSUME NEW S, NEW g \in [S -> Int], NEW h, IsTotal(h, g, S)
  PROVE  Adds(h, g, S)
<1>1. ASSUME NEW s \in SUBSET S, s # {}
      PROVE  \E y : y = (CHOOSE x \in s : TRUE) /\ h[s] = g[y] + h[s \ {y}]
  <2>1. PICK y \in s : y = CHOOSE x \in s : TRUE
    BY <1>1, Chosen
  <2>2. h[(s \ {y}) \cup {y}] = h[s \ {y}] + g[y]
    BY DEF IsTotal
  <2>3. (s \ {y}) \cup {y} = s /\ h[s \ {y}] \in Int /\ g[y] \in Int
    BY DEF IsTotal
  <2>4. h[s] = h[s \ {y}] + g[y]
    BY <2>2, <2>3, Zenon
  <2>5. h[s] = g[y] + h[s \ {y}]
    BY <2>3, <2>4
  <2> QED
    BY <2>1, <2>5
<1> QED
  BY <1>1 DEF Adds, IsTotal

LEMMA AddsUnique ==
  ASSUME NEW S, IsFiniteSet(S), NEW g \in [S -> Int], NEW h, NEW i,
         Adds(h, g, S), Adds(i, g, S)
  PROVE  \A s \in SUBSET S : h[s] = i[s]
<1> DEFINE Bad == {s \in SUBSET S : h[s] # i[s]}
<1> SUFFICES ASSUME Bad # {} PROVE FALSE
  OBVIOUS
<1>1. PICK s \in Bad : \A u \in Bad : ~(<<u, s>> \in StrictSubsetOrdering(S))
  <2>1. Bad \subseteq FiniteSubsetsOf(S)
    BY FS_FiniteSubsetsOfFinite
  <2> HIDE DEF Bad
  <2> QED
    BY <2>1, FS_StrictSubsetOrderingWellFounded, WFMin
<1>2. s # {}
  BY <1>1 DEF Adds
<1>3. PICK y \in s : y = CHOOSE x \in s : TRUE
  BY <1>2, Chosen
<1>4. h[s] = g[y] + h[s \ {y}] /\ i[s] = g[y] + i[s \ {y}]
  BY <1>1, <1>2, <1>3 DEF Adds
<1>5. <<s \ {y}, s>> \in StrictSubsetOrdering(S)
  BY <1>1, <1>3 DEF StrictSubsetOrdering
<1>6. h[s \ {y}] = i[s \ {y}]
  BY <1>1, <1>5
<1> QED
  BY <1>1, <1>4, <1>6

Sum(g, S) == MapThenSumSet(LAMBDA x : g[x], S)

(* What Sum says is the total, whatever order it adds in.                  *)
LEMMA SumIs ==
  ASSUME NEW S, IsFiniteSet(S), NEW g \in [S -> Int], NEW h, IsTotal(h, g, S)
  PROVE  Sum(g, S) = h[S]
<1>1. Adds(h, g, S)
  BY TotalAdds
<1> DEFINE P(i) == Adds(i, g, S)
<1>2. Sum(g, S) = (CHOOSE i : P(i))[S]
  BY DEF Sum, MapThenSumSet, MapThenFoldSet, Adds
<1> HIDE DEF P
<1>3. P(CHOOSE i : P(i))
  <2>1. P(h)
    BY <1>1 DEF P
  <2> QED
    BY <2>1
<1> QED
  BY <1>1, <1>2, <1>3, AddsUnique DEF P

(* What a batch moves for a key.  Both sums are sums of functions.         *)
Volume(B, k) == MapThenSumSet(LAMBDA t : Moved(t, k), B)

LEMMA NetSum ==
  ASSUME NEW c, NEW k
  PROVE  Net(c, k) = Sum([t \in Feed |-> c[t] * Moved(t, k)], Feed)
<1> DEFINE g == [t \in Feed |-> c[t] * Moved(t, k)]
           P(i) == i = [s \in SUBSET Feed |->
                IF s = {} THEN 0
                ELSE c[CHOOSE x \in s : TRUE] * Moved(CHOOSE x \in s : TRUE, k)
                     + i[s \ {CHOOSE x \in s : TRUE}]]
           Q(i) == i = [s \in SUBSET Feed |->
                IF s = {} THEN 0
                ELSE g[CHOOSE x \in s : TRUE] + i[s \ {CHOOSE x \in s : TRUE}]]
<1>1. \A i : P(i) <=> Q(i)
  BY Chosen
<1>2. Net(c, k) = (CHOOSE i : P(i))[Feed]
  BY DEF Net, MapThenSumSet, MapThenFoldSet
<1>3. Sum(g, Feed) = (CHOOSE i : Q(i))[Feed]
  BY DEF Sum, MapThenSumSet, MapThenFoldSet
<1> HIDE DEF P, Q
<1>4. (CHOOSE i : P(i)) = (CHOOSE i : Q(i))
  BY <1>1
<1> QED
  BY <1>2, <1>3, <1>4

LEMMA MovedType ==
  ASSUME NEW t \in Feed, NEW k
  PROVE  Moved(t, k) \in Int
  BY GoldAssumption DEF Moved, SignedDelta, Trade

LEMMA VolumeSum ==
  ASSUME NEW B, NEW k
  PROVE  Volume(B, k) = Sum([t \in B |-> Moved(t, k)], B)
<1> DEFINE g == [t \in B |-> Moved(t, k)]
           P(i) == i = [s \in SUBSET B |->
                IF s = {} THEN 0
                ELSE Moved(CHOOSE x \in s : TRUE, k) + i[s \ {CHOOSE x \in s : TRUE}]]
           Q(i) == i = [s \in SUBSET B |->
                IF s = {} THEN 0
                ELSE g[CHOOSE x \in s : TRUE] + i[s \ {CHOOSE x \in s : TRUE}]]
<1>1. \A i : P(i) <=> Q(i)
  BY Chosen
<1>2. Volume(B, k) = (CHOOSE i : P(i))[B]
  BY DEF Volume, MapThenSumSet, MapThenFoldSet
<1>3. Sum(g, B) = (CHOOSE i : Q(i))[B]
  BY DEF Sum, MapThenSumSet, MapThenFoldSet
<1> HIDE DEF P, Q
<1>4. (CHOOSE i : P(i)) = (CHOOSE i : Q(i))
  BY <1>1
<1> QED
  BY <1>2, <1>3, <1>4

LEMMA VolumeTotal ==
  ASSUME NEW k, NEW h, IsTotal(h, [t \in Feed |-> Moved(t, k)], Feed), NEW B \in SUBSET Feed
  PROVE  Volume(B, k) = h[B]
<1> DEFINE f == [s \in SUBSET B |-> h[s]]
           g == [t \in B |-> Moved(t, k)]
<1>1. g \in [B -> Int] /\ IsFiniteSet(B)
  BY MovedType, GoldAssumption, FS_Subset
<1>2. IsTotal(f, g, B)
  BY DEF IsTotal
<1> HIDE DEF g
<1>3. Sum(g, B) = f[B]
  BY <1>1, <1>2, SumIs
<1> QED
  BY <1>3, VolumeSum DEF g

LEMMA VolumeOfNone == \A k : Volume({}, k) = 0
<1> SUFFICES ASSUME NEW k PROVE Volume({}, k) = 0
  OBVIOUS
<1>1. [t \in Feed |-> Moved(t, k)] \in [Feed -> Int]
  BY MovedType
<1>2. PICK h : IsTotal(h, [t \in Feed |-> Moved(t, k)], Feed)
  BY <1>1, GoldAssumption, TotalExists
<1>3. Volume({}, k) = h[{}]
  BY <1>2, VolumeTotal
<1> QED
  BY <1>2, <1>3 DEF IsTotal

LEMMA VolumeType ==
  ASSUME NEW k, NEW B \in SUBSET Feed
  PROVE  Volume(B, k) \in Int
<1>1. [t \in Feed |-> Moved(t, k)] \in [Feed -> Int]
  BY MovedType
<1>2. PICK h : IsTotal(h, [t \in Feed |-> Moved(t, k)], Feed)
  BY <1>1, GoldAssumption, TotalExists
<1>3. Volume(B, k) = h[B]
  BY <1>2, VolumeTotal
<1> QED
  BY <1>2, <1>3 DEF IsTotal

LEMMA VolumeWith ==
  ASSUME NEW k, NEW B \in SUBSET Feed, NEW t \in Feed, t \notin B
  PROVE  Volume(B \cup {t}, k) = Volume(B, k) + Moved(t, k)
<1>1. [u \in Feed |-> Moved(u, k)] \in [Feed -> Int]
  BY MovedType
<1>2. PICK h : IsTotal(h, [u \in Feed |-> Moved(u, k)], Feed)
  BY <1>1, GoldAssumption, TotalExists
<1>3. B \cup {t} \in SUBSET Feed
  OBVIOUS
<1>4. Volume(B, k) = h[B] /\ Volume(B \cup {t}, k) = h[B \cup {t}]
  BY <1>2, <1>3, VolumeTotal
<1> QED
  BY <1>2, <1>4 DEF IsTotal

(* The sum of a function that is zero outside B is the sum over B.         *)
LEMMA TotalWithin ==
  ASSUME NEW S, NEW g \in [S -> Int], NEW h, IsTotal(h, g, S), NEW B \in SUBSET S,
         NEW within, \A t \in S : within[t] = IF t \in B THEN g[t] ELSE 0
  PROVE  \E f : IsTotal(f, within, S) /\ f[S] = h[B]
<1> DEFINE f == [s \in SUBSET S |-> h[s \cap B]]
<1>1. f \in [SUBSET S -> Int]
  BY DEF IsTotal
<1>2. {} \cap B = {} /\ {} \in SUBSET S
  OBVIOUS
<1>3. f[{}] = 0
  <2>1. f[{}] = h[{} \cap B]
    OBVIOUS
  <2> QED
    BY <1>2, <2>1, Zenon DEF IsTotal
<1>4. ASSUME NEW s \in SUBSET S, NEW x \in S, x \notin s
      PROVE  f[s \cup {x}] = f[s] + within[x]
  <2>1. s \cup {x} \in SUBSET S /\ s \cap B \in SUBSET S
    OBVIOUS
  <2>2. CASE x \in B
    <3>1. h[(s \cap B) \cup {x}] = h[s \cap B] + g[x]
      BY <1>4, <2>1 DEF IsTotal
    <3>2. (s \cup {x}) \cap B = (s \cap B) \cup {x}
      BY <2>2
    <3>3. h[(s \cup {x}) \cap B] = h[(s \cap B) \cup {x}]
      BY <3>2, Zenon
    <3> QED
      BY <2>1, <2>2, <3>1, <3>3
  <2>3. CASE x \notin B
    <3>1. (s \cup {x}) \cap B = s \cap B
      BY <2>3
    <3>2. h[(s \cup {x}) \cap B] = h[s \cap B]
      BY <3>1, Zenon
    <3>3. h[s \cap B] \in Int
      BY <2>1 DEF IsTotal
    <3> QED
      BY <2>1, <2>3, <3>2, <3>3
  <2> QED
    BY <2>2, <2>3
<1>5. IsTotal(f, within, S)
  <2> HIDE DEF f
  <2> QED
    BY <1>1, <1>3, <1>4 DEF IsTotal
<1>6. f[S] = h[B]
  <2>1. S \cap B = B
    OBVIOUS
  <2>2. h[S \cap B] = h[B]
    BY <2>1, Zenon
  <2> QED
    BY <2>2
<1> QED
  BY <1>5, <1>6

(* The sums move together: inserting a batch adds its volume.              *)
LEMMA NetWith ==
  ASSUME NEW k, NEW c \in [Feed -> Nat], NEW d \in [Feed -> Nat], NEW B \in SUBSET Feed,
         \A t \in Feed : d[t] = IF t \in B THEN c[t] + 1 ELSE c[t]
  PROVE  Net(d, k) = Net(c, k) + Volume(B, k)
<1> DEFINE m == [t \in Feed |-> Moved(t, k)]
           mb == [t \in Feed |-> IF t \in B THEN m[t] ELSE 0]
           gc == [t \in Feed |-> c[t] * Moved(t, k)]
           gd == [t \in Feed |-> d[t] * Moved(t, k)]
<1>1. m \in [Feed -> Int] /\ gc \in [Feed -> Int] /\ gd \in [Feed -> Int]
  BY MovedType
<1>2. \A t \in Feed : gd[t] = gc[t] + mb[t]
  <2> SUFFICES ASSUME NEW t \in Feed PROVE gd[t] = gc[t] + mb[t]
    OBVIOUS
  <2>1. Moved(t, k) \in Int /\ c[t] \in Nat
    BY MovedType
  <2>2. \A x \in Int, n \in Nat : (n + 1) * x = n * x + x
    OBVIOUS
  <2>3. (c[t] + 1) * Moved(t, k) = c[t] * Moved(t, k) + Moved(t, k)
    BY <2>1, <2>2
  <2>4. c[t] * Moved(t, k) \in Int
    BY <2>1
  <2> QED
    BY <2>3, <2>4
<1> HIDE DEF gc, gd
<1>3. PICK hc : IsTotal(hc, gc, Feed)
  BY <1>1, GoldAssumption, TotalExists
<1>4. PICK hm : IsTotal(hm, m, Feed)
  BY <1>1, GoldAssumption, TotalExists
<1>5. PICK hb : IsTotal(hb, mb, Feed) /\ hb[Feed] = hm[B]
  <2>1. /\ m \in [Feed -> Int] /\ B \in SUBSET Feed /\ IsTotal(hm, m, Feed)
        /\ \A t \in Feed : mb[t] = IF t \in B THEN m[t] ELSE 0
    BY <1>1, <1>4
  <2> HIDE DEF m, mb
  <2>3. \E f : IsTotal(f, mb, Feed) /\ f[Feed] = hm[B]
    BY ONLY <2>1, TotalWithin
  <2> QED
    BY <2>3
<1> DEFINE hd == [s \in SUBSET Feed |-> hc[s] + hb[s]]
<1>6. IsTotal(hd, gd, Feed)
  <2>1. /\ \A t \in Feed : gc[t] \in Int /\ mb[t] \in Int
        /\ \A s \in SUBSET Feed : hc[s] \in Int /\ hb[s] \in Int
    BY <1>1, <1>3, <1>5 DEF IsTotal
  <2> HIDE DEF mb
  <2>2. hd[{}] = 0
    BY <1>3, <1>5 DEF IsTotal
  <2>3. ASSUME NEW s \in SUBSET Feed, NEW t \in Feed, t \notin s
        PROVE  hd[s \cup {t}] = hd[s] + gd[t]
    <3>1. hc[s \cup {t}] = hc[s] + gc[t] /\ hb[s \cup {t}] = hb[s] + mb[t]
      BY <1>3, <1>5, <2>3 DEF IsTotal
    <3>2. s \cup {t} \in SUBSET Feed
      OBVIOUS
    <3> QED
      BY <1>2, <2>1, <3>1, <3>2
  <2>4. hd \in [SUBSET Feed -> Int]
    BY <2>1
  <2> HIDE DEF hd
  <2> QED
    BY <2>2, <2>3, <2>4 DEF IsTotal
<1>7. Net(d, k) = hd[Feed] /\ Net(c, k) = hc[Feed]
  <2>1. Sum(gd, Feed) = hd[Feed] /\ Sum(gc, Feed) = hc[Feed]
    <3> HIDE DEF hd
    <3> QED
      BY <1>1, <1>3, <1>6, GoldAssumption, SumIs
  <2> QED
    BY <2>1, NetSum DEF gc, gd
<1>8. hd[Feed] = hc[Feed] + hm[B]
  BY <1>5
<1>9. Volume(B, k) = hm[B]
  BY <1>4, VolumeTotal
<1> QED
  BY <1>7, <1>8, <1>9

LEMMA NetOfNone ==
  ASSUME NEW k, NEW c \in [Feed -> Nat], \A t \in Feed : c[t] = 0
  PROVE  Net(c, k) = 0
<1> DEFINE g == [t \in Feed |-> c[t] * Moved(t, k)]
           h == [s \in SUBSET Feed |-> 0]
<1>1. \A t \in Feed : g[t] = 0
  BY MovedType
<1>2. g \in [Feed -> Int]
  BY <1>1
<1>3. IsTotal(h, g, Feed)
  BY <1>1 DEF IsTotal
<1>4. Sum(g, Feed) = h[Feed]
  <2> HIDE DEF g, h
  <2> QED
    BY <1>2, <1>3, GoldAssumption, SumIs
<1> QED
  BY <1>4, NetSum

LEMMA NetType ==
  ASSUME NEW k, NEW c \in [Feed -> Nat]
  PROVE  Net(c, k) \in Int
<1> DEFINE g == [t \in Feed |-> c[t] * Moved(t, k)]
<1>1. g \in [Feed -> Int]
  BY MovedType
<1> HIDE DEF g
<1>2. PICK h : IsTotal(h, g, Feed)
  BY <1>1, GoldAssumption, TotalExists
<1>3. Sum(g, Feed) = h[Feed]
  BY <1>1, <1>2, GoldAssumption, SumIs
<1> QED
  BY <1>2, <1>3, NetSum DEF g, IsTotal

(* ------------------------ no update is lost --------------------------- *)

(* A trade moves, or may move, the position under a key.                   *)
Touches(t, k) == MakerFill(t).key = k \/ TakerFill(t).key = k

(* Steps at which a job holds positions it has computed.                   *)
Building == {"apply", "delete", "put", "ledger", "state"}

Applied(j) == job[j].batch \ job[j].todo

(* A batch is what Silver had of the day, is worked through in the order   *)
(* of time, and is done with before anything is written.                   *)
Worked ==
  \A j \in Jobs : pc[j] \in Holding =>
    /\ job[j].todo \subseteq job[j].batch /\ job[j].batch \subseteq silver
    /\ job[j].batch # {}
    /\ pc[j] = "load" => job[j].todo = job[j].batch
    /\ pc[j] \notin {"load", "apply"} => job[j].todo = {}
    /\ \A t \in Applied(j), u \in job[j].todo : t.ts <= u.ts

(* The version of a row is the time of a trade that is in the positions,   *)
(* or, in a job's book, of one it has applied.                             *)
Stamped ==
  /\ \A k \in Keys : position_state[k].last_fill_ts # NoTs =>
       \E t \in Feed : /\ commits[t] > 0 /\ Touches(t, k)
                       /\ t.ts = position_state[k].last_fill_ts
  /\ \A j \in Jobs, k \in Keys :
       pc[j] \in Building /\ job[j].book[k].last_fill_ts # NoTs =>
         \E t \in Feed : /\ commits[t] > 0 \/ t \in Applied(j)
                         /\ Touches(t, k) /\ t.ts = job[j].book[k].last_fill_ts

Sound == Without({"backfill", "overlap", "expire"})

(* The day a job works on is the newest in the positions, and its batch    *)
(* has every trade of that day that is there already.                      *)
Newest ==
  /\ \A t \in Feed : commits[t] > 0 => t \in silver
  /\ Sound =>
       \A j \in Jobs : pc[j] \in Holding \ {"mark", "write"} =>
         \A t \in Feed : commits[t] > 0 =>
           /\ DayOf(t.ts) <= job[j].day
           /\ DayOf(t.ts) = job[j].day => t \in job[j].batch

(* A job's book is what the positions will be: what is stored and what the *)
(* applied trades move.  A key whose quantity differs has the version of   *)
(* its last applied trade.                                                 *)
BookAhead ==
  Sound =>
    \A j \in Jobs : pc[j] \in Building =>
      \A k \in Keys :
        /\ job[j].book[k].qty = position_state[k].qty + Volume(Applied(j), k)
        /\ \/ job[j].book[k].qty = position_state[k].qty
           \/ \E t \in Applied(j) : t.ts = job[j].book[k].last_fill_ts
        /\ \A t \in Applied(j) : Touches(t, k) => t.ts <= job[j].book[k].last_fill_ts

UpdateInv ==
  /\ TypeOK /\ SingleJob /\ OwnDay /\ Worked /\ Stamped /\ Newest /\ BookAhead /\ NoUpdateLost

(* ------------------------ what a trade does --------------------------- *)

LEMMA BookMoves ==
  ASSUME NEW book \in [Keys -> PositionState], NEW t \in Feed, NEW f,
         f = MakerFill(t) \/ f = TakerFill(t), ~Rejected(t.maker_direction, t.qty)
  PROVE  /\ BookAfter(book, t, f) \in [Keys -> PositionState]
         /\ FillOf(book, t, f).position.qty = book[f.key].qty + SignedDelta(f.side, t.qty)
         /\ \A k \in Keys :
              /\ BookAfter(book, t, f)[k].qty =
                   book[k].qty + IF f.key = k THEN SignedDelta(f.side, t.qty) ELSE 0
              /\ BookAfter(book, t, f)[k].last_fill_ts =
                   IF f.key = k THEN t.ts ELSE book[k].last_fill_ts
<1>1. f.key \in Keys /\ t.qty \in Int /\ t.price \in Int /\ t.ts \in Int
  BY FillTypes
<1>2. ~Rejected(f.side, t.qty)
  BY GoldAssumption DEF MakerFill, TakerFill, Opposite, Rejected, Trade
<1>3. book[f.key] \in PositionState
  BY <1>1
<1>4. /\ FillOf(book, t, f).position.qty = book[f.key].qty + SignedDelta(f.side, t.qty)
      /\ FillOf(book, t, f).position.last_fill_ts = t.ts
  BY <1>1, <1>2, <1>3, ApplyFillMoves DEF FillOf
<1>5. \A k \in Keys : book[k].qty \in Int
  BY DEF PositionState
<1>6. BookAfter(book, t, f) = [book EXCEPT ![f.key] = FillOf(book, t, f).position]
  BY DEF BookAfter
<1> QED
  BY <1>1, <1>4, <1>5, <1>6, BookTypes

(* The two fills of a trade, one after the other.                          *)
LEMMA TradeMoves ==
  ASSUME NEW book \in [Keys -> PositionState], NEW t \in Feed,
         ~Rejected(t.maker_direction, t.qty),
         NEW after, after = BookAfter(BookAfter(book, t, MakerFill(t)), t, TakerFill(t))
  PROVE  /\ after \in [Keys -> PositionState]
         /\ \A k \in Keys :
              /\ after[k].qty = book[k].qty + Moved(t, k)
              /\ after[k].last_fill_ts = IF Touches(t, k) THEN t.ts ELSE book[k].last_fill_ts
<1> DEFINE mid == BookAfter(book, t, MakerFill(t))
<1>1. /\ mid \in [Keys -> PositionState]
      /\ \A k \in Keys :
           /\ mid[k].qty = book[k].qty
                + IF MakerFill(t).key = k THEN SignedDelta(MakerFill(t).side, t.qty) ELSE 0
           /\ mid[k].last_fill_ts = IF MakerFill(t).key = k THEN t.ts ELSE book[k].last_fill_ts
  BY BookMoves
<1> HIDE DEF mid
<1>2. /\ after \in [Keys -> PositionState]
      /\ \A k \in Keys :
           /\ after[k].qty = mid[k].qty
                + IF TakerFill(t).key = k THEN SignedDelta(TakerFill(t).side, t.qty) ELSE 0
           /\ after[k].last_fill_ts = IF TakerFill(t).key = k THEN t.ts ELSE mid[k].last_fill_ts
  BY <1>1, BookMoves DEF mid
<1>3. /\ \A k \in Keys : book[k].qty \in Int
      /\ SignedDelta(MakerFill(t).side, t.qty) \in Int
      /\ SignedDelta(TakerFill(t).side, t.qty) \in Int
  BY FillTypes DEF PositionState, SignedDelta
<1>4. \A k \in Keys : after[k].qty = book[k].qty + Moved(t, k)
  BY <1>1, <1>2, <1>3 DEF Moved
<1> QED
  BY <1>1, <1>2, <1>4 DEF Touches

(* --------------------- effects on the positions ----------------------- *)

Aside == UNCHANGED <<commits, position_state, ledger, partition>>

(* Steps of a job that has no day in hand after them.                      *)
LEMMA OutsideEffect ==
  ASSUME TypeOK, NEW j \in Jobs, Leaves(j) \/ PassCheck(j) \/ CheckFails(j)
  PROVE  /\ silver' = silver /\ Elsewhere(j) /\ Aside
         /\ pc'[j] \notin Holding
<1>1. CASE Leaves(j)
  <2>1. Aside
    BY <1>1 DEF Leaves, SkipDay, ReadNothing, MarkPut, Raise, Crash, Start, Aside, store
  <2> QED
    BY <1>1, <2>1, LeavesEffect DEF Holding
<1>2. CASE PassCheck(j) \/ CheckFails(j)
  BY <1>2 DEF PassCheck, CheckFails, Admit, TypeOK, store, Elsewhere, Holding, Aside
<1> QED
  BY <1>1, <1>2

LEMMA ReadStep ==
  ASSUME TypeOK, NEW j \in Jobs, Read(j)
  PROVE  /\ silver' = silver /\ Elsewhere(j) /\ Aside
         /\ pc[j] = "read" /\ pc'[j] = "load"
         /\ job'[j] = [job[j] EXCEPT !.batch = TradesOf(silver, job[j].day),
                                     !.todo = TradesOf(silver, job[j].day)]
         /\ TradesOf(silver, job[j].day) # {}
         /\ Sound' => ~Overtaken(job[j].day)
         /\ Repeated(job[j].day) /\ job[j].force => "force" \in events'
  BY DEF Read, TypeOK, JobRecord, store, Elsewhere, Aside, Sound, Without

LEMMA LoadStep ==
  ASSUME TypeOK, NEW j \in Jobs, Load(j)
  PROVE  /\ silver' = silver /\ Elsewhere(j) /\ Aside
         /\ pc[j] = "load" /\ pc'[j] = "apply"
         /\ job'[j] = [job[j] EXCEPT !.book = OpenPositions]
  BY DEF Load, TypeOK, JobRecord, store, Elsewhere, Aside

LEMMA StoreStep ==
  ASSUME TypeOK, NEW j \in Jobs, DeletePartition(j) \/ PutPartition(j) \/ InsertLedger(j)
  PROVE  /\ silver' = silver /\ Elsewhere(j) /\ job' = job
         /\ UNCHANGED <<commits, position_state>>
         /\ pc[j] \in Building \ {"apply", "state"} /\ pc'[j] \in Building \ {"apply"}
         /\ InsertLedger(j) \/ UNCHANGED ledger
         /\ InsertLedger(j) <=> pc'[j] = "state"
  BY DEF DeletePartition, PutPartition, InsertLedger, TypeOK, Elsewhere, Building

(* One trade is taken from what is to do and applied to the book.          *)
LEMMA ApplyStep ==
  ASSUME TypeOK, NEW j \in Jobs, Apply(j)
  PROVE  /\ silver' = silver /\ Elsewhere(j) /\ Aside
         /\ pc[j] = "apply" /\ pc'[j] \in {"apply", "delete"}
         /\ pc'[j] = "delete" => job'[j].todo = {}
         /\ job'[j].day = job[j].day /\ job'[j].batch = job[j].batch
         /\ \E t \in job[j].todo :
              /\ t \in Feed /\ ~Rejected(t.maker_direction, t.qty)
              /\ \A u \in job[j].todo : t.ts <= u.ts
              /\ job'[j].todo = job[j].todo \ {t}
              /\ job'[j].book = BookAfter(BookAfter(job[j].book, t, MakerFill(t)), t, TakerFill(t))
              /\ job'[j].rows = job[j].rows
                   \o <<LedgerRow(job[j].book, t, MakerFill(t)),
                        LedgerRow(BookAfter(job[j].book, t, MakerFill(t)), t, TakerFill(t))>>
<1>0. job[j] \in JobRecord /\ job[j].todo \subseteq Feed
  BY DEF TypeOK, JobRecord
<1>1. PICK t \in Earliest(job[j].todo) :
        LET before == job[j].book
            mid == BookAfter(before, t, MakerFill(t))
            rest == job[j].todo \ {t}
        IN  /\ ~Rejected(t.maker_direction, t.qty)
            /\ job' = [job EXCEPT
                 ![j].book = BookAfter(mid, t, TakerFill(t)),
                 ![j].rows = @ \o <<LedgerRow(before, t, MakerFill(t)),
                                    LedgerRow(mid, t, TakerFill(t))>>,
                 ![j].todo = rest]
            /\ pc' = [pc EXCEPT ![j] = IF rest = {} THEN "delete" ELSE "apply"]
  BY DEF Apply
<1> DEFINE before == job[j].book
           mid == BookAfter(before, t, MakerFill(t))
           after == BookAfter(mid, t, TakerFill(t))
           rows == job[j].rows \o <<LedgerRow(before, t, MakerFill(t)), LedgerRow(mid, t, TakerFill(t))>>
           rest == job[j].todo \ {t}
<1>2. /\ job' = [job EXCEPT ![j] = [job[j] EXCEPT !.book = after, !.rows = rows, !.todo = rest]]
      /\ pc' = [pc EXCEPT ![j] = IF rest = {} THEN "delete" ELSE "apply"]
  BY <1>0, <1>1 DEF TypeOK, JobRecord
<1>3. t \in job[j].todo /\ \A u \in job[j].todo : t.ts <= u.ts
  BY DEF Earliest
<1>4. /\ silver' = silver /\ Aside /\ pc[j] = "apply"
  BY DEF Apply, store, Aside
<1> HIDE DEF after, rows, rest
<1>5. /\ job'[j].book = after /\ job'[j].rows = rows /\ job'[j].todo = rest
      /\ job'[j].day = job[j].day /\ job'[j].batch = job[j].batch
      /\ pc'[j] \in {"apply", "delete"} /\ (pc'[j] = "delete" => rest = {})
      /\ Elsewhere(j)
  BY <1>0, <1>2 DEF TypeOK, JobRecord, Elsewhere
<1> QED
  BY <1>0, <1>1, <1>3, <1>4, <1>5 DEF after, rows, rest

(* What a step may do, as far as batches and positions are concerned.      *)
LEMMA StepKinds ==
  ASSUME TypeOK, [Next]_vars
  PROVE  \/ /\ UNCHANGED <<commits, position_state, ledger, partition, processed, pc, job>>
            /\ silver \subseteq silver'
         \/ \E k \in Keys : Expire(k)
         \/ \E j \in Jobs : \/ Leaves(j) \/ PassCheck(j) \/ CheckFails(j)
                            \/ Read(j) \/ Load(j) \/ Apply(j)
                            \/ DeletePartition(j) \/ PutPartition(j) \/ InsertLedger(j)
                            \/ InsertPositions(j) \/ MarkGet(j)
<1>1. CASE NextDay \/ (\E t \in Feed : Arrive(t)) \/ UNCHANGED vars
  BY <1>1 DEF NextDay, Arrive, vars, store
<1>2. CASE \E j \in Jobs : JobStep(j)
  BY <1>2 DEF JobStep, Leaves
<1> QED
  BY <1>1, <1>2 DEF Next

LEMMA StepWorked ==
  ASSUME TypeOK, Worked, [Next]_vars
  PROVE  Worked'
<1> DEFINE W(i) ==
             pc[i] \in Holding =>
               /\ job[i].todo \subseteq job[i].batch /\ job[i].batch \subseteq silver
               /\ job[i].batch # {}
               /\ pc[i] = "load" => job[i].todo = job[i].batch
               /\ pc[i] \notin {"load", "apply"} => job[i].todo = {}
               /\ \A t \in job[i].batch \ job[i].todo, u \in job[i].todo : t.ts <= u.ts
<1>0. \A i \in Jobs : W(i)
  BY DEF Worked, Applied
<1> SUFFICES ASSUME NEW i \in Jobs PROVE W(i)'
  BY DEF Worked, Applied
<1>1. CASE /\ UNCHANGED <<pc, job>>
           /\ silver \subseteq silver'
  BY <1>0, <1>1
<1>2. CASE \E k \in Keys : Expire(k)
  BY <1>1, <1>2 DEF Expire
<1>3. ASSUME NEW j \in Jobs,
             \/ Leaves(j) \/ PassCheck(j) \/ CheckFails(j)
             \/ Read(j) \/ Load(j) \/ Apply(j)
             \/ DeletePartition(j) \/ PutPartition(j) \/ InsertLedger(j)
             \/ InsertPositions(j) \/ MarkGet(j)
      PROVE  W(i)'
  <2>1. silver' = silver /\ (i # j => pc'[i] = pc[i] /\ job'[i] = job[i])
    BY <1>3, OutsideEffect, ReadStep, LoadStep, ApplyStep, StoreStep, InsertEffect, MarkGetEffect
       DEF Elsewhere
  <2>2. CASE i # j
    BY <1>0, <2>1, <2>2
  <2>3. CASE i = j
    <3> USE <2>3
    <3>1. CASE Leaves(j) \/ PassCheck(j) \/ CheckFails(j)
      BY <3>1, OutsideEffect
    <3>2. CASE Read(j)
      <4> DEFINE day == TradesOf(silver, job[j].day)
      <4>1. job'[j].batch = day /\ job'[j].todo = day
        BY <3>2, ReadStep DEF TypeOK, JobRecord
      <4>2. day # {} /\ day \subseteq silver
        BY <3>2, ReadStep DEF TradesOf
      <4> HIDE DEF day
      <4> QED
        BY <2>1, <3>2, <4>1, <4>2, ReadStep
    <3>3. CASE Load(j)
      <4>1. job'[j].batch = job[j].batch /\ job'[j].todo = job[j].todo
        BY <3>3, LoadStep DEF TypeOK, JobRecord
      <4> QED
        BY <1>0, <2>1, <3>3, <4>1, LoadStep DEF Holding
    <3>4. CASE Apply(j)
      <4>1. PICK t \in job[j].todo :
              /\ t \in Feed
              /\ \A u \in job[j].todo : t.ts <= u.ts
              /\ job'[j].todo = job[j].todo \ {t}
        BY <3>4, ApplyStep
      <4>2. /\ job'[j].batch = job[j].batch /\ pc[j] = "apply" /\ pc'[j] \in {"apply", "delete"}
            /\ pc'[j] = "delete" => job'[j].todo = {}
        BY <3>4, ApplyStep
      <4> QED
        BY <1>0, <2>1, <4>1, <4>2 DEF Holding
    <3>5. CASE DeletePartition(j) \/ PutPartition(j) \/ InsertLedger(j)
      BY <1>0, <2>1, <3>5, StoreStep DEF Holding, Building
    <3>6. CASE InsertPositions(j)
      BY <1>0, <2>1, <3>6, InsertEffect DEF Holding
    <3>7. CASE MarkGet(j)
      <4>1. job'[j].todo = job[j].todo
        BY <3>7 DEF MarkGet, TypeOK, JobRecord
      <4> QED
        BY <1>0, <2>1, <3>7, <4>1, MarkGetEffect DEF Holding
    <3> QED
      BY <1>3, <3>1, <3>2, <3>3, <3>4, <3>5, <3>6, <3>7
  <2> QED
    BY <2>2, <2>3
<1> QED
  BY <1>1, <1>2, <1>3, StepKinds

(* What InsertPositions leaves under a key.                                *)
LEMMA InsertStep ==
  ASSUME TypeOK, NEW j \in Jobs, InsertPositions(j)
  PROVE  /\ UNCHANGED <<ledger, partition>> /\ Elsewhere(j)
         /\ \A k \in Keys : \/ /\ position_state'[k] = job[j].book[k]
                               /\ job[j].book[k].last_fill_ts # NoTs
                            \/ /\ position_state'[k] = position_state[k]
                               /\ \/ job[j].book[k].last_fill_ts = NoTs
                                  \/ job[j].book[k].last_fill_ts < position_state[k].last_fill_ts
<1>1. \A k \in Keys : /\ job[j].book[k].last_fill_ts \in Int
                      /\ position_state[k].last_fill_ts \in Int
  BY DEF TypeOK, JobRecord, PositionState
<1> QED
  BY <1>1 DEF InsertPositions, Survivor, Elsewhere

LEMMA ExpireStep ==
  ASSUME TypeOK, NEW k \in Keys, Expire(k)
  PROVE  /\ UNCHANGED <<commits, ledger, partition, processed, pc, job, silver>>
         /\ position_state' = [position_state EXCEPT ![k] = EmptyPosition]
         /\ position_state[k].qty = 0 \/ "expire" \in events'
  BY DEF Expire, Admit

LEMMA StepStamped ==
  ASSUME TypeOK, Worked, Stamped, [Next]_vars
  PROVE  Stamped'
<1> DEFINE Of(k, ts, T) == \E t \in Feed : t \in T /\ Touches(t, k) /\ t.ts = ts
           In == {t \in Feed : commits[t] > 0}
           S(k) == position_state[k].last_fill_ts # NoTs => Of(k, position_state[k].last_fill_ts, In)
           B(i) == pc[i] \in Building =>
                     \A k \in Keys : job[i].book[k].last_fill_ts # NoTs =>
                       Of(k, job[i].book[k].last_fill_ts, In \cup Applied(i))
<1>0. (\A k \in Keys : S(k)) /\ (\A i \in Jobs : B(i))
  BY DEF Stamped
<1> SUFFICES (\A k \in Keys : S(k)') /\ (\A i \in Jobs : B(i)')
  BY DEF Stamped
<1>a. In \subseteq In'
  BY StepGrows, StepType DEF Accrues, TypeOK
<1>b. \A k, ts, T, U : Of(k, ts, T) /\ T \subseteq U => Of(k, ts, U)
  OBVIOUS
<1> HIDE DEF Of, In
<1>c. ASSUME NEW i \in Jobs, pc'[i] = pc[i], job'[i] = job[i]
      PROVE  B(i)'
  <2>1. In \cup Applied(i) \subseteq (In \cup Applied(i))'
    BY <1>a, <1>c DEF Applied
  <2> QED
    BY <1>0, <1>b, <1>c, <2>1
<1>d. ASSUME position_state' = position_state PROVE \A k \in Keys : S(k)'
  BY <1>0, <1>a, <1>b, <1>d
<1>1. CASE UNCHANGED <<commits, position_state, pc, job>>
  BY <1>1, <1>c, <1>d
<1>2. ASSUME NEW k \in Keys, Expire(k) PROVE (\A i \in Keys : S(i)') /\ (\A i \in Jobs : B(i)')
  <2>1. \A i \in Keys : position_state'[i] = position_state[i]
                        \/ position_state'[i].last_fill_ts = NoTs
    BY <1>2, ExpireStep DEF TypeOK, EmptyPosition
  <2> QED
    BY <1>0, <1>2, <1>a, <1>b, <1>c, <2>1, ExpireStep
<1>3. ASSUME NEW j \in Jobs,
             \/ Leaves(j) \/ PassCheck(j) \/ CheckFails(j)
             \/ Read(j) \/ Load(j) \/ Apply(j)
             \/ DeletePartition(j) \/ PutPartition(j) \/ InsertLedger(j) \/ MarkGet(j)
      PROVE  (\A k \in Keys : S(k)') /\ (\A i \in Jobs : B(i)')
  <2>1. \A i \in Jobs \ {j} : pc'[i] = pc[i] /\ job'[i] = job[i]
    BY <1>3, OutsideEffect, ReadStep, LoadStep, ApplyStep, StoreStep, MarkGetEffect
       DEF Elsewhere
  <2>2. position_state' = position_state
    <3>1. MarkGet(j) => position_state' = position_state
      BY DEF MarkGet, store
    <3> QED
      BY <1>3, <3>1, OutsideEffect, ReadStep, LoadStep, ApplyStep, StoreStep DEF Aside
  <2>3. B(j)'
    <3>1. CASE Leaves(j) \/ PassCheck(j) \/ CheckFails(j) \/ Read(j) \/ MarkGet(j)
      BY <3>1, OutsideEffect, ReadStep, MarkGetEffect DEF Holding, Building
    <3>2. CASE Load(j)
      <4>1. /\ job'[j].book = OpenPositions
            /\ job'[j].batch = job[j].batch /\ job'[j].todo = job[j].todo
        <5>1. job[j] \in JobRecord
          BY DEF TypeOK
        <5> QED
          BY <3>2, <5>1, LoadStep DEF JobRecord
      <4>2. \A k \in Keys : OpenPositions[k] = position_state[k]
                            \/ OpenPositions[k].last_fill_ts = NoTs
        BY DEF OpenPositions, EmptyPosition
      <4>3. ASSUME NEW k \in Keys, job'[j].book[k].last_fill_ts # NoTs
            PROVE  Of(k, job'[j].book[k].last_fill_ts, (In \cup Applied(j))')
        <5>1. job'[j].book[k] = position_state[k] /\ position_state[k].last_fill_ts # NoTs
          BY <4>1, <4>2, <4>3
        <5>2. Of(k, position_state[k].last_fill_ts, In)
          BY <1>0, <5>1
        <5> QED
          BY <1>a, <1>b, <5>1, <5>2
      <4> QED
        BY <4>3
    <3>3. CASE Apply(j)
      <4>1. PICK t \in job[j].todo :
              /\ t \in Feed /\ ~Rejected(t.maker_direction, t.qty)
              /\ job'[j].todo = job[j].todo \ {t}
              /\ job'[j].book = BookAfter(BookAfter(job[j].book, t, MakerFill(t)), t, TakerFill(t))
        BY <3>3, ApplyStep
      <4>2. \A k \in Keys : job'[j].book[k].last_fill_ts
                              = IF Touches(t, k) THEN t.ts ELSE job[j].book[k].last_fill_ts
        <5>1. job[j].book \in [Keys -> PositionState]
          BY DEF TypeOK, JobRecord
        <5> QED
          BY <4>1, <5>1, TradeMoves
      <4>3. pc[j] = "apply" /\ job'[j].batch = job[j].batch
        BY <3>3, ApplyStep
      <4>4. t \in Applied(j)' /\ Applied(j) \subseteq Applied(j)'
        BY <4>1, <4>3 DEF Applied, Worked, Holding
      <4>5. ASSUME NEW k \in Keys, job'[j].book[k].last_fill_ts # NoTs
            PROVE  Of(k, job'[j].book[k].last_fill_ts, (In \cup Applied(j))')
        <5>1. CASE Touches(t, k)
          BY <4>1, <4>2, <4>4, <5>1 DEF Of
        <5>2. CASE ~Touches(t, k)
          <6>1. Of(k, job[j].book[k].last_fill_ts, In \cup Applied(j))
            BY <1>0, <4>2, <4>3, <4>5, <5>2 DEF Building
          <6> QED
            BY <1>a, <1>b, <4>2, <4>4, <5>2, <6>1
        <5> QED
          BY <5>1, <5>2
      <4> QED
        BY <4>5
    <3>4. CASE DeletePartition(j) \/ PutPartition(j) \/ InsertLedger(j)
      <4>1. In \cup Applied(j) \subseteq (In \cup Applied(j))'
        BY <1>a, <3>4, StoreStep DEF Applied
      <4> QED
        BY <1>0, <1>b, <3>4, <4>1, StoreStep
    <3> QED
      BY <1>3, <3>1, <3>2, <3>3, <3>4
  <2> QED
    BY <1>c, <1>d, <2>1, <2>2, <2>3
<1>4. ASSUME NEW j \in Jobs, InsertPositions(j)
      PROVE  (\A k \in Keys : S(k)') /\ (\A i \in Jobs : B(i)')
  <2>1. \A i \in Jobs \ {j} : B(i)'
    BY <1>4, <1>c, InsertStep DEF Elsewhere
  <2>2. B(j)'
    BY <1>4, InsertEffect DEF Building
  <2>3. pc[j] = "state" /\ Applied(j) \subseteq In'
    <3>1. \A t \in job[j].batch : t \in Feed /\ commits'[t] >= 1
      BY <1>4, InsertEffect DEF TypeOK, JobRecord
    <3>2. \A t \in Feed : commits'[t] \in Nat
      BY StepType DEF TypeOK
    <3> QED
      BY <1>4, <3>1, <3>2, InsertEffect DEF Applied, In
  <2>4. \A k \in Keys : S(k)'
    BY <1>0, <1>4, <1>a, <1>b, <2>3, InsertStep DEF Building
  <2> QED
    BY <2>1, <2>2, <2>4
<1> QED
  BY <1>1, <1>2, <1>3, <1>4, StepKinds

(* Days come in the order of time.                                         *)
LEMMA DayMonotone ==
  ASSUME NEW a \in Nat, NEW b \in Nat, DayOf(a) < DayOf(b)
  PROVE  a < b
<1> SUFFICES ASSUME b <= a PROVE DayOf(b) <= DayOf(a)
  <2>1. DayOf(a) \in Int /\ DayOf(b) \in Int
    BY GoldAssumption DEF DayOf
  <2> QED
    BY <2>1
<1>1. PICK d \in Nat \ {0} : d = DayLength
  BY GoldAssumption
<1>2. \A m, n \in Nat : m <= n => m \div d <= n \div d
  OBVIOUS
<1> QED
  BY <1>1, <1>2 DEF DayOf

LEMMA StepNewest ==
  ASSUME TypeOK, SingleJob, OwnDay, Worked, Newest, [Next]_vars
  PROVE  Newest'
<1> DEFINE Seen == \A t \in Feed : commits[t] > 0 => t \in silver
           N(i) == pc[i] \in Holding \ {"mark", "write"} =>
                     \A t \in Feed : commits[t] > 0 =>
                       /\ DayOf(t.ts) <= job[i].day
                       /\ DayOf(t.ts) = job[i].day => t \in job[i].batch
<1>0. Seen /\ (Sound => \A i \in Jobs : N(i))
  BY DEF Newest
<1>a. Sound' => Sound /\ Without({"overlap"})
  BY StepGrows, WithoutBefore DEF Sound, Without
<1> SUFFICES Seen' /\ (Sound' => \A i \in Jobs : N(i)')
  BY DEF Newest, Sound, Without
<1>1. CASE /\ UNCHANGED <<commits, pc, job>>
           /\ silver \subseteq silver'
  BY <1>0, <1>1, <1>a
<1>2. CASE \E k \in Keys : Expire(k)
  BY <1>1, <1>2, ExpireStep
<1>3. ASSUME NEW j \in Jobs,
             \/ Leaves(j) \/ PassCheck(j) \/ CheckFails(j)
             \/ Read(j) \/ Load(j) \/ Apply(j)
             \/ DeletePartition(j) \/ PutPartition(j) \/ InsertLedger(j) \/ MarkGet(j)
      PROVE  Seen' /\ (Sound' => \A i \in Jobs : N(i)')
  <2>1. /\ silver' = silver /\ commits' = commits
        /\ \A i \in Jobs \ {j} : pc'[i] = pc[i] /\ job'[i] = job[i]
    BY <1>3, OutsideEffect, ReadStep, LoadStep, ApplyStep, StoreStep, MarkGetEffect
       DEF Elsewhere, Aside
  <2>2. Sound' => N(j)'
    <3>1. CASE Leaves(j) \/ PassCheck(j) \/ CheckFails(j) \/ MarkGet(j)
      BY <3>1, OutsideEffect, MarkGetEffect
    <3>2. CASE Read(j)
      <4>1. job'[j].day = job[j].day /\ job'[j].batch = TradesOf(silver, job[j].day)
        BY <3>2, ReadEffect
      <4>2. job[j].day \in Int /\ \A t \in Feed : DayOf(t.ts) \in Int
        BY GoldAssumption DEF TypeOK, JobRecord, Days, DayOf, Trade
      <4>3. ASSUME Sound', NEW t \in Feed, commits[t] > 0
            PROVE  /\ DayOf(t.ts) <= job[j].day
                   /\ DayOf(t.ts) = job[j].day => t \in TradesOf(silver, job[j].day)
        <5>1. ~(DayOf(t.ts) > job[j].day)
          BY <3>2, <4>3, ReadStep DEF Overtaken
        <5>2. t \in silver
          BY <1>0, <4>3
        <5> QED
          BY <4>2, <5>1, <5>2 DEF TradesOf
      <4> QED
        BY <2>1, <4>1, <4>3
    <3>3. CASE Load(j) \/ Apply(j) \/ DeletePartition(j) \/ PutPartition(j) \/ InsertLedger(j)
      <4>1. job'[j].day = job[j].day /\ job'[j].batch = job[j].batch
            /\ pc[j] \in Holding \ {"mark", "write"}
        BY <3>3, QuietEffect, LoadStep, ApplyStep, StoreStep DEF Quiet, Building, Holding
      <4> QED
        BY <1>0, <1>a, <2>1, <4>1
    <3> QED
      BY <1>3, <3>1, <3>2, <3>3
  <2> QED
    BY <1>0, <1>a, <2>1, <2>2
<1>4. ASSUME NEW j \in Jobs, InsertPositions(j)
      PROVE  Seen' /\ (Sound' => \A i \in Jobs : N(i)')
  <2>1. Seen'
    <3>1. job[j].batch \subseteq silver
      BY <1>4, InsertEffect DEF Worked, Holding
    <3> QED
      BY <1>0, <1>4, <3>1, CommitsGrow, InsertEffect
  <2>2. ASSUME Sound', NEW i \in Jobs, pc'[i] # "idle" PROVE i = j
    BY <1>4, <1>a, <2>2, InsertEffect, InsertStep DEF SingleJob, Elsewhere
  <2>3. pc'[j] = "mark"
    BY <1>4, InsertEffect
  <2> QED
    BY <2>1, <2>2, <2>3 DEF Holding
<1> QED
  BY <1>1, <1>2, <1>3, <1>4, StepKinds

(* What the book says is what the insert leaves: where the row stays       *)
(* because the book has an older version, the quantity is the same.        *)
LEMMA InsertKeeps ==
  ASSUME TypeOK, OwnDay, Worked, Stamped, Newest, BookAhead, Sound,
         NEW j \in Jobs, InsertPositions(j), NEW k \in Keys
  PROVE  position_state'[k].qty = job[j].book[k].qty
<1> DEFINE b == job[j].book[k]
           old == position_state[k]
<1>1. pc[j] = "state" /\ job[j].todo = {} /\ Applied(j) = job[j].batch
  BY InsertEffect DEF Worked, Holding, Applied
<1>2. /\ b.last_fill_ts \in Int /\ old.last_fill_ts \in Int
  BY DEF TypeOK, JobRecord, PositionState
<1>3. CASE position_state'[k] = job[j].book[k]
  BY <1>3
<1>4. CASE /\ position_state'[k] = position_state[k]
           /\ b.last_fill_ts = NoTs \/ b.last_fill_ts < old.last_fill_ts
  <2> SUFFICES ASSUME b.qty # old.qty PROVE FALSE
    BY <1>4
  <2>1. PICK t \in job[j].batch : t.ts = b.last_fill_ts
    BY <1>1 DEF BookAhead, Building
  <2>2. t \in Feed /\ t.ts \in Nat \ {0} /\ DayOf(t.ts) = job[j].day
    BY <1>1, GoldAssumption DEF TypeOK, JobRecord, OwnDay, Holding, Trade
  <2>3. old.last_fill_ts # NoTs /\ t.ts < old.last_fill_ts
    BY <1>2, <1>4, <2>1, <2>2 DEF NoTs
  <2>4. PICK u \in Feed : commits[u] > 0 /\ Touches(u, k) /\ u.ts = old.last_fill_ts
    BY <2>3 DEF Stamped
  <2>5. u.ts \in Nat
    BY GoldAssumption DEF Trade
  <2>6. /\ DayOf(u.ts) <= job[j].day
        /\ DayOf(u.ts) = job[j].day => u \in job[j].batch
    BY <1>1, <2>4 DEF Newest, Holding
  <2>7. CASE DayOf(u.ts) = job[j].day
    <3>1. u.ts <= b.last_fill_ts
      BY <1>1, <2>4, <2>6, <2>7 DEF BookAhead, Building
    <3> QED
      BY <1>2, <2>1, <2>2, <2>3, <2>4, <3>1
  <2>8. CASE DayOf(u.ts) # job[j].day
    <3>1. DayOf(u.ts) < DayOf(t.ts)
      BY <2>2, <2>5, <2>6, <2>8, GoldAssumption DEF DayOf
    <3>2. u.ts < t.ts
      BY <2>2, <2>5, <3>1, DayMonotone
    <3> QED
      BY <2>2, <2>3, <2>4, <2>5, <3>2
  <2> QED
    BY <2>7, <2>8
<1> QED
  BY <1>3, <1>4, InsertStep

LEMMA OpenQuantities ==
  ASSUME TypeOK, NEW k \in Keys
  PROVE  OpenPositions[k].qty = position_state[k].qty
  BY DEF OpenPositions, EmptyPosition

LEMMA ExpireQuantities ==
  ASSUME TypeOK, NEW e \in Keys, Expire(e), "expire" \notin events', NEW k \in Keys
  PROVE  position_state'[k].qty = position_state[k].qty
  BY ExpireStep DEF TypeOK, EmptyPosition

LEMMA AppliedMore ==
  ASSUME TypeOK, Worked, NEW j \in Jobs, Apply(j)
  PROVE  \E t \in job[j].todo :
           /\ t \in Feed /\ t \notin Applied(j) /\ Applied(j) \subseteq Feed
           /\ Applied(j)' = Applied(j) \cup {t}
           /\ \A u \in Applied(j) : u.ts <= t.ts
           /\ \A k \in Keys :
                /\ job'[j].book[k].qty = job[j].book[k].qty + Moved(t, k)
                /\ job'[j].book[k].last_fill_ts
                     = IF Touches(t, k) THEN t.ts ELSE job[j].book[k].last_fill_ts
<1>1. PICK t \in job[j].todo :
        /\ t \in Feed /\ ~Rejected(t.maker_direction, t.qty)
        /\ job'[j].todo = job[j].todo \ {t}
        /\ job'[j].book = BookAfter(BookAfter(job[j].book, t, MakerFill(t)), t, TakerFill(t))
  BY ApplyStep
<1>2. pc[j] = "apply" /\ job'[j].batch = job[j].batch
  BY ApplyStep
<1>3. /\ t \notin Applied(j) /\ Applied(j) \subseteq Feed
      /\ Applied(j)' = Applied(j) \cup {t}
      /\ \A u \in Applied(j) : u.ts <= t.ts
  BY <1>1, <1>2 DEF Applied, Worked, Holding, TypeOK, JobRecord
<1>4. job[j].book \in [Keys -> PositionState]
  BY DEF TypeOK, JobRecord
<1> QED
  BY <1>1, <1>3, <1>4, TradeMoves

LEMMA StepBookAhead ==
  ASSUME TypeOK, SingleJob, Worked, BookAhead, [Next]_vars
  PROVE  BookAhead'
<1> DEFINE A(i) == pc[i] \in Building =>
             \A k \in Keys :
               /\ job[i].book[k].qty = position_state[k].qty + Volume(Applied(i), k)
               /\ \/ job[i].book[k].qty = position_state[k].qty
                  \/ \E t \in Applied(i) : t.ts = job[i].book[k].last_fill_ts
               /\ \A t \in Applied(i) : Touches(t, k) => t.ts <= job[i].book[k].last_fill_ts
<1> SUFFICES ASSUME Sound' PROVE \A i \in Jobs : A(i)'
  BY DEF BookAhead, Sound, Without
<1>0. /\ Sound /\ \A i \in Jobs : A(i)
      /\ \A i, j \in Jobs : pc[i] # "idle" /\ pc[j] # "idle" => i = j
      /\ "expire" \notin events'
  BY StepGrows, WithoutBefore DEF Sound, BookAhead, SingleJob, Without
<1>a. \A i \in Jobs : Applied(i) \subseteq Feed
  BY DEF Applied, TypeOK, JobRecord
<1>b. ASSUME NEW i \in Jobs, pc'[i] = pc[i], job'[i] = job[i],
             \A k \in Keys : position_state'[k].qty = position_state[k].qty
      PROVE  A(i)'
  <2>1. Applied(i)' = Applied(i)
    BY <1>b DEF Applied
  <2> QED
    BY <1>0, <1>b, <2>1
<1>1. CASE UNCHANGED <<position_state, pc, job>>
  BY <1>1, <1>b
<1>2. ASSUME NEW k \in Keys, Expire(k) PROVE \A i \in Jobs : A(i)'
  BY <1>0, <1>2, <1>b, ExpireStep, ExpireQuantities
<1>3. ASSUME NEW j \in Jobs,
             \/ Leaves(j) \/ PassCheck(j) \/ CheckFails(j)
             \/ Read(j) \/ Load(j) \/ Apply(j)
             \/ DeletePartition(j) \/ PutPartition(j) \/ InsertLedger(j) \/ MarkGet(j)
      PROVE  \A i \in Jobs : A(i)'
  <2>1. \A i \in Jobs \ {j} : pc'[i] = pc[i] /\ job'[i] = job[i]
    BY <1>3, OutsideEffect, ReadStep, LoadStep, ApplyStep, StoreStep, MarkGetEffect
       DEF Elsewhere
  <2>2. position_state' = position_state
    <3>1. MarkGet(j) => position_state' = position_state
      BY DEF MarkGet, store
    <3> QED
      BY <1>3, <3>1, OutsideEffect, ReadStep, LoadStep, ApplyStep, StoreStep DEF Aside
  <2>3. A(j)'
    <3>1. CASE Leaves(j) \/ PassCheck(j) \/ CheckFails(j) \/ Read(j) \/ MarkGet(j)
      BY <3>1, OutsideEffect, ReadStep, MarkGetEffect DEF Holding, Building
    <3>2. CASE Load(j)
      <4>0. job[j] \in JobRecord
        BY DEF TypeOK
      <4>1. /\ job'[j].book = OpenPositions
            /\ job'[j].batch = job[j].batch /\ job'[j].todo = job[j].todo
        BY <3>2, <4>0, LoadStep DEF JobRecord
      <4>2. Applied(j)' = {}
        BY <3>2, <4>1, LoadStep DEF Applied, Worked, Holding
      <4>3. \A k \in Keys : position_state[k].qty \in Int
        BY DEF TypeOK, PositionState
      <4> QED
        BY <2>2, <4>1, <4>2, <4>3, OpenQuantities, VolumeOfNone
    <3>3. CASE Apply(j)
      <4>1. PICK t \in job[j].todo :
              /\ t \in Feed /\ t \notin Applied(j) /\ Applied(j) \subseteq Feed
              /\ Applied(j)' = Applied(j) \cup {t}
              /\ \A u \in Applied(j) : u.ts <= t.ts
              /\ \A k \in Keys :
                   /\ job'[j].book[k].qty = job[j].book[k].qty + Moved(t, k)
                   /\ job'[j].book[k].last_fill_ts
                        = IF Touches(t, k) THEN t.ts ELSE job[j].book[k].last_fill_ts
        BY <3>3, AppliedMore
      <4>2. pc[j] \in Building
        BY <3>3, ApplyStep DEF Building
      <4>3. ASSUME NEW k \in Keys
            PROVE  /\ job'[j].book[k].qty = position_state[k].qty + Volume(Applied(j)', k)
                   /\ \/ job'[j].book[k].qty = position_state[k].qty
                      \/ \E u \in Applied(j)' : u.ts = job'[j].book[k].last_fill_ts
                   /\ \A u \in Applied(j)' : Touches(u, k) => u.ts <= job'[j].book[k].last_fill_ts
        <5>1. /\ job[j].book[k].qty = position_state[k].qty + Volume(Applied(j), k)
              /\ \/ job[j].book[k].qty = position_state[k].qty
                 \/ \E u \in Applied(j) : u.ts = job[j].book[k].last_fill_ts
              /\ \A u \in Applied(j) : Touches(u, k) => u.ts <= job[j].book[k].last_fill_ts
          BY <1>0, <4>2
        <5>2. /\ position_state[k].qty \in Int /\ job[j].book[k].qty \in Int
              /\ Volume(Applied(j), k) \in Int /\ Moved(t, k) \in Int /\ t.ts \in Int
          BY <4>1, VolumeType, MovedType, FillTypes DEF TypeOK, JobRecord, PositionState
        <5>3. Volume(Applied(j) \cup {t}, k) = Volume(Applied(j), k) + Moved(t, k)
          BY <4>1, VolumeWith
        <5>4. job'[j].book[k].qty = position_state[k].qty + Volume(Applied(j)', k)
          BY <4>1, <5>1, <5>2, <5>3
        <5>5. CASE Touches(t, k)
          BY <4>1, <5>2, <5>4, <5>5
        <5>6. CASE ~Touches(t, k)
          <6>1. Moved(t, k) = 0
            BY <5>6 DEF Touches, Moved
          <6>2. job'[j].book[k] .qty = job[j].book[k].qty
            BY <4>1, <5>2, <6>1
          <6> QED
            BY <4>1, <5>1, <5>4, <5>6, <6>2
        <5> QED
          BY <5>5, <5>6
      <4> QED
        BY <2>2, <4>3
    <3>4. CASE DeletePartition(j) \/ PutPartition(j) \/ InsertLedger(j)
      <4>1. Applied(j)' = Applied(j)
        BY <3>4, StoreStep DEF Applied
      <4> QED
        BY <1>0, <3>4, <4>1, StoreStep
    <3> QED
      BY <1>3, <3>1, <3>2, <3>3, <3>4
  <2> QED
    BY <1>b, <2>1, <2>2, <2>3
<1>4. ASSUME NEW j \in Jobs, InsertPositions(j)
      PROVE  \A i \in Jobs : A(i)'
  <2>1. ASSUME NEW i \in Jobs PROVE pc'[i] \notin Building
    BY <1>0, <1>4, InsertEffect, InsertStep DEF Building, Elsewhere
  <2> QED
    BY <2>1
<1> QED
  BY <1>1, <1>2, <1>3, <1>4, StepKinds

(* The insert adds to every stored quantity what the batch moves.          *)
LEMMA InsertAdds ==
  ASSUME TypeOK, OwnDay, Worked, Stamped, Newest, BookAhead, Sound,
         NEW j \in Jobs, InsertPositions(j), NEW k \in Keys
  PROVE  position_state'[k].qty = position_state[k].qty + Volume(job[j].batch, k)
<1>1. pc[j] = "state" /\ Applied(j) = job[j].batch
  <2>1. job[j].todo = {}
    BY InsertEffect DEF Worked, Holding
  <2> QED
    BY <2>1, InsertEffect DEF Applied
<1>2. job[j].book[k].qty = position_state[k].qty + Volume(Applied(j), k)
  BY <1>1 DEF BookAhead, Building
<1> QED
  BY <1>1, <1>2, InsertKeeps

LEMMA StepUpdate ==
  ASSUME UpdateInv, [Next]_vars
  PROVE  NoUpdateLost'
<1> USE DEF UpdateInv
<1>1. SUFFICES ASSUME Sound', NEW k \in Keys
               PROVE  position_state'[k].qty = Net(commits', k)
  BY DEF NoUpdateLost, Sound
<1>2. Sound /\ "expire" \notin events'
  BY <1>1, StepGrows, WithoutBefore DEF Sound, Without
<1>3. position_state[k].qty = Net(commits, k)
  BY <1>2 DEF NoUpdateLost, Sound
<1>4. CASE UNCHANGED <<commits, position_state>>
  BY <1>3, <1>4
<1>5. CASE \E e \in Keys : Expire(e)
  BY <1>2, <1>3, <1>5, ExpireStep, ExpireQuantities
<1>6. ASSUME NEW j \in Jobs, InsertPositions(j)
      PROVE  position_state'[k].qty = Net(commits', k)
  <2>1. job[j].batch \in SUBSET Feed
    BY DEF TypeOK, JobRecord
  <2>2. /\ commits \in [Feed -> Nat] /\ commits' \in [Feed -> Nat]
        /\ \A t \in Feed : commits'[t] = IF t \in job[j].batch THEN commits[t] + 1 ELSE commits[t]
    BY <1>6, StepType, CommitsGrow DEF TypeOK
  <2>3. Net(commits', k) = Net(commits, k) + Volume(job[j].batch, k)
    BY <2>1, <2>2, NetWith
  <2>4. position_state'[k].qty = position_state[k].qty + Volume(job[j].batch, k)
    BY <1>2, <1>6, InsertAdds
  <2> QED
    BY <1>3, <2>3, <2>4
<1>7. ASSUME NEW j \in Jobs,
             \/ Leaves(j) \/ PassCheck(j) \/ CheckFails(j)
             \/ Read(j) \/ Load(j) \/ Apply(j)
             \/ DeletePartition(j) \/ PutPartition(j) \/ InsertLedger(j) \/ MarkGet(j)
      PROVE  UNCHANGED <<commits, position_state>>
  <2>1. MarkGet(j) => UNCHANGED <<commits, position_state>>
    BY DEF MarkGet, store
  <2> QED
    BY <1>7, <2>1, OutsideEffect, ReadStep, LoadStep, ApplyStep, StoreStep DEF Aside
<1> QED
  BY <1>4, <1>5, <1>6, <1>7, StepKinds

LEMMA InitUpdate == Init => UpdateInv
<1> SUFFICES ASSUME Init PROVE UpdateInv
  OBVIOUS
<1>1. TypeOK /\ SingleJob /\ OwnDay
  BY InitSafe DEF TwiceInv, LogInv
<1>2. \A j \in Jobs : pc[j] = "idle"
  BY DEF Init
<1>3. Worked /\ BookAhead
  BY <1>2 DEF Worked, BookAhead, Holding, Building
<1>4. \A k \in Keys : position_state[k] = EmptyPosition
  BY DEF Init
<1>5. \A t \in Feed : commits[t] = 0
  BY DEF Init
<1>6. Stamped /\ Newest
  BY <1>2, <1>4, <1>5 DEF Stamped, Newest, Holding, Building, EmptyPosition
<1>7. \A k \in Keys : Net(commits, k) = 0
  BY <1>1, <1>5, NetOfNone DEF TypeOK
<1>8. NoUpdateLost
  BY <1>4, <1>7 DEF NoUpdateLost, EmptyPosition
<1> QED
  BY <1>1, <1>3, <1>6, <1>8 DEF UpdateInv

(* The stored quantity of every key is what the inserted batches moved,    *)
(* through crashes, retries and forced repetitions of the newest day.      *)
THEOREM UpdatesAreKept == Spec => []NoUpdateLost
<1>1. UpdateInv /\ [Next]_vars => UpdateInv'
  BY StepType, StepSingle, StepOwnDay, StepWorked, StepStamped, StepNewest, StepBookAhead,
     StepUpdate DEF UpdateInv
<1>2. UpdateInv => NoUpdateLost
  BY DEF UpdateInv
<1> QED
  BY <1>1, <1>2, InitUpdate, PTL DEF Spec

(* --------------- the processor implements TradeSettlement ------------- *)

Calm == Without(Kinds \ {"late"})

(* The balances the abstract specification sees.                           *)
Balance == [k \in Keys |-> position_state[k].qty]
InPositions == {t \in Feed : commits[t] > 0}

LEMMA UpdateStep == UpdateInv /\ [Next]_vars => UpdateInv'
BY StepType, StepSingle, StepOwnDay, StepWorked, StepStamped, StepNewest, StepBookAhead,
   StepUpdate DEF UpdateInv

LEMMA TwiceStep == TwiceInv /\ [Next]_vars => TwiceInv'
BY StepType, StepSingle, StepLogCopy, StepOwnDay, StepTwice DEF TwiceInv, LogInv

LEMMA AbstractVolume ==
  ASSUME NEW B, NEW k
  PROVE  Abstract!MapThenSumSet(LAMBDA t : Moved(t, k), B) = Volume(B, k)
BY DEF Volume, MapThenSumSet, MapThenFoldSet, Abstract!MapThenSumSet, Abstract!MapThenFoldSet

(* The insert of a batch is one settlement.                                *)
LEMMA InsertSettles ==
  ASSUME UpdateInv, TwiceInv, Calm, NEW j \in Jobs, InsertPositions(j)
  PROVE  Abstract!Settle(job[j].batch) /\ job[j].batch \in SUBSET Feed
<1> DEFINE batch == job[j].batch
<1>0. /\ TypeOK /\ Sound /\ Orderly /\ pc[j] = "state"
      /\ batch \in SUBSET Feed
  BY InsertEffect DEF UpdateInv, Calm, Sound, Orderly, Without, Kinds, TypeOK, JobRecord
<1>1. batch # {} /\ \A t \in batch : DayOf(t.ts) = job[j].day
  BY <1>0 DEF UpdateInv, Worked, OwnDay, Holding
<1>2. ASSUME NEW s \in InPositions PROVE DayOf(s.ts) < job[j].day
  <2>1. ~Repeated(job[j].day)
    BY <1>0 DEF TwiceInv, FreshDay, Holding
  <2>2. DayOf(s.ts) # job[j].day
    BY <2>1, <1>2 DEF Repeated, InPositions
  <2>3. DayOf(s.ts) <= job[j].day
    BY <1>0, <1>2 DEF UpdateInv, Newest, Holding, InPositions
  <2>4. DayOf(s.ts) \in Int /\ job[j].day \in Int
    BY <1>0, <1>2, GoldAssumption DEF TypeOK, JobRecord, Days, DayOf, Trade, InPositions
  <2> QED
    BY <2>2, <2>3, <2>4
<1>3. Balance' = [k \in Keys |-> Balance[k] + Volume(batch, k)]
  <2>1. \A k \in Keys : position_state'[k].qty = position_state[k].qty + Volume(batch, k)
    BY <1>0, InsertAdds DEF UpdateInv
  <2> QED
    BY <2>1 DEF Balance
<1>5. Balance' = [k \in Keys |->
                    Balance[k] + Abstract!MapThenSumSet(LAMBDA t : Moved(t, k), batch)]
  BY <1>3, AbstractVolume
<1>4. InPositions' = InPositions \cup batch
  <2>1. \A t \in Feed : commits[t] \in Nat
    BY <1>0 DEF TypeOK
  <2> QED
    BY <1>0, <2>1, CommitsGrow DEF InPositions
<1> QED
  BY <1>0, <1>1, <1>2, <1>4, <1>5 DEF Abstract!Settle, Balance, InPositions

LEMMA OthersStutter ==
  ASSUME UpdateInv, [Next]_vars, Calm', \A j \in Jobs : ~InsertPositions(j)
  PROVE  Balance' = Balance /\ InPositions' = InPositions
<1>0. TypeOK /\ "expire" \notin events'
  BY DEF UpdateInv, Calm, Without, Kinds
<1>1. CASE UNCHANGED <<commits, position_state>>
  BY <1>1 DEF Balance, InPositions
<1>2. CASE \E e \in Keys : Expire(e)
  BY <1>0, <1>2, ExpireStep, ExpireQuantities DEF Balance, InPositions
<1>3. ASSUME NEW j \in Jobs,
             \/ Leaves(j) \/ PassCheck(j) \/ CheckFails(j)
             \/ Read(j) \/ Load(j) \/ Apply(j)
             \/ DeletePartition(j) \/ PutPartition(j) \/ InsertLedger(j) \/ MarkGet(j)
      PROVE  UNCHANGED <<commits, position_state>>
  <2>1. MarkGet(j) => UNCHANGED <<commits, position_state>>
    BY DEF MarkGet, store
  <2> QED
    BY <1>0, <1>3, <2>1, OutsideEffect, ReadStep, LoadStep, ApplyStep, StoreStep DEF Aside
<1> QED
  BY <1>0, <1>1, <1>2, <1>3, StepKinds

(* Until something but a late trade disturbs it, the processor implements  *)
(* TradeSettlement: every insert of positions settles one day's trades,    *)
(* all of them new and later than what is settled, and nothing else moves  *)
(* a balance.                                                              *)
THEOREM ImplementsSettlement == Spec => SettlesInOrder
<1> DEFINE Inv == UpdateInv /\ TwiceInv
           Settles == Without(Kinds \ {"late"})' => Abstract!Next
<1>1. Init => Abstract!Init
  <2> SUFFICES ASSUME Init PROVE Abstract!Init
    OBVIOUS
  <2>1. \A k \in Keys : position_state[k].qty = 0
    BY DEF Init, EmptyPosition
  <2>2. \A t \in Feed : commits[t] = 0
    BY DEF Init
  <2> QED
    BY <2>1, <2>2 DEF Abstract!Init
<1>2. Init => Inv
  BY InitUpdate, InitSafe
<1>3. Inv /\ [Next]_vars => Inv'
  BY UpdateStep, TwiceStep
<1>4. Inv /\ [Next]_vars => [Settles]_(Abstract!vars)
  <2> SUFFICES ASSUME Inv, [Next]_vars, Calm' PROVE Abstract!Next \/ UNCHANGED Abstract!vars
    BY DEF Calm
  <2>0. Calm
    BY StepGrows, WithoutBefore DEF Calm, UpdateInv
  <2>1. ASSUME NEW j \in Jobs, InsertPositions(j) PROVE Abstract!Next
    <3>1. Abstract!Settle(job[j].batch) /\ job[j].batch \in SUBSET Feed
      BY <2>0, <2>1, InsertSettles
    <3> QED
      BY <3>1 DEF Abstract!Next, Abstract!Settle
  <2>2. CASE \A j \in Jobs : ~InsertPositions(j)
    BY <2>2, OthersStutter DEF Abstract!vars, Balance, InPositions
  <2> QED
    BY <2>1, <2>2
<1> QED
  BY <1>1, <1>2, <1>3, <1>4, PTL DEF Spec, SettlesInOrder

(* ------------------------- the ledger partition ----------------------- *)

HasRow(s, t) == \E i \in DOMAIN s : s[i].trade = t

(* Rows and, once written, the partition have what the job has applied.    *)
RowsOfBatch ==
  /\ \A j \in Jobs : pc[j] \in Building => \A t \in Applied(j) : HasRow(job[j].rows, t)
  /\ Without({"overlap"}) =>
       \A j \in Jobs : pc[j] \in {"ledger", "state", "mark", "write"} =>
         \A t \in job[j].batch : HasRow(partition[job[j].day], t)

(* A job logs its own day and what is logged already; it works on a logged *)
(* day only if it was forced to or could not read the log.                 *)
LogAdds ==
  Without({"overlap"}) =>
    \A j \in Jobs :
      /\ pc[j] = "write" => job[j].log \subseteq processed \cup {job[j].day}
      /\ Without({"late", "force", "getError"}) =>
           /\ pc[j] = "read" /\ ~job[j].force => job[j].day \notin processed
           /\ pc[j] \in Holding => job[j].day \notin processed

(* What the partitions survive: a crash only in a run that does not repeat *)
(* a logged day.                                                           *)
Settling ==
  /\ Without({"late", "overlap"})
  /\ "crash" \notin events \/ Without({"force", "getError"})

PartitionInv ==
  /\ MissedInv /\ SingleJob /\ OwnDay /\ Worked
  /\ RowsOfBatch /\ LogAdds /\ PartitionComplete

LEMMA LastRows ==
  ASSUME NEW S, NEW s \in Seq(S), NEW a \in S, NEW b \in S
  PROVE  /\ DOMAIN (s \o <<a, b>>) = 1..(Len(s) + 2)
         /\ \A i \in DOMAIN s : (s \o <<a, b>>)[i] = s[i]
         /\ (s \o <<a, b>>)[Len(s) + 1] = a
         /\ (s \o <<a, b>>)[Len(s) + 2] = b
OBVIOUS

(* The two rows of a trade.                                                *)
LEMMA RowTypes ==
  ASSUME NEW book \in [Keys -> PositionState], NEW t \in Feed, NEW f,
         f = MakerFill(t) \/ f = TakerFill(t), ~Rejected(t.maker_direction, t.qty)
  PROVE  LedgerRow(book, t, f) \in Row /\ LedgerRow(book, t, f).trade = t
BY BookTypes DEF LedgerRow

LEMMA AliveAlone ==
  ASSUME SingleJob, Without({"overlap"}), NEW j \in Jobs, pc[j] # "idle",
         NEW i \in Jobs, pc[i] # "idle"
  PROVE  i = j
BY DEF SingleJob

LEMMA StepLogAdds ==
  ASSUME MissedInv, SingleJob, LogAdds, [Next]_vars
  PROVE  LogAdds'
<1> DEFINE Calmly == Without({"late", "force", "getError"})
           L(i) == /\ pc[i] = "write" => job[i].log \subseteq processed \cup {job[i].day}
                   /\ Calmly =>
                        /\ pc[i] = "read" /\ ~job[i].force => job[i].day \notin processed
                        /\ pc[i] \in Holding => job[i].day \notin processed
<1> SUFFICES ASSUME Without({"overlap"})' PROVE \A i \in Jobs : L(i)'
  BY DEF LogAdds, Without
<1>0. /\ TypeOK /\ Without({"overlap"}) /\ \A i \in Jobs : L(i)
      /\ Calmly' => Calmly
  BY StepGrows, WithoutBefore DEF LogAdds, MissedInv
<1>a. ASSUME NEW i \in Jobs, pc'[i] = pc[i], job'[i] = job[i], processed' = processed
      PROVE  L(i)'
  BY <1>0, <1>a
<1>1. CASE UNCHANGED <<processed, pc, job>>
  BY <1>1, <1>a
<1>2. ASSUME NEW k \in Keys, Expire(k) PROVE \A i \in Jobs : L(i)'
  BY <1>0, <1>1, <1>2, ExpireStep
<1>3. ASSUME NEW j \in Jobs, Leaves(j) PROVE \A i \in Jobs : L(i)'
  <2>1. L(j)'
    BY <1>0, <1>3, LeavesEffect DEF Holding
  <2>2. ASSUME NEW i \in Jobs \ {j} PROVE L(i)'
    <3>1. CASE processed' = processed
      BY <1>0, <1>3, <1>a, <2>2, <3>1, LeavesEffect DEF Elsewhere
    <3>2. CASE MarkPut(j)
      <4>1. pc[j] # "idle"
        BY <3>2 DEF MarkPut
      <4>2. pc[i] = "idle"
        BY <1>0, <2>2, <4>1, AliveAlone
      <4> QED
        BY <1>0, <1>3, <2>2, <4>2, LeavesEffect DEF Elsewhere, Holding
    <3> QED
      BY <1>0, <1>3, <3>1, <3>2, LeavesEffect
  <2> QED
    BY <2>1, <2>2
<1>4. ASSUME NEW j \in Jobs, Quiet(j) \/ Read(j) \/ InsertPositions(j) \/ MarkGet(j)
      PROVE  \A i \in Jobs : L(i)'
  <2>1. processed' = processed /\ \A i \in Jobs \ {j} : pc'[i] = pc[i] /\ job'[i] = job[i]
    BY <1>0, <1>4, QuietEffect, ReadEffect, InsertEffect, MarkGetEffect DEF Elsewhere
  <2>2. L(j)'
    <3>1. CASE Quiet(j)
      BY <1>0, <2>1, <3>1, QuietEffect DEF Without, Holding
    <3>2. CASE Read(j)
      <4>1. ASSUME Calmly', job[j].day \in processed PROVE FALSE
        <5>1. PICK t \in silver : DayOf(t.ts) = job[j].day
          BY <3>2 DEF Read, TradesOf
        <5>2. t \in Feed /\ commits[t] >= 1 /\ commits[t] \in Nat
          BY <1>0, <4>1, <5>1 DEF MissedInv, NoTradeMissed, TypeOK, Without
        <5>3. Repeated(job[j].day)
          BY <5>1, <5>2 DEF Repeated
        <5>4. ~job[j].force
          BY <1>0, <3>2, <4>1, <5>3, ReadEffect DEF Without
        <5> QED
          BY <1>0, <3>2, <4>1, <5>4, ReadEffect
      <4> QED
        BY <1>0, <2>1, <3>2, <4>1, ReadEffect
    <3>3. CASE InsertPositions(j)
      BY <1>0, <2>1, <3>3, InsertEffect DEF Holding
    <3>4. CASE MarkGet(j)
      BY <1>0, <2>1, <3>4, MarkGetEffect DEF Holding
    <3> QED
      BY <1>4, <3>1, <3>2, <3>3, <3>4
  <2> QED
    BY <1>a, <2>1, <2>2
<1> QED
  BY <1>0, <1>1, <1>2, <1>3, <1>4, StepCases DEF Next, NextDay, Arrive, vars, store

LEMMA StepRows ==
  ASSUME TypeOK, SingleJob, Worked, RowsOfBatch, [Next]_vars
  PROVE  RowsOfBatch'
<1> DEFINE R(i) == pc[i] \in Building => \A t \in Applied(i) : HasRow(job[i].rows, t)
           P(i) == pc[i] \in {"ledger", "state", "mark", "write"} =>
                     \A t \in job[i].batch : HasRow(partition[job[i].day], t)
           Alone == Without({"overlap"})
<1>0. /\ \A i \in Jobs : R(i) /\ (Alone => P(i))
      /\ Alone' => Alone
  BY StepGrows, WithoutBefore DEF RowsOfBatch
<1> SUFFICES \A i \in Jobs : R(i)' /\ (Alone' => P(i)')
  BY DEF RowsOfBatch
<1>a. ASSUME NEW i \in Jobs, pc'[i] = pc[i], job'[i] = job[i]
      PROVE  R(i)' /\ (partition' = partition => (Alone' => P(i)'))
  <2>1. Applied(i)' = Applied(i)
    BY <1>a DEF Applied
  <2> QED
    BY <1>0, <1>a, <2>1
<1>1. CASE UNCHANGED <<partition, pc, job>>
  BY <1>1, <1>a
<1>2. ASSUME NEW k \in Keys, Expire(k) PROVE UNCHANGED <<partition, pc, job>>
  BY <1>2, ExpireStep
<1>3. ASSUME NEW j \in Jobs,
             \/ Leaves(j) \/ PassCheck(j) \/ CheckFails(j)
             \/ Read(j) \/ Load(j) \/ Apply(j)
             \/ DeletePartition(j) \/ PutPartition(j) \/ InsertLedger(j)
             \/ InsertPositions(j) \/ MarkGet(j)
      PROVE  \A i \in Jobs : R(i)' /\ (Alone' => P(i)')
  <2>1. \A i \in Jobs \ {j} : pc'[i] = pc[i] /\ job'[i] = job[i]
    BY <1>3, OutsideEffect, ReadStep, LoadStep, ApplyStep, StoreStep, InsertEffect,
       MarkGetEffect DEF Elsewhere
  <2>0. \/ partition' = partition
        \/ (DeletePartition(j) \/ PutPartition(j)) /\ pc[j] # "idle"
    <3>1. MarkGet(j) \/ InsertLedger(j) \/ InsertPositions(j) => partition' = partition
      BY DEF MarkGet, store, InsertLedger, InsertPositions
    <3> QED
      BY <1>3, <3>1, OutsideEffect, ReadStep, LoadStep, ApplyStep, StoreStep DEF Aside, Building
  <2>2. ASSUME NEW i \in Jobs \ {j} PROVE R(i)' /\ (Alone' => P(i)')
    <3>1. CASE partition' = partition
      BY <1>a, <2>1, <2>2, <3>1
    <3>2. CASE pc[j] # "idle"
      BY <1>0, <1>a, <2>1, <2>2, <3>2, AliveAlone
    <3> QED
      BY <2>0, <3>1, <3>2
  <2>3. R(j)' /\ (Alone' => P(j)')
    <3>1. CASE Leaves(j) \/ PassCheck(j) \/ CheckFails(j)
      BY <3>1, OutsideEffect DEF Holding, Building
    <3>2. CASE Read(j)
      BY <3>2, ReadStep DEF Building
    <3>3. CASE Load(j)
      <4>0. job[j] \in JobRecord
        BY DEF TypeOK
      <4>1. job'[j].batch = job[j].batch /\ job'[j].todo = job[j].todo
        BY <3>3, <4>0, LoadStep DEF JobRecord
      <4>2. Applied(j)' = {}
        BY <3>3, <4>1, LoadStep DEF Applied, Worked, Holding
      <4> QED
        BY <3>3, <4>2, LoadStep
    <3>4. CASE Apply(j)
      <4>1. PICK t \in job[j].todo :
              /\ t \in Feed /\ ~Rejected(t.maker_direction, t.qty)
              /\ job'[j].todo = job[j].todo \ {t}
              /\ job'[j].rows = job[j].rows
                   \o <<LedgerRow(job[j].book, t, MakerFill(t)),
                        LedgerRow(BookAfter(job[j].book, t, MakerFill(t)), t, TakerFill(t))>>
        BY <3>4, ApplyStep
      <4>2. /\ pc[j] = "apply" /\ pc'[j] \in {"apply", "delete"}
            /\ job'[j].batch = job[j].batch
        BY <3>4, ApplyStep
      <4>3. Applied(j)' = Applied(j) \cup {t}
        BY <4>1, <4>2 DEF Applied, Worked, Holding
      <4> DEFINE a == LedgerRow(job[j].book, t, MakerFill(t))
                 b == LedgerRow(BookAfter(job[j].book, t, MakerFill(t)), t, TakerFill(t))
      <4>4. job[j].rows \in Seq(Row) /\ job[j].book \in [Keys -> PositionState]
        BY DEF TypeOK, JobRecord
      <4>5. a \in Row /\ b \in Row /\ a.trade = t
        <5>1. BookAfter(job[j].book, t, MakerFill(t)) \in [Keys -> PositionState]
          BY <4>1, <4>4, BookMoves
        <5> QED
          BY <4>1, <4>4, <5>1, RowTypes
      <4> HIDE DEF a, b
      <4>6. job'[j].rows = job[j].rows \o <<a, b>>
        BY <4>1 DEF a, b
      <4>7. /\ \A u : HasRow(job[j].rows, u) => HasRow(job'[j].rows, u)
            /\ HasRow(job'[j].rows, t)
        <5>1. Len(job[j].rows) \in Nat /\ DOMAIN job[j].rows = 1..Len(job[j].rows)
          BY <4>4
        <5>2. /\ DOMAIN job'[j].rows = 1..(Len(job[j].rows) + 2)
              /\ \A i \in DOMAIN job[j].rows : job'[j].rows[i] = job[j].rows[i]
              /\ job'[j].rows[Len(job[j].rows) + 1] = a
          BY <4>4, <4>5, <4>6, LastRows
        <5> QED
          BY <4>5, <5>1, <5>2 DEF HasRow
      <4> QED
        BY <1>0, <4>2, <4>3, <4>7 DEF Building
    <3>5. CASE DeletePartition(j) \/ InsertLedger(j)
      <4>1. job' = job /\ pc[j] \in Building /\ Applied(j)' = Applied(j)
        BY <3>5, StoreStep DEF Applied
      <4>2. /\ DeletePartition(j) => pc'[j] = "put"
            /\ InsertLedger(j) => pc[j] = "ledger" /\ partition' = partition
        BY DEF DeletePartition, InsertLedger, TypeOK
      <4> QED
        BY <1>0, <3>5, <4>1, <4>2
    <3>6. CASE PutPartition(j)
      <4>1. job' = job /\ pc[j] \in Building /\ Applied(j)' = Applied(j)
        BY <3>6, StoreStep DEF Applied
      <4>2. pc[j] = "put" /\ partition'[job[j].day] = job[j].rows
        BY <3>6 DEF PutPartition, TypeOK, JobRecord
      <4>3. Applied(j) = job[j].batch
        BY <4>2 DEF Applied, Worked, Holding
      <4> QED
        BY <1>0, <4>1, <4>2, <4>3
    <3>7. CASE InsertPositions(j)
      BY <1>0, <2>0, <3>7, InsertEffect, InsertStep DEF Building
    <3>8. CASE MarkGet(j)
      <4>1. partition' = partition
        BY <3>8 DEF MarkGet, store
      <4> QED
        BY <1>0, <3>8, <4>1, MarkGetEffect DEF Building
    <3> QED
      BY <1>3, <3>1, <3>2, <3>3, <3>4, <3>5, <3>6, <3>7, <3>8
  <2> QED
    BY <2>2, <2>3
<1> QED
  BY <1>1, <1>2, <1>3, StepKinds

LEMMA StepPartition ==
  ASSUME PartitionInv, [Next]_vars
  PROVE  PartitionComplete'
<1> DEFINE Held(t) == (DayOf(t.ts) \in processed
                       /\ \A j \in Jobs : pc[j] = "put" => job[j].day # DayOf(t.ts)) =>
                         HasRow(partition[DayOf(t.ts)], t)
<1> SUFFICES ASSUME Settling' PROVE \A t \in silver' : Held(t)'
  BY DEF PartitionComplete, Settling, Without, HasRow
<1>0. /\ TypeOK /\ Accrues /\ Settling /\ Without({"overlap"}) /\ Without({"late"})
      /\ Without({"late"})'
  BY StepGrows DEF PartitionInv, MissedInv, Settling, Without, Accrues
<1>b. \A t \in silver : Held(t)
  BY <1>0 DEF PartitionInv, PartitionComplete, Settling, HasRow
<1>d. \A t \in silver : t \in Feed
  BY <1>0 DEF TypeOK
<1>1. CASE UNCHANGED <<processed, partition, pc, job, silver>>
  BY <1>b, <1>1
<1>2. ASSUME NEW t \in Feed, Arrive(t) PROVE \A u \in silver' : Held(u)'
  BY <1>0, <1>2, <1>b, ArriveEffect DEF Arrive, store
<1>3. ASSUME NEW k \in Keys, Expire(k) PROVE \A t \in silver' : Held(t)'
  BY <1>0, <1>1, <1>3, ExpireStep
<1>4. ASSUME NEW j \in Jobs, Leaves(j) PROVE \A t \in silver' : Held(t)'
  <2>0. silver' = silver /\ partition' = partition /\ pc'[j] # "put" /\ Elsewhere(j)
    BY <1>0, <1>4, OutsideEffect DEF Aside, Holding
  <2>1. CASE MarkPut(j)
    <3>1. pc[j] = "write" /\ processed' = job[j].log
      BY <2>1 DEF MarkPut
    <3>2. job[j].log \subseteq processed \cup {job[j].day}
      BY <1>0, <3>1 DEF PartitionInv, LogAdds
    <3>3. \A i \in Jobs : pc[i] # "put"
      BY <1>0, <3>1, AliveAlone DEF PartitionInv
    <3>4. \A t \in silver : DayOf(t.ts) = job[j].day => HasRow(partition[job[j].day], t)
      BY <1>0, <3>1 DEF PartitionInv, MissedInv, Batches, RowsOfBatch, TradesOf, Holding
    <3> QED
      BY <1>b, <2>0, <3>1, <3>2, <3>3, <3>4
  <2>2. CASE ~MarkPut(j)
    <3>1. processed' = processed
      BY <1>0, <1>4, <2>2, LeavesEffect
    <3>2. CASE pc[j] # "put"
      BY <1>b, <2>0, <3>1, <3>2 DEF Elsewhere
    <3>3. CASE pc[j] = "put"
      <4>1. "crash" \in events'
        BY <1>4, <3>3 DEF Leaves, SkipDay, ReadNothing, MarkPut, Raise, Start, Crash, Admit
      <4>2. Without({"late", "force", "getError"})
        BY <1>0, <4>1 DEF Settling, Without, Accrues
      <4>3. job[j].day \notin processed
        BY <1>0, <3>3, <4>2 DEF PartitionInv, LogAdds, Holding
      <4> QED
        BY <1>b, <2>0, <3>1, <4>3 DEF Elsewhere
    <3> QED
      BY <3>2, <3>3
  <2> QED
    BY <2>1, <2>2
<1>5. ASSUME NEW j \in Jobs, DeletePartition(j) PROVE \A t \in silver' : Held(t)'
  <2>1. /\ pc[j] = "delete" /\ pc'[j] = "put" /\ job' = job /\ Elsewhere(j)
        /\ silver' = silver /\ processed' = processed
        /\ \A d \in Days \ {job[j].day} : partition'[d] = partition[d]
    BY <1>0, <1>5 DEF DeletePartition, TypeOK, Elsewhere
  <2> QED
    BY <1>0, <1>b, <2>1 DEF Elsewhere, TypeOK
<1>6. ASSUME NEW j \in Jobs, PutPartition(j) PROVE \A t \in silver' : Held(t)'
  <2>1. /\ pc[j] = "put" /\ pc'[j] = "ledger" /\ job' = job /\ Elsewhere(j)
        /\ silver' = silver /\ processed' = processed
        /\ partition'[job[j].day] = job[j].rows
        /\ \A d \in Days \ {job[j].day} : partition'[d] = partition[d]
    BY <1>0, <1>6 DEF PutPartition, TypeOK, JobRecord, Elsewhere
  <2>2. Applied(j) = job[j].batch
    BY <2>1 DEF PartitionInv, Worked, Holding, Applied
  <2>3. \A t \in silver : DayOf(t.ts) = job[j].day => HasRow(job[j].rows, t)
    BY <1>0, <2>1, <2>2 DEF PartitionInv, MissedInv, Batches, RowsOfBatch, TradesOf, Holding,
       Building
  <2>4. \A i \in Jobs \ {j} : pc[i] # "put"
    BY <1>0, <2>1, AliveAlone DEF PartitionInv
  <2> QED
    BY <1>0, <1>b, <2>1, <2>3, <2>4 DEF Elsewhere, TypeOK
<1>7. ASSUME NEW j \in Jobs,
             \/ PassCheck(j) \/ CheckFails(j) \/ Read(j) \/ Load(j) \/ Apply(j)
             \/ InsertLedger(j) \/ InsertPositions(j) \/ MarkGet(j)
      PROVE  \A t \in silver' : Held(t)'
  <2>1. /\ partition' = partition /\ processed' = processed /\ silver' = silver
        /\ pc[j] # "put" /\ pc'[j] # "put"
    <3>1. CASE PassCheck(j) \/ CheckFails(j) \/ Read(j) \/ Load(j)
      BY <1>0, <3>1 DEF PassCheck, CheckFails, Read, Load, store, TypeOK
    <3>2. CASE Apply(j)
      BY <1>0, <3>2, ApplyStep DEF Aside, Apply, store
    <3>3. CASE InsertLedger(j) \/ InsertPositions(j) \/ MarkGet(j)
      BY <1>0, <3>3 DEF InsertLedger, InsertPositions, MarkGet, store, TypeOK
    <3> QED
      BY <1>7, <3>1, <3>2, <3>3
  <2>2. Elsewhere(j)
    BY <1>0, <1>7, QuietEffect, ReadEffect, InsertStep, MarkGetEffect DEF Quiet
  <2> QED
    BY <1>b, <2>1, <2>2 DEF Elsewhere
<1>8. CASE NextDay \/ UNCHANGED vars
  BY <1>1, <1>8 DEF NextDay, vars, store
<1>9. ASSUME NEW j \in Jobs, JobStep(j) PROVE \A t \in silver' : Held(t)'
  BY <1>4, <1>5, <1>6, <1>7, <1>9 DEF JobStep, Leaves
<1> QED
  BY <1>2, <1>3, <1>8, <1>9 DEF Next

(* The ledger partition of a logged day has every trade of the day, but    *)
(* for the moment in which a run replaces it.                              *)
THEOREM PartitionsAreComplete == Spec => []PartitionComplete
<1>1. Init => PartitionInv
  BY InitSafe, InitUpdate DEF UpdateInv, Init, PartitionInv, RowsOfBatch, LogAdds,
     PartitionComplete, Building, Holding
<1>2. PartitionInv /\ [Next]_vars => PartitionInv'
  BY StepType, StepSingle, StepLogCopy, StepBatches, StepOwnDay, StepWorked, StepLogAdds,
     StepRows, StepPartition DEF PartitionInv, MissedInv
<1>3. PartitionInv => PartitionComplete
  BY DEF PartitionInv
<1> QED
  BY <1>1, <1>2, <1>3, PTL DEF Spec

(* --------------------- the ledger and the positions ------------------- *)

Amounts(book) == [k \in Keys |-> book[k].qty]

FirstOf(s, i) == \A m \in DOMAIN s : m < i => s[m].key # s[i].key
LastOf(s, i) == \A m \in DOMAIN s : m > i => s[m].key # s[i].key

(* Row m is the next one of its key after row i.                           *)
Follows(s, i, m) ==
  i < m /\ s[i].key = s[m].key /\ \A n \in (i + 1)..(m - 1) : s[n].key # s[m].key

(* The rows of s lead from the quantities p to the quantities q.           *)
Leads(s, p, q) ==
  /\ \A i, m \in DOMAIN s : Follows(s, i, m) => s[m].qty_before = s[i].qty_after
  /\ \A i \in DOMAIN s : FirstOf(s, i) => s[i].qty_before = p[s[i].key]
  /\ \A i \in DOMAIN s : LastOf(s, i) => s[i].qty_after = q[s[i].key]
  /\ \A k \in Keys : (\A i \in DOMAIN s : s[i].key # k) => p[k] = q[k]

Flat == [k \in Keys |-> 0]

(* A job has no rows before it applies its first trade.                    *)
Blank == \A j \in Jobs : pc[j] \in {"check", "read", "load"} => job[j].rows = <<>>

(* A job's rows lead from the stored positions to its book; the ledger     *)
(* leads to the stored positions, or between the two inserts to the book.  *)
RowsLead ==
  Sound =>
    \A j \in Jobs : pc[j] \in Building =>
      Leads(job[j].rows, Amounts(position_state), Amounts(job[j].book))

LedgerLeads ==
  Sound /\ Without({"crash"}) =>
    /\ \A j \in Jobs : pc[j] = "state" => Leads(ledger, Flat, Amounts(job[j].book))
    /\ (\A j \in Jobs : pc[j] # "state") => Leads(ledger, Flat, Amounts(position_state))

LedgerInv == UpdateInv /\ Blank /\ RowsLead /\ LedgerLeads

LEMMA LeadsNone == \A p : Leads(<<>>, p, p)
BY DEF Leads

LEMMA Joined ==
  ASSUME NEW s \in Seq(Row), NEW r \in Seq(Row)
  PROVE  /\ DOMAIN s = 1..Len(s) /\ DOMAIN r = 1..Len(r)
         /\ Len(s) \in Nat /\ Len(r) \in Nat
         /\ DOMAIN (s \o r) = 1..(Len(s) + Len(r))
         /\ \A i \in 1..Len(s) : (s \o r)[i] = s[i]
         /\ \A i \in (Len(s) + 1)..(Len(s) + Len(r)) : (s \o r)[i] = r[i - Len(s)]
         /\ \A i \in 1..Len(r) : (s \o r)[i + Len(s)] = r[i]
         /\ \A i \in 1..Len(s) : s[i].key \in Keys
         /\ \A i \in 1..Len(r) : r[i].key \in Keys
<1>1. /\ \A i \in 1..Len(s) : s[i] \in Row
      /\ \A i \in 1..Len(r) : r[i] \in Row
  OBVIOUS
<1>2. \A x \in Row : x.key \in Keys
  BY DEF Row
<1> QED
  BY <1>1, <1>2

(* Rows that lead on from where others ended.                              *)
LEMMA LeadsOn ==
  ASSUME NEW s \in Seq(Row), NEW r \in Seq(Row), NEW p, NEW q, NEW w,
         Leads(s, p, q), Leads(r, q, w)
  PROVE  Leads(s \o r, p, w)
<1> DEFINE c == s \o r
           n == Len(s)
           l == Len(r)
<1>1. /\ DOMAIN s = 1..n /\ DOMAIN r = 1..l /\ DOMAIN c = 1..(n + l)
      /\ n \in Nat /\ l \in Nat
      /\ \A i \in 1..n : c[i] = s[i] /\ s[i].key \in Keys
      /\ \A i \in (n + 1)..(n + l) : c[i] = r[i - n] /\ i - n \in 1..l
      /\ \A i \in 1..l : c[i + n] = r[i] /\ r[i].key \in Keys /\ i + n \in (n + 1)..(n + l)
  BY Joined
<1> HIDE DEF c, n, l
<1>2. \A i, m \in DOMAIN s : Follows(s, i, m) => s[m].qty_before = s[i].qty_after
  BY DEF Leads
<1>3. \A i, m \in DOMAIN r : Follows(r, i, m) => r[m].qty_before = r[i].qty_after
  BY DEF Leads
<1>4. ASSUME NEW i \in DOMAIN c, NEW m \in DOMAIN c, Follows(c, i, m)
      PROVE  c[m].qty_before = c[i].qty_after
  <2>0. i < m /\ c[i].key = c[m].key /\ \A x \in (i + 1)..(m - 1) : c[x].key # c[m].key
    BY <1>4 DEF Follows
  <2>1. CASE m <= n
    <3>1. Follows(s, i, m)
      BY <1>1, <2>0, <2>1 DEF Follows
    <3> QED
      BY <1>1, <1>2, <2>0, <2>1, <3>1
  <2>2. CASE n < i
    <3>1. /\ i - n \in 1..l /\ m - n \in 1..l
          /\ c[i] = r[i - n] /\ c[m] = r[m - n]
      BY <1>1, <2>0, <2>2
    <3>2. \A x \in (i - n + 1)..(m - n - 1) : r[x] = c[x + n] /\ x + n \in (i + 1)..(m - 1)
      BY <1>1, <2>2, <3>1
    <3>3. Follows(r, i - n, m - n)
      BY <1>1, <2>0, <3>1, <3>2 DEF Follows
    <3> QED
      BY <1>1, <1>3, <3>1, <3>3
  <2>3. CASE i <= n /\ n < m
    <3>1. /\ i \in 1..n /\ m - n \in 1..l
          /\ c[i] = s[i] /\ c[m] = r[m - n]
      BY <1>1, <2>3
    <3>2. LastOf(s, i)
      <4> SUFFICES ASSUME NEW x \in 1..n, x > i PROVE s[x].key # s[i].key
        BY <1>1 DEF LastOf
      <4>1. s[x] = c[x] /\ x \in (i + 1)..(m - 1)
        BY <1>1, <2>3
      <4> QED
        BY <2>0, <3>1, <4>1
    <3>3. FirstOf(r, m - n)
      <4> SUFFICES ASSUME NEW x \in 1..l, x < m - n PROVE r[x].key # r[m - n].key
        BY <1>1 DEF FirstOf
      <4>1. r[x] = c[x + n] /\ x + n \in (i + 1)..(m - 1)
        BY <1>1, <2>3
      <4> QED
        BY <2>0, <3>1, <4>1
    <3>4. s[i].qty_after = q[s[i].key] /\ r[m - n].qty_before = q[r[m - n].key]
      BY <1>1, <3>1, <3>2, <3>3 DEF Leads
    <3> QED
      BY <2>0, <3>1, <3>4
  <2> QED
    BY <1>1, <2>1, <2>2, <2>3
<1>5. ASSUME NEW i \in DOMAIN c, FirstOf(c, i) PROVE c[i].qty_before = p[c[i].key]
  <2>1. CASE i <= n
    <3>1. FirstOf(s, i)
      BY <1>1, <1>5, <2>1 DEF FirstOf
    <3> QED
      BY <1>1, <2>1, <3>1 DEF Leads
  <2>2. CASE n < i
    <3>1. i - n \in 1..l /\ c[i] = r[i - n]
      BY <1>1, <2>2
    <3>2. FirstOf(r, i - n)
      <4> SUFFICES ASSUME NEW x \in 1..l, x < i - n PROVE r[x].key # r[i - n].key
        BY <1>1 DEF FirstOf
      <4>1. r[x] = c[x + n] /\ x + n < i /\ x + n \in DOMAIN c
        BY <1>1
      <4> QED
        BY <1>5, <3>1, <4>1 DEF FirstOf
    <3>3. r[i - n].qty_before = q[r[i - n].key]
      BY <1>1, <3>1, <3>2 DEF Leads
    <3>4. \A x \in DOMAIN s : s[x].key # c[i].key
      <4> SUFFICES ASSUME NEW x \in 1..n PROVE s[x].key # c[i].key
        BY <1>1
      <4>1. s[x] = c[x] /\ x < i /\ x \in DOMAIN c
        BY <1>1, <2>2
      <4> QED
        BY <1>5, <4>1 DEF FirstOf
    <3>5. p[c[i].key] = q[c[i].key]
      BY <1>1, <3>1, <3>4 DEF Leads
    <3> QED
      BY <3>1, <3>3, <3>5
  <2> QED
    BY <1>1, <2>1, <2>2
<1>6. ASSUME NEW i \in DOMAIN c, LastOf(c, i) PROVE c[i].qty_after = w[c[i].key]
  <2>1. CASE i <= n
    <3>1. LastOf(s, i)
      BY <1>1, <1>6, <2>1 DEF LastOf
    <3>2. s[i].qty_after = q[s[i].key] /\ c[i] = s[i] /\ s[i].key \in Keys
      BY <1>1, <2>1, <3>1 DEF Leads
    <3>3. \A x \in DOMAIN r : r[x].key # c[i].key
      <4> SUFFICES ASSUME NEW x \in 1..l PROVE r[x].key # c[i].key
        BY <1>1
      <4>1. r[x] = c[x + n] /\ x + n > i /\ x + n \in DOMAIN c
        BY <1>1, <2>1
      <4> QED
        BY <1>6, <4>1 DEF LastOf
    <3>4. q[s[i].key] = w[s[i].key]
      BY <3>2, <3>3 DEF Leads
    <3> QED
      BY <3>2, <3>4
  <2>2. CASE n < i
    <3>1. i - n \in 1..l /\ c[i] = r[i - n]
      BY <1>1, <2>2
    <3>2. LastOf(r, i - n)
      <4> SUFFICES ASSUME NEW x \in 1..l, x > i - n PROVE r[x].key # r[i - n].key
        BY <1>1 DEF LastOf
      <4>1. r[x] = c[x + n] /\ x + n > i /\ x + n \in DOMAIN c
        BY <1>1
      <4> QED
        BY <1>6, <3>1, <4>1 DEF LastOf
    <3> QED
      BY <1>1, <3>1, <3>2 DEF Leads
  <2> QED
    BY <1>1, <2>1, <2>2
<1>7. ASSUME NEW k \in Keys, \A i \in DOMAIN c : c[i].key # k PROVE p[k] = w[k]
  <2>1. \A i \in DOMAIN s : s[i].key # k
    BY <1>1, <1>7
  <2>2. \A i \in DOMAIN r : r[i].key # k
    <3> SUFFICES ASSUME NEW x \in 1..l PROVE r[x].key # k
      BY <1>1
    <3> QED
      BY <1>1, <1>7
  <2>3. p[k] = q[k] /\ q[k] = w[k]
    BY <2>1, <2>2 DEF Leads
  <2> QED
    BY <2>3
<1>8. Leads(c, p, w)
  BY <1>4, <1>5, <1>6, <1>7 DEF Leads
<1> QED
  BY <1>8 DEF c

(* One row leads from the book before its fill to the book after it.       *)
LEMMA LeadsOne ==
  ASSUME NEW book \in [Keys -> PositionState], NEW t \in Feed, NEW f,
         f = MakerFill(t) \/ f = TakerFill(t), ~Rejected(t.maker_direction, t.qty)
  PROVE  Leads(<<LedgerRow(book, t, f)>>, Amounts(book), Amounts(BookAfter(book, t, f)))
<1> DEFINE row == LedgerRow(book, t, f)
           next == BookAfter(book, t, f)
<1>0. f.key \in Keys
  BY FillTypes
<1>1. /\ row.key = f.key /\ row.qty_before = book[f.key].qty
      /\ row.qty_after = FillOf(book, t, f).position.qty
  BY DEF LedgerRow
<1>2. /\ FillOf(book, t, f).position.qty = book[f.key].qty + SignedDelta(f.side, t.qty)
      /\ \A k \in Keys : next[k].qty =
           book[k].qty + IF f.key = k THEN SignedDelta(f.side, t.qty) ELSE 0
  BY BookMoves
<1>3. \A k \in Keys : book[k].qty \in Int
  BY DEF PositionState
<1> HIDE DEF row, next
<1>4. /\ row.qty_after = next[f.key].qty
      /\ \A k \in Keys \ {f.key} : next[k].qty = book[k].qty
  BY <1>0, <1>1, <1>2, <1>3
<1>5. DOMAIN <<row>> = {1} /\ <<row>>[1] = row
  OBVIOUS
<1>6. Leads(<<row>>, Amounts(book), Amounts(next))
  BY <1>0, <1>1, <1>4, <1>5 DEF Leads, Follows, Amounts
<1> QED
  BY <1>6 DEF row, next

LEMMA LeadsBoth ==
  ASSUME NEW book \in [Keys -> PositionState], NEW t \in Feed,
         ~Rejected(t.maker_direction, t.qty), NEW s \in Seq(Row), NEW p,
         Leads(s, p, Amounts(book)),
         NEW a, a = LedgerRow(book, t, MakerFill(t)),
         NEW mid, mid = BookAfter(book, t, MakerFill(t)),
         NEW b, b = LedgerRow(mid, t, TakerFill(t)),
         NEW after, after = BookAfter(mid, t, TakerFill(t))
  PROVE  Leads(s \o <<a, b>>, p, Amounts(after))
<1>1. mid \in [Keys -> PositionState]
  BY BookMoves
<1>2. a \in Row /\ b \in Row
  BY <1>1, RowTypes
<1>3. Leads(<<a>>, Amounts(book), Amounts(mid))
  BY LeadsOne
<1>4. Leads(<<b>>, Amounts(mid), Amounts(after))
  BY <1>1, LeadsOne
<1>5. <<a>> \in Seq(Row) /\ <<b>> \in Seq(Row) /\ s \o <<a>> \in Seq(Row)
  BY <1>2
<1>6. Leads(s \o <<a>>, p, Amounts(mid))
  BY <1>3, <1>5, LeadsOn
<1>7. Leads((s \o <<a>>) \o <<b>>, p, Amounts(after))
  BY <1>4, <1>5, <1>6, LeadsOn
<1>8. (s \o <<a>>) \o <<b>> = s \o <<a, b>>
  BY <1>2, <1>5
<1> QED
  BY <1>7, <1>8, Zenon

LEMMA LeavesBlank ==
  ASSUME TypeOK, NEW j \in Jobs, Leaves(j)
  PROVE  job'[j].rows = <<>>
<1> DEFINE next == [IdleJob EXCEPT !.day = job[j].day + 1, !.last = job[j].last,
                                   !.force = job[j].force]
<1>1. IdleJob.rows = <<>> /\ next.rows = <<>>
  BY DEF IdleJob
<1> HIDE DEF next
<1>2. ASSUME Proceed(j) PROVE job' = [job EXCEPT ![j] = next] \/ job' = [job EXCEPT ![j] = IdleJob]
  BY <1>2 DEF Proceed, next
<1>3. ASSUME NEW lo \in Days, NEW hi \in Days, NEW force \in BOOLEAN, Start(j, lo, hi, force)
      PROVE  job'[j].rows = <<>>
  <2>1. [IdleJob EXCEPT !.day = lo, !.last = hi, !.force = force].rows = <<>>
    BY DEF IdleJob
  <2> QED
    BY <1>3, <2>1 DEF Start, TypeOK
<1>4. CASE SkipDay(j) \/ ReadNothing(j) \/ MarkPut(j)
  BY <1>1, <1>2, <1>4 DEF SkipDay, ReadNothing, MarkPut, TypeOK
<1>5. CASE Raise(j) \/ Crash(j)
  BY <1>1, <1>5 DEF Raise, Crash, TypeOK
<1> QED
  BY <1>3, <1>4, <1>5 DEF Leaves

LEMMA StepBlank ==
  ASSUME TypeOK, Blank, [Next]_vars
  PROVE  Blank'
<1> DEFINE B(i) == pc[i] \in {"check", "read", "load"} => job[i].rows = <<>>
<1>0. \A i \in Jobs : B(i)
  BY DEF Blank
<1> SUFFICES ASSUME NEW i \in Jobs PROVE B(i)'
  BY DEF Blank
<1>1. CASE UNCHANGED <<pc, job>>
  BY <1>0, <1>1
<1>2. CASE \E k \in Keys : Expire(k)
  BY <1>1, <1>2 DEF Expire
<1>3. ASSUME NEW j \in Jobs,
             \/ Leaves(j) \/ PassCheck(j) \/ CheckFails(j)
             \/ Read(j) \/ Load(j) \/ Apply(j)
             \/ DeletePartition(j) \/ PutPartition(j) \/ InsertLedger(j)
             \/ InsertPositions(j) \/ MarkGet(j)
      PROVE  B(i)'
  <2>1. i # j => pc'[i] = pc[i] /\ job'[i] = job[i]
    BY <1>3, OutsideEffect, ReadStep, LoadStep, ApplyStep, StoreStep, InsertEffect,
       MarkGetEffect DEF Elsewhere
  <2>2. CASE i # j
    BY <1>0, <2>1, <2>2
  <2>3. CASE i = j
    <3>1. CASE Leaves(j)
      BY <2>3, <3>1, LeavesBlank
    <3>2. CASE PassCheck(j) \/ CheckFails(j)
      BY <1>0, <2>3, <3>2 DEF PassCheck, CheckFails
    <3>3. CASE Read(j)
      <4>0. job[j] \in JobRecord
        BY DEF TypeOK
      <4>1. job'[j].rows = job[j].rows
        BY <3>3, <4>0, ReadStep DEF JobRecord
      <4> QED
        BY <1>0, <2>3, <3>3, <4>1, ReadStep
    <3>4. CASE \/ Load(j) \/ Apply(j) \/ DeletePartition(j) \/ PutPartition(j)
               \/ InsertLedger(j) \/ InsertPositions(j) \/ MarkGet(j)
      <4>1. pc'[j] \notin {"check", "read", "load"}
        BY <3>4, LoadStep, ApplyStep, StoreStep, InsertEffect, MarkGetEffect DEF Building
      <4> QED
        BY <2>3, <4>1
    <3> QED
      BY <1>3, <3>1, <3>2, <3>3, <3>4
  <2> QED
    BY <2>2, <2>3
<1> QED
  BY <1>1, <1>2, <1>3, StepKinds

LEMMA SoundBefore ==
  ASSUME TypeOK, SingleJob, [Next]_vars, Sound'
  PROVE  /\ Sound /\ "expire" \notin events'
         /\ Without({"overlap"})
         /\ \A i, j \in Jobs : pc[i] # "idle" /\ pc[j] # "idle" => i = j
BY StepGrows, WithoutBefore DEF Sound, Without, SingleJob

LEMMA StepRowsLead ==
  ASSUME TypeOK, SingleJob, Blank, RowsLead, [Next]_vars
  PROVE  RowsLead'
<1> DEFINE R(i) == pc[i] \in Building =>
                     Leads(job[i].rows, Amounts(position_state), Amounts(job[i].book))
<1> SUFFICES ASSUME Sound' PROVE \A i \in Jobs : R(i)'
  BY DEF RowsLead
<1>0. /\ Sound /\ "expire" \notin events'
      /\ \A i, j \in Jobs : pc[i] # "idle" /\ pc[j] # "idle" => i = j
      /\ \A i \in Jobs : R(i)
  BY SoundBefore DEF RowsLead
<1>a. ASSUME NEW i \in Jobs, pc'[i] = pc[i], job'[i] = job[i],
             Amounts(position_state)' = Amounts(position_state)
      PROVE  R(i)'
  <2>1. Amounts(position_state') = Amounts(position_state)
    BY <1>a DEF Amounts
  <2> QED
    BY <1>0, <1>a, <2>1
<1>1. CASE UNCHANGED <<position_state, pc, job>>
  BY <1>1, <1>a DEF Amounts
<1>2. ASSUME NEW k \in Keys, Expire(k) PROVE \A i \in Jobs : R(i)'
  <2>1. \A e \in Keys : position_state'[e].qty = position_state[e].qty
    BY <1>0, <1>2, ExpireQuantities
  <2>2. Amounts(position_state)' = Amounts(position_state)
    BY <2>1 DEF Amounts
  <2> QED
    BY <1>2, <1>a, <2>2, ExpireStep
<1>3. ASSUME NEW j \in Jobs,
             \/ Leaves(j) \/ PassCheck(j) \/ CheckFails(j)
             \/ Read(j) \/ Load(j) \/ Apply(j)
             \/ DeletePartition(j) \/ PutPartition(j) \/ InsertLedger(j) \/ MarkGet(j)
      PROVE  \A i \in Jobs : R(i)'
  <2>1. \A i \in Jobs \ {j} : pc'[i] = pc[i] /\ job'[i] = job[i]
    BY <1>3, OutsideEffect, ReadStep, LoadStep, ApplyStep, StoreStep, MarkGetEffect
       DEF Elsewhere
  <2>2. position_state' = position_state
    <3>1. MarkGet(j) => position_state' = position_state
      BY DEF MarkGet, store
    <3> QED
      BY <1>3, <3>1, OutsideEffect, ReadStep, LoadStep, ApplyStep, StoreStep DEF Aside
  <2>3. R(j)'
    <3>1. CASE Leaves(j) \/ PassCheck(j) \/ CheckFails(j) \/ Read(j) \/ MarkGet(j)
      BY <3>1, OutsideEffect, ReadStep, MarkGetEffect DEF Holding, Building
    <3>2. CASE Load(j)
      <4>0. job[j] \in JobRecord
        BY DEF TypeOK
      <4>1. job'[j].book = OpenPositions /\ job'[j].rows = job[j].rows
        BY <3>2, <4>0, LoadStep DEF JobRecord
      <4>2. job'[j].rows = <<>>
        BY <3>2, <4>1, LoadStep DEF Blank
      <4>3. Amounts(OpenPositions) = Amounts(position_state)
        BY OpenQuantities DEF Amounts
      <4> QED
        BY <2>2, <4>1, <4>2, <4>3, LeadsNone
    <3>3. CASE Apply(j)
      <4>1. PICK t \in job[j].todo :
              /\ t \in Feed /\ ~Rejected(t.maker_direction, t.qty)
              /\ job'[j].book = BookAfter(BookAfter(job[j].book, t, MakerFill(t)), t, TakerFill(t))
              /\ job'[j].rows = job[j].rows
                   \o <<LedgerRow(job[j].book, t, MakerFill(t)),
                        LedgerRow(BookAfter(job[j].book, t, MakerFill(t)), t, TakerFill(t))>>
        BY <3>3, ApplyStep
      <4>2. job[j].rows \in Seq(Row) /\ job[j].book \in [Keys -> PositionState]
        BY DEF TypeOK, JobRecord
      <4>3. Leads(job[j].rows, Amounts(position_state), Amounts(job[j].book))
        BY <1>0, <3>3, ApplyStep DEF Building
      <4>4. Leads(job'[j].rows, Amounts(position_state), Amounts(job'[j].book))
        BY <4>1, <4>2, <4>3, LeadsBoth
      <4> QED
        BY <2>2, <4>4
    <3>4. CASE DeletePartition(j) \/ PutPartition(j) \/ InsertLedger(j)
      BY <1>0, <2>2, <3>4, StoreStep
    <3> QED
      BY <1>3, <3>1, <3>2, <3>3, <3>4
  <2> QED
    BY <1>a, <2>1, <2>2, <2>3 DEF Amounts
<1>4. ASSUME NEW j \in Jobs, InsertPositions(j)
      PROVE  \A i \in Jobs : R(i)'
  <2>1. ASSUME NEW i \in Jobs PROVE pc'[i] \notin Building
    BY <1>0, <1>4, InsertEffect, InsertStep DEF Building, Elsewhere
  <2> QED
    BY <2>1
<1> QED
  BY <1>1, <1>2, <1>3, <1>4, StepKinds

LEMMA StepLedgerLeads ==
  ASSUME LedgerInv, [Next]_vars
  PROVE  LedgerLeads'
<1> DEFINE AtBooks == \A j \in Jobs : pc[j] = "state" => Leads(ledger, Flat, Amounts(job[j].book))
           AtRest == (\A j \in Jobs : pc[j] # "state") => Leads(ledger, Flat, Amounts(position_state))
<1> SUFFICES ASSUME Sound', Without({"crash"})' PROVE AtBooks' /\ AtRest'
  BY DEF LedgerLeads
<1>0. /\ TypeOK /\ Sound /\ "expire" \notin events' /\ "crash" \notin events'
      /\ \A i, j \in Jobs : pc[i] # "idle" /\ pc[j] # "idle" => i = j
      /\ AtBooks /\ AtRest
  <2>1. TypeOK /\ SingleJob
    BY DEF LedgerInv, UpdateInv
  <2>2. Without({"crash"})
    BY <2>1, StepGrows, WithoutBefore
  <2> QED
    BY <2>1, <2>2, SoundBefore DEF LedgerInv, LedgerLeads, Without
<1>a. ASSUME ledger' = ledger, Amounts(position_state') = Amounts(position_state),
             \A j \in Jobs : (pc'[j] = "state" <=> pc[j] = "state")
                             /\ (pc[j] = "state" => job'[j] = job[j])
      PROVE  AtBooks' /\ AtRest'
  BY <1>0, <1>a
<1>1. CASE UNCHANGED <<position_state, ledger, pc, job>>
  BY <1>1, <1>a
<1>2. ASSUME NEW k \in Keys, Expire(k) PROVE AtBooks' /\ AtRest'
  <2>1. \A e \in Keys : position_state'[e].qty = position_state[e].qty
    BY <1>0, <1>2, ExpireQuantities
  <2>2. Amounts(position_state') = Amounts(position_state)
    BY <2>1 DEF Amounts
  <2> QED
    BY <1>0, <1>2, <1>a, <2>2, ExpireStep
<1>3. ASSUME NEW j \in Jobs,
             \/ Leaves(j) \/ PassCheck(j) \/ CheckFails(j)
             \/ Read(j) \/ Load(j) \/ Apply(j)
             \/ DeletePartition(j) \/ PutPartition(j) \/ MarkGet(j)
      PROVE  AtBooks' /\ AtRest'
  <2>1. \A i \in Jobs \ {j} : pc'[i] = pc[i] /\ job'[i] = job[i]
    BY <1>0, <1>3, OutsideEffect, ReadStep, LoadStep, ApplyStep, StoreStep, MarkGetEffect
       DEF Elsewhere
  <2>2. position_state' = position_state /\ ledger' = ledger
    <3>1. MarkGet(j) => position_state' = position_state /\ ledger' = ledger
      BY DEF MarkGet, store
    <3>2. DeletePartition(j) \/ PutPartition(j) => position_state' = position_state /\ ledger' = ledger
      BY DEF DeletePartition, PutPartition
    <3> QED
      BY <1>0, <1>3, <3>1, <3>2, OutsideEffect, ReadStep, LoadStep, ApplyStep DEF Aside
  <2>3. pc[j] # "state" /\ pc'[j] # "state"
    <3>1. CASE Leaves(j)
      BY <1>0, <3>1, LeavesEffect
         DEF Leaves, SkipDay, ReadNothing, MarkPut, Raise, Start, Crash, Admit
    <3>2. CASE PassCheck(j) \/ CheckFails(j)
      BY <1>0, <3>2 DEF PassCheck, CheckFails, TypeOK
    <3>3. CASE Read(j) \/ Load(j) \/ Apply(j) \/ MarkGet(j)
      BY <1>0, <3>3, ReadStep, LoadStep, ApplyStep, MarkGetEffect
    <3>4. CASE DeletePartition(j) \/ PutPartition(j)
      BY <1>0, <3>4 DEF DeletePartition, PutPartition, TypeOK
    <3> QED
      BY <1>3, <3>1, <3>2, <3>3, <3>4
  <2> QED
    BY <1>a, <2>1, <2>2, <2>3
<1>4. ASSUME NEW j \in Jobs, InsertLedger(j) PROVE AtBooks' /\ AtRest'
  <2>1. /\ pc[j] = "ledger" /\ pc'[j] = "state" /\ job' = job
        /\ ledger' = ledger \o job[j].rows
        /\ \A i \in Jobs \ {j} : pc'[i] = pc[i]
    BY <1>0, <1>4 DEF InsertLedger, TypeOK
  <2>2. \A i \in Jobs : pc[i] # "state"
    BY <1>0, <2>1
  <2>3. Leads(ledger, Flat, Amounts(position_state))
    BY <1>0, <2>2
  <2>4. Leads(job[j].rows, Amounts(position_state), Amounts(job[j].book))
    BY <1>0, <2>1 DEF LedgerInv, RowsLead, Building
  <2>5. ledger \in Seq(Row) /\ job[j].rows \in Seq(Row)
    BY <1>0 DEF TypeOK, JobRecord
  <2>6. Leads(ledger', Flat, Amounts(job[j].book))
    BY <2>1, <2>3, <2>4, <2>5, LeadsOn
  <2>7. \A i \in Jobs : pc'[i] = "state" => i = j
    BY <2>1, <2>2
  <2> QED
    BY <2>1, <2>6, <2>7
<1>5. ASSUME NEW j \in Jobs, InsertPositions(j) PROVE AtBooks' /\ AtRest'
  <2>1. ledger' = ledger /\ pc[j] = "state"
    BY <1>0, <1>5, InsertEffect, InsertStep
  <2>2. \A i \in Jobs : pc'[i] # "state"
    BY <1>0, <1>5, InsertEffect
  <2>3. \A k \in Keys : position_state'[k].qty = job[j].book[k].qty
    BY <1>0, <1>5, InsertKeeps DEF LedgerInv, UpdateInv
  <2>4. Amounts(position_state') = Amounts(job[j].book)
    BY <2>3 DEF Amounts
  <2>5. Leads(ledger, Flat, Amounts(job[j].book))
    BY <1>0, <2>1
  <2> QED
    BY <2>1, <2>2, <2>4, <2>5
<1> QED
  BY <1>0, <1>1, <1>2, <1>3, <1>4, <1>5, StepKinds

LEMMA LedgerStep == LedgerInv /\ [Next]_vars => LedgerInv'
BY UpdateStep, StepBlank, StepRowsLead, StepLedgerLeads DEF LedgerInv, UpdateInv

LEMMA InitLedger == Init => LedgerInv
<1> SUFFICES ASSUME Init PROVE LedgerInv
  OBVIOUS
<1>1. /\ \A j \in Jobs : pc[j] = "idle"
      /\ \A k \in Keys : position_state[k].qty = 0
      /\ ledger = <<>>
  BY DEF Init, EmptyPosition
<1>2. Amounts(position_state) = Flat
  BY <1>1 DEF Amounts, Flat
<1>3. Leads(ledger, Flat, Amounts(position_state))
  BY <1>1, <1>2, LeadsNone
<1> QED
  BY <1>1, <1>3, InitUpdate DEF LedgerInv, Blank, RowsLead, LedgerLeads, Building

(* The ledger of a key is one history, row after row.                      *)
THEOREM LedgerIsOneHistory == Spec => []LedgerChains
<1>1. LedgerInv => LedgerChains
  <2> SUFFICES ASSUME LedgerInv, Sound, Without({"crash"})
               PROVE  \A i, m \in DOMAIN ledger :
                        Follows(ledger, i, m) => ledger[m].qty_before = ledger[i].qty_after
    BY DEF LedgerChains, Sound, Without, Follows
  <2>1. CASE \E j \in Jobs : pc[j] = "state"
    BY <2>1 DEF LedgerInv, LedgerLeads, Leads
  <2>2. CASE \A j \in Jobs : pc[j] # "state"
    BY <2>2 DEF LedgerInv, LedgerLeads, Leads
  <2> QED
    BY <2>1, <2>2
<1> QED
  BY <1>1, LedgerStep, InitLedger, PTL DEF Spec

(* The positions are where the ledger ends, between the runs' inserts.     *)
THEOREM PositionsAreWhereLedgerEnds == Spec => []PositionsMatchLedger
<1>1. LedgerInv => PositionsMatchLedger
  <2> SUFFICES ASSUME LedgerInv, Sound, Without({"crash"}), \A j \in Jobs : pc[j] # "state",
                      NEW i \in DOMAIN ledger, LastOf(ledger, i)
               PROVE  position_state[ledger[i].key].qty = ledger[i].qty_after
    BY DEF PositionsMatchLedger, Sound, Without, LastOf
  <2>1. ledger[i].qty_after = Amounts(position_state)[ledger[i].key]
    BY DEF LedgerInv, LedgerLeads, Leads
  <2>2. ledger[i].key \in Keys
    <3>1. ledger \in Seq(Row)
      BY DEF LedgerInv, UpdateInv, TypeOK
    <3>2. ledger[i] \in Row
      BY <3>1
    <3> QED
      BY <3>2 DEF Row
  <2> QED
    BY <2>1, <2>2 DEF Amounts
<1> QED
  BY <1>1, LedgerStep, InitLedger, PTL DEF Spec
=============================================================================
