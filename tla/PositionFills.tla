--------------------------- MODULE PositionFills ---------------------------
(***************************************************************************)
(* One position under an arbitrary sequence of fills, with the cash those  *)
(* fills moved and the PnL the engine reported for them.                   *)
(***************************************************************************)
EXTENDS PositionAccounting, FiniteSets

CONSTANTS
  Quantities,    \* quantities a fill may carry; those <= 0 are refused
  Prices,        \* prices per unit
  Fees,          \* fees of one fill
  MaxFills       \* bound: fills applied in a behaviour

ASSUME FillAssumption ==
  /\ Quantities \subseteq Int
  /\ Prices \subseteq Nat
  /\ Fees \subseteq Nat
  /\ MaxFills \in Nat

VARIABLES
  position,      \* the PositionState
  clock,         \* timestamp of the last fill offered
  fills,         \* history: fills applied
  cash,          \* history: cash paid (-) and received (+), fees included
  realized,      \* history: sum of the realized_pnl of the fills
  openingFees,   \* history: fees of the fills that opened or grew a position
  era            \* history: prices and first timestamp since the position
                 \* last left zero or changed sign

fillsVars == <<position, clock, fills, cash, realized, openingFees, era>>

Sides == {"buy", "sell"}

NoEra == [prices |-> {}, since |-> NoTs]

(* Keeps the accumulated fraction small, so that equal sums are equal      *)
(* states.                                                                 *)
Lowest(r) ==
  LET divides(d) == r[1] % d = 0 /\ r[2] % d = 0
      g == CHOOSE d \in 1..r[2] : divides(d) /\ \A e \in (d + 1)..r[2] : ~divides(e)
  IN  <<r[1] \div g, r[2] \div g>>

FillsInit ==
  /\ position = EmptyPosition
  /\ clock = NoTs
  /\ fills = 0
  /\ cash = 0
  /\ realized = Whole(0)
  /\ openingFees = 0
  /\ era = NoEra

(* record_fill: the fill is applied and its result recorded.  Two fills    *)
(* may carry one timestamp.                                                *)
Fill(side, q, price, fees, ts) ==
  LET result == ApplyFill(position, side, q, price, fees, ts)
      after == result.position
      delta == SignedDelta(side, q)
      grows == IsIncreasing(position.qty, delta)
      sameEra == position.qty # 0 /\ (after.qty > 0) = (position.qty > 0)
  IN  /\ fills < MaxFills
      /\ ~Rejected(side, q)
      /\ position' = after
      /\ clock' = ts
      /\ fills' = fills + 1
      /\ cash' = cash - delta * price - fees
      /\ realized' = Lowest(RatioAdd(realized, result.realized_pnl))
      /\ openingFees' = IF grows THEN openingFees + fees ELSE openingFees
      /\ era' = CASE after.qty = 0 -> NoEra
                  [] after.qty # 0 /\ sameEra ->
                       [era EXCEPT !.prices = IF grows THEN @ \cup {price} ELSE @]
                  [] OTHER -> [prices |-> {price}, since |-> ts]

(* A refused fill leaves the position as it was.                           *)
Refuse(side, q) ==
  /\ Rejected(side, q)
  /\ UNCHANGED fillsVars

FillsNext ==
  \E side \in Sides, q \in Quantities :
    \/ Refuse(side, q)
    \/ \E price \in Prices, fees \in Fees, ts \in {clock, clock + 1} :
         /\ ts > NoTs
         /\ Fill(side, q, price, fees, ts)

FillsSpec == FillsInit /\ [][FillsNext]_fillsVars

(* ----------------------------- properties ----------------------------- *)

FillsTypeOK ==
  /\ position \in PositionState
  /\ position.avg_cost[2] > 0 /\ position.cost_basis[2] > 0
  /\ clock \in 0..MaxFills
  /\ fills \in 0..MaxFills
  /\ cash \in Int
  /\ realized \in Ratio
  /\ openingFees \in Nat

(* No money is made or lost by the bookkeeping: through increases, partial *)
(* closes, exact closes and flips, the PnL reported so far is the cash     *)
(* moved plus the cost of what is still held, and the fees of opening      *)
(* fills are the only amount the engine never charges to a PnL.            *)
AccountingIdentity ==
  RatioEq(realized,
          RatioAdd(Whole(cash + openingFees),
                   RatioTimes(position.qty, position.avg_cost)))

(* The average cost of an open position lies between the cheapest and the  *)
(* dearest fill that built it since it last left zero or changed sign: no  *)
(* price of an earlier, closed position leaks into it.                     *)
CostWithinEra ==
  position.qty # 0 =>
    /\ \E p \in era.prices : RatioLeq(Whole(p), position.avg_cost)
    /\ \E p \in era.prices : RatioLeq(position.avg_cost, Whole(p))

(* first_open_ts is the moment the position took its present direction,    *)
(* and None exactly when nothing is held.                                  *)
OpenedSince ==
  position.first_open_ts = era.since
=============================================================================
