------------------------- MODULE PositionAccounting -------------------------
(***************************************************************************)
(* The average-cost engine of gold/accounting.py: one position of one      *)
(* (wallet, platform, market, outcome) and what a fill does to it.         *)
(*                                                                         *)
(* Money is exact here: a ratio <<n, d>> stands for n / d, because an      *)
(* average cost is a quotient.  The code uses floats; rounding is outside  *)
(* this module.  A definition that says what it does wrong is a slip the   *)
(* properties must refute; the system never uses it.                       *)
(***************************************************************************)
EXTENDS Integers

(* ------------------------------ ratios -------------------------------- *)

Abs(x) == IF x < 0 THEN -x ELSE x

Whole(n) == <<n, 1>>

RatioAdd(a, b) == <<a[1] * b[2] + b[1] * a[2], a[2] * b[2]>>

RatioTimes(n, a) == <<n * a[1], a[2]>>

RatioNeg(a) == <<-a[1], a[2]>>

RatioEq(a, b) == a[1] * b[2] = b[1] * a[2]

(* Both denominators are positive.                                         *)
RatioLeq(a, b) == a[1] * b[2] <= b[1] * a[2]

Ratio == Int \X Int

(* ------------------------------ positions ----------------------------- *)

(* A timestamp of None.                                                    *)
NoTs == 0

(* PositionState: qty > 0 is a long position, qty < 0 a short one.         *)
PositionState ==
  [qty : Int, avg_cost : Ratio, cost_basis : Ratio,
   last_fill_ts : Int, first_open_ts : Int]

(* A PositionState as the constructor leaves it.                           *)
EmptyPosition ==
  [qty |-> 0, avg_cost |-> Whole(0), cost_basis |-> Whole(0),
   last_fill_ts |-> NoTs, first_open_ts |-> NoTs]

SignedDelta(side, qty_delta) == IF side = "buy" THEN qty_delta ELSE -qty_delta

(* What apply_fill refuses with a ValueError, before it changes anything.  *)
Rejected(side, qty_delta) == side \notin {"buy", "sell"} \/ qty_delta <= 0

IsIncreasing(qty, delta) == qty = 0 \/ ((qty > 0) = (delta > 0))

(* RealizedPnl for long positions only: a short one gets the wrong sign.   *)
PnlIgnoringShorts(p, close_qty, price, fees) ==
  RatioAdd(RatioTimes(close_qty, RatioAdd(Whole(price), RatioNeg(p.avg_cost))),
           Whole(-fees))

(* close_qty * (price - avg_cost) - fees for a long position, with the     *)
(* difference the other way round for a short one.                         *)
RealizedPnl(p, close_qty, price, fees) ==
  LET gain == RatioAdd(Whole(price), RatioNeg(p.avg_cost))
      perUnit == IF p.qty > 0 THEN gain ELSE RatioNeg(gain)
  IN  RatioAdd(RatioTimes(close_qty, perUnit), Whole(-fees))

(* The weighted average cost of a position that grows by delta.            *)
WeightedCost(p, delta, price) ==
  IF p.qty = 0
  THEN Whole(price)
  ELSE <<Abs(p.qty) * p.avg_cost[1] + Abs(delta) * price * p.avg_cost[2],
         p.avg_cost[2] * Abs(p.qty + delta)>>

ApplyIncrease(p, delta, price, fees) ==
  LET avg == WeightedCost(p, delta, price)
      qty == p.qty + delta
  IN  [position |-> [p EXCEPT !.qty = qty, !.avg_cost = avg,
                              !.cost_basis = RatioAdd(RatioTimes(Abs(qty), avg),
                                                      Whole(fees))],
       realized_pnl |-> Whole(0)]

(* A fill of at most the held quantity: the average cost stays, and an     *)
(* exact close forgets when the position was opened.                       *)
Decrease(p, delta, price, fees) ==
  LET qty == p.qty + delta
  IN  [position |-> [p EXCEPT !.qty = qty,
                              !.cost_basis = IF qty = 0 THEN Whole(0)
                                             ELSE RatioTimes(Abs(qty), p.avg_cost),
                              !.first_open_ts = IF qty = 0 THEN NoTs ELSE @],
       realized_pnl |-> RealizedPnl(p, Abs(delta), price, fees)]

(* Flip that keeps the average cost of the closed position.                *)
FlipKeepingCost(p, delta, price, fees) ==
  LET remainder == Abs(delta) - Abs(p.qty)
  IN  [position |-> [p EXCEPT !.qty = IF delta > 0 THEN remainder ELSE -remainder,
                              !.cost_basis = RatioTimes(remainder, p.avg_cost),
                              !.first_open_ts = p.last_fill_ts],
       realized_pnl |-> RealizedPnl(p, Abs(p.qty), price, fees)]

(* Flip that keeps the opening time of the closed position.                *)
FlipKeepingOpening(p, delta, price, fees) ==
  LET remainder == Abs(delta) - Abs(p.qty)
  IN  [position |-> [p EXCEPT !.qty = IF delta > 0 THEN remainder ELSE -remainder,
                              !.avg_cost = Whole(price),
                              !.cost_basis = Whole(remainder * price)],
       realized_pnl |-> RealizedPnl(p, Abs(p.qty), price, fees)]

(* A fill of more than the held quantity closes the position and opens the *)
(* remainder in the other direction; all fees go to the closed part.       *)
Flip(p, delta, price, fees) ==
  LET remainder == Abs(delta) - Abs(p.qty)
  IN  [position |-> [p EXCEPT !.qty = IF delta > 0 THEN remainder ELSE -remainder,
                              !.avg_cost = Whole(price),
                              !.cost_basis = Whole(remainder * price),
                              !.first_open_ts = p.last_fill_ts],
       realized_pnl |-> RealizedPnl(p, Abs(p.qty), price, fees)]

ApplyReduce(p, delta, price, fees) ==
  IF Abs(delta) <= Abs(p.qty) THEN Decrease(p, delta, price, fees)
                              ELSE Flip(p, delta, price, fees)

(* apply_fill on a fill that is not Rejected: the position after it and    *)
(* the PnL it realizes.                                                    *)
ApplyFill(p, side, qty_delta, price, fees, ts) ==
  LET touched == [p EXCEPT !.last_fill_ts = ts,
                           !.first_open_ts = IF p.qty = 0 THEN ts ELSE @]
      delta == SignedDelta(side, qty_delta)
  IN  IF IsIncreasing(p.qty, delta)
      THEN ApplyIncrease(touched, delta, price, fees)
      ELSE ApplyReduce(touched, delta, price, fees)
=============================================================================
