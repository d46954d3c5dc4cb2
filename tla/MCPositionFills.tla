-------------------------- MODULE MCPositionFills --------------------------
(***************************************************************************)
(* Fills of one to three units at three prices, with and without a fee,    *)
(* and one quantity that apply_fill refuses.  Four fills are enough to     *)
(* open, grow, partly close and flip a position, and to open it again      *)
(* after a close.                                                          *)
(***************************************************************************)
EXTENDS PositionFills

MCQuantities == {-1, 1, 3}
MCPrices == {1, 2, 4}
MCFees == {0, 1}
=============================================================================
