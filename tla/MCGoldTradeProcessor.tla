------------------------ MODULE MCGoldTradeProcessor ------------------------
(***************************************************************************)
(* Three wallets trade one outcome: ann buys from bob, bob buys back and   *)
(* more from cat (a flip), and apply_fill refuses a trade of ann and cat.  *)
(***************************************************************************)
EXTENDS GoldTradeProcessor, TLC

CONSTANTS j1, j2, ann, bob, cat, yes

T(id, ts, maker, taker, side, qty, price) ==
  [id |-> id, ts |-> ts, outcome |-> yes, maker |-> maker, taker |-> taker,
   maker_direction |-> side, qty |-> qty, price |-> price]

(* Days are ten timestamps long: days 1 and 2 start at 10 and 20.  The     *)
(* second day also has a trade with a negative token_amount.               *)
MCFeed == {T(1, 11, ann, bob, "buy", 2, 1),
           T(2, 21, cat, bob, "sell", 3, 2),
           T(3, 22, ann, cat, "buy", -1, 3)}

MCTwoJobs == {j1, j2}
MCWallets == {ann, bob, cat}
MCOutcomes == {yes}

EitherJob == Permutations(MCTwoJobs)
=============================================================================
