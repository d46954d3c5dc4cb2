-------------------------- MODULE TradeSettlement --------------------------
(***************************************************************************)
(* What the trade processor promises: every trade enters the balances      *)
(* once, a day at a time, in the order of the days.                        *)
(***************************************************************************)
EXTENDS Integers, FiniteSetsExt

CONSTANTS
  Keys,         \* (wallet, outcome) pairs
  Feed,         \* trades
  DayOf(_),     \* the day of a timestamp
  Moved(_, _)   \* what a trade moves for a key

VARIABLES
  balance,      \* quantity held under each key
  settled       \* trades that have entered the balances

vars == <<balance, settled>>

Init ==
  /\ balance = [k \in Keys |-> 0]
  /\ settled = {}

(* One day's batch: all its trades at once, after every earlier day.       *)
Settle(batch) ==
  /\ batch # {}
  /\ \A t, u \in batch : DayOf(t.ts) = DayOf(u.ts)
  /\ \A t \in batch, s \in settled : DayOf(s.ts) < DayOf(t.ts)
  /\ balance' = [k \in Keys |->
                   balance[k] + MapThenSumSet(LAMBDA t : Moved(t, k), batch)]
  /\ settled' = settled \cup batch

Next == \E batch \in SUBSET Feed : Settle(batch)

Spec == Init /\ [][Next]_vars
=============================================================================
