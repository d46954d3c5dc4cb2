---------------------------- MODULE MCSilverTables ----------------------------
(***************************************************************************)
(* Two events, two markets and two trades.  Entity 1 has three versions,   *)
(* two of them on one day; entity 2 is undated first.  A part file holds   *)
(* two versions of entity 1, and one of trades two fills with the same     *)
(* dedup key.  A file is an orphan from the next day on.                   *)
(***************************************************************************)
EXTENDS GoldDimensions, TLC

CONSTANTS j1, j2, ann, bob, sports, news

MCJobs == {j1, j2}
EitherJob == Permutations(MCJobs)

R(id, time, ends, fill) == [id |-> id, time |-> time, ends |-> ends, fill |-> fill, good |-> TRUE]

MCBronze ==
  << R(1, 2, 0, 1), R(1, 3, 0, 2), R(1, 4, 0, 3),
     R(2, 0, 2, 4), R(2, 3, 0, 4), R(3, 3, 0, 1) >>

F(dt, records) == [dt |-> dt, records |-> records]

MCPartFiles ==
  [polymarket_markets |-> << F(1, <<1, 4, 4>>), F(1, <<2>>) >>,
   polymarket_events |-> << F(1, <<1, 4>>), F(2, <<3, 5>>), F(2, <<2, 3>>) >>,
   polymarket_trades |-> << F(1, <<1, 6>>), F(2, <<3, 5>>) >>]

MCTables == {"polymarket_markets", "polymarket_events", "polymarket_trades"}

MCDimensions == {"market", "outcome", "event", "category", "wallet"}
MCMaxLoads == [d \in MCDimensions |-> IF d \in {"market", "outcome"} THEN 2 ELSE 1]
MCMaxWrites == [t \in MCTables |-> IF t = "polymarket_markets" THEN 2 ELSE 3]

(* Every kind of disturbance, each on the table whose rows or loads it can *)
(* spoil.                                                                  *)
MCDisturbances ==
  [polymarket_markets |-> {"crash", "again", "older"},
   polymarket_events |-> {"crash", "again"},
   polymarket_trades |-> {"overwrite", "slow", "deleteError"}]

MCTokens == <<2, 1, 2, 2, 2, 2>>
MCCategory == <<sports, news, news, sports, sports, news>>
MCWallets == << <<ann, bob>>, <<ann, bob>>, <<bob, ann>>, <<ann, bob>>, <<ann, ann>>, <<bob, bob>> >>

MCModes ==
  [polymarket_markets |-> {"merge", "append"}, polymarket_events |-> {"append"},
   polymarket_trades |-> {"append", "overwrite"}]
MCByDay == MCTables \ {"polymarket_events"}
AllOperations == {{"compact", "dedup", "expire", "orphans"}}
===============================================================================
