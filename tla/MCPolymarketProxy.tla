-------------------------- MODULE MCPolymarketProxy --------------------------
(***************************************************************************)
(* Two requests for two answers of which the cache holds one.              *)
(***************************************************************************)
EXTENDS PolymarketProxy, TLC

CONSTANTS r1, r2, k1, k2

MCRequests == {r1, r2}
MCKeys == {k1, k2}
MCDelays == {1}
=============================================================================
