------------------------------ MODULE MCGoldDaily ------------------------------
(* Instances of GoldDaily for TLC.                                         *)
EXTENDS GoldDaily, TLC

CONSTANTS
  j1, j2,     \* processes
  w1, w2,     \* wallets
  m           \* a market

yes == <<m, "token1">>
no == <<m, "token2">>

MCJobs == {j1, j2}

MCWallets == {w1, w2}

MCWatchlist == {w1}

Fill(d, w, o, delta) == [day |-> d, wallet |-> w, outcome |-> o, delta |-> delta]

(* A position opened and closed, and two of two wallets that stay open.    *)
MCFills == {Fill(1, w1, yes, 1), Fill(2, w1, yes, -1), Fill(2, w1, no, 1), Fill(1, w2, no, 1)}

(* A position opened on the first day and changed on the second, and the   *)
(* command that computes snapshots of days that are asked for.             *)
MCOneJob == {j1}
MCTwoDayFills == {Fill(1, w1, yes, 1), Fill(2, w1, yes, 1)}
MCReplays == {"ondemand"}

MCSymmetry == Permutations(MCJobs)

===============================================================================
