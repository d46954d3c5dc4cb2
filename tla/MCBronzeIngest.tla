---------------------------- MODULE MCBronzeIngest ----------------------------
(***************************************************************************)
(* Two records that appear or change, in pages of one: a record, or the    *)
(* order of a catalog, may change before, between and after the pages of a *)
(* run.  Polymarket's catalogs are fetched alike: the markets change four  *)
(* times in two seconds and after, undisturbed; the events three times,    *)
(* disturbed.  A change of the order counts as one.                        *)
(***************************************************************************)
EXTENDS BronzeIngest, TLC

CONSTANTS j1, j2

MCJobs == {j1, j2}
MCRecords == {1, 2}
MCStreams == AllStreams
MCKinds == Kinds
MCHorizon == [s \in MCStreams |-> IF s \in DateScoped THEN 4 ELSE 2]
MCChanges ==
  [s \in MCStreams |-> IF s = "markets" THEN 4 ELSE IF s = "events" THEN 3 ELSE 2]
MCShocks == [s \in MCStreams |-> IF s = "markets" THEN 0 ELSE 1]

EitherJob == Permutations(MCJobs)
=============================================================================
