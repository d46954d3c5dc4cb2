--------------------------- MODULE MCSilverCatchup ---------------------------
(***************************************************************************)
(* Three ingestion runs over two days: a on the first and b and c on the   *)
(* second, a with two part files.  In the catalog instance b is a snapshot *)
(* that may supersede the delta c, and the first day has no snapshot.      *)
(***************************************************************************)
EXTENDS SilverCatchup, TLC

CONSTANTS j1, j2, a, b, c

MCOneJob == {j1}
MCTwoJobs == {j1, j2}
MCRuns == {a, b, c}
MCTwoRuns == {a, b}

MCDt == [r \in Runs |-> IF r = a THEN 1 ELSE 2]
MCParts == [r \in Runs |-> IF r = a THEN 2 ELSE 1]
MCStream == [r \in Runs |-> "snapshot"]
MCCatalog == [r \in Runs |-> IF r = b THEN "snapshot" ELSE "delta"]

EitherJob == Permutations(MCTwoJobs)

CatchupOnly == {"catchup"}
Writing == {"catchup", "merge", "overwrite"}

Interruptions == {"crash", "getError", "manifestError", "readError", "growing", "late"}
=============================================================================
