--------------------------- MODULE MCAccountTables ---------------------------
(***************************************************************************)
(* Two requests.  The lists and the templates share nothing, so a          *)
(* behaviour writes to one list or to the templates (OneTable).            *)
(***************************************************************************)
EXTENDS AccountTables, TLC

CONSTANTS r1, r2, k1, k2, t1, t2, t3, n1, n2, n3

MCRequests == {r1, r2}
MCKeys == {k1, k2}
MCIds == {t1, t2, t3}
MCNames == {n1, n2, n3}

Alike ==
  Permutations(MCRequests) \cup Permutations(MCKeys)
    \cup Permutations(MCIds) \cup Permutations(MCNames)

UsesList(l) == \/ \E k \in Keys : rows[l][k] > 0
               \/ \E r \in Requests : request[r].list = l

UsesTemplates == \/ \E i \in Ids : name[i] # NoName
                 \/ \E r \in Requests : request[r].op \in {"create", "update", "delete"}

OneTable == Cardinality({l \in Lists : UsesList(l)}) + (IF UsesTemplates THEN 1 ELSE 0) <= 1
=============================================================================
