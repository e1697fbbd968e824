----------------------------- MODULE MCMergedMap -----------------------------
(* A merged map with two keys, on one of which the owners are monotone, two *)
(* owners and three values, of which two tie, for TLC.                      *)
EXTENDS MergedMap, TLC

CONSTANTS k1, k2, o1, o2, low, high, high2

MCKeys   == {k1, k2}
MCOwners == {o1, o2}
MCValues == {low, high, high2}

\* ArpCacheEntry.stale of a value: high and high2 are different entries that
\* were written at the same time.
MCStale(v) == IF v = low THEN 0 ELSE 1

MCOrdering(x, y) == MCStale(x) - MCStale(y)

\* The iteration meets o2 before o1.
MCRank == (o1 :> 2) @@ (o2 :> 1)

MCSymmetry == Permutations(Subscribers)
=============================================================================
