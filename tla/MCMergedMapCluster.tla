------------------------- MODULE MCMergedMapCluster -------------------------
(* Participants of a merged map for TLC; values are the times of the writes. *)
EXTENDS MergedMapCluster

CONSTANT o1

MCOrdering(x, y) == x - y
MCRank == [o \in Owners |-> IF o = o1 THEN 2 ELSE 1]
=============================================================================
