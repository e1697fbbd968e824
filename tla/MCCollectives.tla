---------------------------- MODULE MCCollectives ----------------------------
(* Jobs for TLC: every algorithm, twice in a row, on small communicators.  *)
EXTENDS Collectives

Barrier(alg) == [op |-> "barrier", alg |-> alg]
Bcast(alg, root, count, segsize, chains, bytes) ==
    [op |-> "bcast", alg |-> alg, root |-> root, count |-> count,
     segsize |-> segsize, chains |-> chains, bytes |-> bytes]

Job(size, script, long) == [size |-> size, script |-> script, long |-> long]

(* Two barriers in a row, whose messages look the same.                    *)
Barriers ==
    {Job(n, <<Barrier(a), Barrier(a)>>, FALSE) :
        n \in 1 .. 4, a \in (BarrierAlgs \cup {"fixed"}) \ {"two_procs"}}
    \cup {Job(2, <<Barrier("two_procs"), Barrier("two_procs")>>, FALSE)}

(* Two broadcasts in a row, in two segments, from different roots: the     *)
(* second one may overtake the first, and needs other trees.               *)
Broadcasts ==
    {Job(3, <<Bcast(a, 0, 3, 2, 2, 1), Bcast(a, 1, 3, 2, 2, 1)>>, long) :
        a \in BcastAlgs \cup {"fixed"}, long \in BOOLEAN}

(* A broadcast in more segments than there are requests for them, and one  *)
(* in two halves, followed by a barrier.                                   *)
Mixed ==
    {Job(3, <<Bcast(a, 1, 3, 1, 2, 1), Barrier("fixed")>>, long) :
        a \in {"chain", "bintree"}, long \in BOOLEAN}
    \cup {Job(n, <<Bcast("split_bintree", n - 1, 4, 1, 0, 1), Barrier("fixed")>>, long) :
            n \in {3, 4}, long \in BOOLEAN}
    \cup {Job(4, <<Bcast("fixed", 1, 4, 0, 0, 1024), Bcast("fixed", 1, 0, 0, 0, 1)>>, TRUE),
          Job(4, <<Bcast("chain", 1, 1, 0, 2, 1), Bcast("chain", 1, 1, 0, 3, 1)>>, FALSE)}

(* Segment sizes that are no multiple of the element's: rounded up to two  *)
(* elements, cut to one, larger than half of the data and smaller than an  *)
(* element.                                                                *)
OddSegments ==
    {Job(3, <<Bcast("chain", 0, 3, 5, 1, 3)>>, FALSE),
     Job(3, <<Bcast("split_bintree", 0, 4, 3, 0, 2)>>, TRUE),
     Job(3, <<Bcast("split_bintree", 0, 4, 5, 0, 2)>>, FALSE),
     Job(3, <<Bcast("fixed", 2, 4, 0, 0, 2048)>>, TRUE)}

AllConfigs == Barriers \cup Broadcasts \cup Mixed \cup OddSegments
=============================================================================
