--------------------------- MODULE NodeAssignment ---------------------------
(***************************************************************************)
(* Which rank of an MPI job plays which part in a benchmark: the           *)
(* arithmetic at the head of MergedMapTestBench.run ("single": a node      *)
(* serves one map) and of MultiMergedMapTestBench.run ("multi": a node     *)
(* serves a block of maps).  A configuration c is a record with fields     *)
(*   kind           "single" or "multi"                                    *)
(*   size           worldSize, the number of ranks                         *)
(*   numberOfMaps   the maps are 0 .. numberOfMaps-1                       *)
(*   readersPerMap  "single" only                                          *)
(*   perWriter, perReader   maxNumberOfMapsPerWriter / -Reader, "multi"    *)
(***************************************************************************)
EXTENDS Integers, FiniteSets

Ranks(c) == 0 .. (c.size - 1)
MapIds(c) == 0 .. (c.numberOfMaps - 1)

(* n / d, plus one when n % d > 0: how MultiMergedMapTestBench.run counts  *)
(* the nodes it needs.                                                     *)
NodesNeeded(n, d) == (n \div d) + (IF n % d > 0 THEN 1 ELSE 0)

numberOfWriterNodesNeeded(c) ==
    IF c.kind = "single" THEN c.numberOfMaps
    ELSE NodesNeeded(c.numberOfMaps, c.perWriter)

numberOfReaderNodesNeeded(c) ==
    IF c.kind = "single" THEN c.numberOfMaps * c.readersPerMap
    ELSE NodesNeeded(c.numberOfMaps, c.perReader)

(* The test of both run methods, on which they throw                       *)
(* NotEnoughNodesAvailableException.                                       *)
NotEnoughNodes(c) ==
    numberOfReaderNodesNeeded(c) + numberOfWriterNodesNeeded(c) > c.size

Participates(c, r) ==
    r < numberOfReaderNodesNeeded(c) + numberOfWriterNodesNeeded(c)

(* Single: ranks come in groups of one writer followed by its readers.     *)
mapRank(c, r) == r % (1 + c.readersPerMap)
myMapId(c, r) == r \div (1 + c.readersPerMap)

(* The last of a group writes, or the last ranks do.                       *)
imTheWriter_Mutant(c, r) ==
    /\ Participates(c, r)
    /\ IF c.kind = "single" THEN mapRank(c, r) = c.readersPerMap
       ELSE r >= numberOfReaderNodesNeeded(c)

imTheWriter(c, r) ==
    /\ Participates(c, r)
    /\ IF c.kind = "single" THEN mapRank(c, r) = 0
       ELSE r < numberOfWriterNodesNeeded(c)

(* The block is one too long, and is not cut off.                          *)
calculateMapNames_Mutant(nodeId, maxNumberOfMaps, mapsPerNode) ==
    {m \in 0 .. maxNumberOfMaps :
        nodeId * mapsPerNode <= m /\ m <= (nodeId + 1) * mapsPerNode}

(* Multi: the block of maps of the node with this id among its kind.  The  *)
(* last block is cut off at the number of maps.                            *)
calculateMapNames(nodeId, maxNumberOfMaps, mapsPerNode) ==
    LET last  == (nodeId + 1) * mapsPerNode
        bound == IF last < maxNumberOfMaps THEN last ELSE maxNumberOfMaps
    IN  {m \in 0 .. maxNumberOfMaps : nodeId * mapsPerNode <= m /\ m < bound}

(* The maps rank r opens a MergedMap on.                                   *)
myMaps(c, r) ==
    IF ~Participates(c, r) THEN {}
    ELSE IF c.kind = "single" THEN {myMapId(c, r)}
    ELSE IF imTheWriter(c, r)
         THEN calculateMapNames(r, c.numberOfMaps, c.perWriter)
         ELSE calculateMapNames(r - numberOfWriterNodesNeeded(c),
                                c.numberOfMaps, c.perReader)

Writes(c, r) == IF imTheWriter(c, r) THEN myMaps(c, r) ELSE {}
Reads(c, r)  == IF imTheWriter(c, r) THEN {} ELSE myMaps(c, r)

-----------------------------------------------------------------------------
(* What the two run methods need of this arithmetic.                       *)

IsConfig(c) ==
    /\ c.kind \in {"single", "multi"}
    /\ c.size \in Nat \ {0}
    /\ c.numberOfMaps \in Nat
    /\ c.readersPerMap \in Nat
    /\ c.perWriter \in Nat \ {0}
    /\ c.perReader \in Nat \ {0}

ReadersOf(c, m) == {r \in Ranks(c) : m \in Reads(c, r)}

(* Every map has one writer, and as many readers as the benchmark asks     *)
(* for: readersPerMap, or one where nodes read several maps.               *)
EveryMapServed(c) ==
    \A m \in MapIds(c) :
        /\ \E w \in Ranks(c) :
              \A r \in Ranks(c) : m \in Writes(c, r) <=> r = w
        /\ Cardinality(ReadersOf(c, m)) =
              IF c.kind = "single" THEN c.readersPerMap ELSE 1

(* The writer of a map has a lower rank than its readers, which is what    *)
(* lets a reader's setup() wait for the writer's: throttledSetup goes by   *)
(* rank.                                                                   *)
WritersFirst(c) ==
    \A r \in Ranks(c) : \A m \in Reads(c, r) :
        \E q \in Ranks(c) : q < r /\ m \in Writes(c, q)

(* A rank that takes part has at least one map, and only maps that exist.  *)
NobodyIdle(c) ==
    \A r \in Ranks(c) :
        /\ Participates(c, r) => myMaps(c, r) # {}
        /\ myMaps(c, r) \subseteq MapIds(c)
=============================================================================
