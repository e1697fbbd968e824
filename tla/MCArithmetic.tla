---------------------------- MODULE MCArithmetic ----------------------------
(* The pure parts of the system, over every input within bounds: one state *)
(* per input.                                                              *)
EXTENDS NodeAssignment, Topology, BlockDistribution, ArpEntry

CONSTANTS
    MaxRanks, MaxMaps, MaxPerNode,   \* assignments of parts to ranks
    MaxTreeSize, MaxFanout,          \* trees
    MaxItems, MaxProcs,              \* distributions
    MaxTime, MaxPieces               \* times and names in messages

ASSUME BoundsAssumption ==
    \A b \in {MaxRanks, MaxMaps, MaxPerNode, MaxTreeSize, MaxFanout, MaxItems,
              MaxProcs, MaxTime, MaxPieces} : b \in Nat

VARIABLE case   \* [part, of]

Assignments ==
    {c \in [kind : {"single", "multi"}, size : 1 .. MaxRanks,
            numberOfMaps : 0 .. MaxMaps, readersPerMap : 0 .. MaxPerNode,
            perWriter : 1 .. MaxPerNode, perReader : 1 .. MaxPerNode] :
        ~NotEnoughNodes(c)}

Trees ==
    {t \in [kind : {"tree", "bmtree", "in_order_bmtree", "chain", "in_order_bintree"},
            fanout : 1 .. MaxFanout, size : 2 .. MaxTreeSize, root : 0 .. MaxTreeSize - 1] :
        /\ t.root < t.size
        /\ t.kind = "tree" => t.fanout > 1
        /\ t.kind \in {"bmtree", "in_order_bmtree", "in_order_bintree"} => t.fanout = 2}

Distributions == [items : 0 .. MaxItems, procs : 1 .. MaxProcs]

Times == [from : -MaxTime .. MaxTime, upto : -MaxTime .. MaxTime]

(* Names of owners, by their pieces between dashes.                        *)
Names == UNION {[1 .. n -> {Empty, [name |-> 1], [name |-> 2]}] : n \in 1 .. MaxPieces}

InitCase ==
    \/ \E c \in Assignments : case = [part |-> "assignment", of |-> c]
    \/ \E t \in Trees : case = [part |-> "tree", of |-> t]
    \/ \E d \in Distributions : case = [part |-> "distribution", of |-> d]
    \/ \E t \in Times : case = [part |-> "times", of |-> t]
NextCase == UNCHANGED case
CaseSpec == InitCase /\ [][NextCase]_case

(* In the assignment at hand, every map has its one writer and its readers *)
(* and every rank that is counted in has maps to work on.                  *)
MapsServed ==
    case.part = "assignment" => EveryMapServed(case.of) /\ NobodyIdle(case.of)

(* In the assignment at hand, the writer of a map precedes its readers.    *)
WritersPrecede == case.part = "assignment" => WritersFirst(case.of)

(* The places that the ranks compute for themselves in a tree of           *)
(* coll_tuned_topo.c fit together to one tree from the root to everybody.  *)
TreesSpan ==
    case.part = "tree" =>
        Spans(case.of.kind, case.of.fanout, case.of.size, case.of.root)

(* The blocks of BlockDistribution cover the items without overlap, and    *)
(* compactGlobalArray agrees with getGlobalOffset.                         *)
BlocksTile == case.part = "distribution" => Tiles(case.of.items, case.of.procs)

(* arpOrdering is an ordering on times whose differences fit into an Int,  *)
(* and it is the order in time.                                            *)
TimesOrdered ==
    case.part = "times" =>
        LET times == case.of.from .. case.of.upto
        IN  Close(times) =>
                /\ IsOrdering(times)
                /\ \A x, y \in times : compare(x, y) >= 0 <=> x >= y

(* A message of the ARP map is read back as it was written, if its time is *)
(* not below 0, as that of a failed clock is, and the name of its owner is *)
(* neither empty nor has a dash in it.  Any other message is not read at   *)
(* all or loses the end of its owner's name, but is never taken for one    *)
(* with another address or time.                                           *)
MessagesReadBack ==
    case.part = "times" =>
        \A owner \in Names :
            LET m == <<[ip |-> 1], case.of.from, owner>>
                read == fromBytes(serialize(m))
            IN  /\ m[2] >= 0 /\ Len(owner) = 1 /\ owner[1] # Empty => read = m
                /\ read \in {m, Malformed, <<m[1], m[2], <<owner[1]>>>>}
=============================================================================
