-------------------------- MODULE TestBenchProofs --------------------------
(***************************************************************************)
(* What the benchmarks compute with, for every input: the parts of the     *)
(* ranks, the ordering and the codec of ARP entries, and the block         *)
(* distribution; then the invariants of MCArithmetic, whatever its bounds; *)
(* and the phases of the test cycle, which are separated on every number   *)
(* of ranks and for every assignment of maps.                              *)
(***************************************************************************)
EXTENDS TestBench, MCArithmetic, TopologyProofs, SequenceTheorems

-----------------------------------------------------------------------------
(* The parts of the ranks (NodeAssignment).                                *)

(* The two ways the code writes the number of nodes of the single-map      *)
(* benchmark.                                                              *)
LEMMA MulDistributes ==
    ASSUME NEW a \in Nat, NEW b \in Nat
    PROVE  a * b + a = (1 + b) * a
OBVIOUS

(* The number of nodes is that of the blocks of d maps it takes to hold n. *)
LEMMA NodesNeededBlocks ==
    ASSUME NEW n \in Nat, NEW d \in Nat \ {0}
    PROVE  /\ NodesNeeded(n, d) \in Nat
           /\ n <= d * NodesNeeded(n, d)
           /\ \A i \in Nat : i < NodesNeeded(n, d) => d * i < n
  <1>1. /\ n \div d \in Nat
        /\ n % d \in 0 .. (d - 1)
        /\ n = d * (n \div d) + (n % d)
    BY DivMod
  <1>2. CASE n % d > 0
    <2>1. NodesNeeded(n, d) = (n \div d) + 1
      BY <1>2 DEF NodesNeeded
    <2>2. d * ((n \div d) + 1) = d * (n \div d) + d
      BY <1>1
    <2>3. \A i \in Nat : i <= n \div d => d * i <= d * (n \div d)
      BY <1>1, MulMonotone
    <2> QED
      BY <1>1, <1>2, <2>1, <2>2, <2>3
  <1>3. CASE n % d = 0
    <2>1. NodesNeeded(n, d) = n \div d
      BY <1>1, <1>3 DEF NodesNeeded
    <2>2. ASSUME NEW i \in Nat, i < n \div d
          PROVE  d * i < n
      <3>1. d * (i + 1) <= d * (n \div d)
        BY <1>1, <2>2, MulMonotone
      <3>2. d * (i + 1) = d * i + d
        OBVIOUS
      <3> QED
        BY <1>1, <1>3, <3>1, <3>2
    <2> QED
      BY <1>1, <1>3, <2>1, <2>2
  <1> QED
    BY <1>1, <1>2, <1>3

-----------------------------------------------------------------------------
(* The rank that writes map m.                                             *)
writerRank(c, m) ==
    IF c.kind = "single" THEN (1 + c.readersPerMap) * m
    ELSE m \div c.perWriter

(* What calculateMapNames returns, without the minimum.                    *)
LEMMA BlockOfNode ==
    ASSUME NEW i \in Nat, NEW n \in Nat, NEW d \in Nat \ {0}, NEW m
    PROVE  m \in calculateMapNames(i, n, d)
             <=> m \in Nat /\ m < n /\ m \div d = i
  <1> DEFINE bound == IF (i + 1) * d < n THEN (i + 1) * d ELSE n
  <1>1. (i + 1) * d = d * i + d /\ i * d = d * i
    OBVIOUS
  <1>2. d * i \in Nat
    OBVIOUS
  <1>3. m \in calculateMapNames(i, n, d)
          <=> m \in Nat /\ d * i <= m /\ m < n /\ m < d * i + d
    BY <1>1, <1>2 DEF calculateMapNames
  <1>4. ASSUME m \in Nat, d * i <= m, m < d * i + d
        PROVE  m \div d = i
    <2>1. m - d * i \in 0 .. (d - 1)
      BY <1>2, <1>4
    <2>2. m = d * i + (m - d * i)
      BY <1>2, <1>4
    <2> QED
      BY <2>1, <2>2, Quotient
  <1>5. ASSUME m \in Nat, m \div d = i
        PROVE  d * i <= m /\ m < d * i + d
    BY <1>5, <1>2, DivMod
  <1> QED
    BY <1>3, <1>4, <1>5

(* Single: the rank of the writer of m, and who else is in its group.      *)
LEMMA SingleGroups ==
    ASSUME NEW c, IsConfig(c), ~NotEnoughNodes(c), c.kind = "single",
           NEW r \in Ranks(c)
    PROVE  /\ Participates(c, r) => myMapId(c, r) \in MapIds(c)
           /\ \A m \in MapIds(c) :
                /\ (1 + c.readersPerMap) * m \in Ranks(c)
                /\ Participates(c, (1 + c.readersPerMap) * m)
                /\ (r = (1 + c.readersPerMap) * m)
                     <=> (myMapId(c, r) = m /\ mapRank(c, r) = 0)
                /\ myMapId(c, r) = m => (1 + c.readersPerMap) * m <= r
  <1> DEFINE n == 1 + c.readersPerMap
  <1>0. /\ n \in Nat \ {0}
        /\ c.numberOfMaps \in Nat
        /\ c.size \in Nat
        /\ r \in Nat
        /\ r < c.size
    BY DEF IsConfig, Ranks
  <1>1. c.numberOfMaps * c.readersPerMap + c.numberOfMaps = n * c.numberOfMaps
    <2>1. c.readersPerMap \in Nat
      BY DEF IsConfig
    <2> QED
      BY <1>0, <2>1, MulDistributes
  <1>2. /\ numberOfReaderNodesNeeded(c) + numberOfWriterNodesNeeded(c)
             = n * c.numberOfMaps
        /\ n * c.numberOfMaps \in Nat
    BY <1>0, <1>1 DEF numberOfReaderNodesNeeded, numberOfWriterNodesNeeded
  <1>3. n * c.numberOfMaps <= c.size
    BY <1>0, <1>2 DEF NotEnoughNodes
  <1>4. /\ myMapId(c, r) \in Nat
        /\ mapRank(c, r) \in 0 .. (n - 1)
        /\ r = n * myMapId(c, r) + mapRank(c, r)
    <2>1. myMapId(c, r) = r \div n /\ mapRank(c, r) = r % n
      BY DEF myMapId, mapRank
    <2> HIDE DEF n
    <2> QED
      BY <1>0, <2>1, DivMod
  <1> HIDE DEF n
  <1>5. ASSUME Participates(c, r)
        PROVE  myMapId(c, r) \in MapIds(c)
    <2>1. r < n * c.numberOfMaps
      BY <1>5, <1>2 DEF Participates
    <2>2. n * myMapId(c, r) <= r /\ n * myMapId(c, r) \in Nat
      BY <1>0, <1>4
    <2>3. myMapId(c, r) < c.numberOfMaps
      BY <1>0, <1>2, <1>4, <2>1, <2>2, MulCancel
    <2> QED
      BY <1>0, <1>4, <2>3 DEF MapIds
  <1>6. ASSUME NEW m \in MapIds(c)
        PROVE  /\ n * m \in Ranks(c)
               /\ Participates(c, n * m)
               /\ (r = n * m) <=> (myMapId(c, r) = m /\ mapRank(c, r) = 0)
               /\ myMapId(c, r) = m => n * m <= r
    <2>1. m \in Nat /\ m + 1 <= c.numberOfMaps
      BY <1>0 DEF MapIds
    <2>2. n * (m + 1) <= n * c.numberOfMaps
      BY <1>0, <2>1, MulMonotone
    <2>3. n * (m + 1) = n * m + n /\ n * m \in Nat
      BY <1>0, <2>1
    <2>4. n * m < n * c.numberOfMaps
      BY <1>0, <1>2, <2>2, <2>3
    <2>5. n * m \in Ranks(c) /\ Participates(c, n * m)
      BY <1>0, <1>2, <1>3, <2>3, <2>4 DEF Ranks, Participates
    <2>6. ASSUME r = n * m
          PROVE  myMapId(c, r) = m /\ mapRank(c, r) = 0
      <3>1. r = n * m + 0
        BY <2>3, <2>6
      <3>2. 0 \in 0 .. (n - 1)
        BY <1>0
      <3>3. (n * m + 0) \div n = m /\ (n * m + 0) % n = 0
        BY <1>0, <2>1, <3>2, Quotient
      <3> QED
        BY <3>1, <3>3 DEF myMapId, mapRank, n
    <2> QED
      BY <1>0, <1>4, <2>3, <2>5, <2>6
  <1> QED
    BY <1>5, <1>6 DEF n

(* Multi: the rank of the writer of m.                                     *)
LEMMA MultiBlocks ==
    ASSUME NEW c, IsConfig(c), ~NotEnoughNodes(c), c.kind = "multi"
    PROVE  /\ numberOfWriterNodesNeeded(c) \in Nat
           /\ numberOfReaderNodesNeeded(c) \in Nat
           /\ numberOfWriterNodesNeeded(c) + numberOfReaderNodesNeeded(c)
                <= c.size
           /\ \A m \in MapIds(c) :
                /\ m \div c.perWriter \in Nat
                /\ m \div c.perWriter < numberOfWriterNodesNeeded(c)
  <1>1. /\ c.numberOfMaps \in Nat
        /\ c.size \in Nat
        /\ c.perWriter \in Nat \ {0}
        /\ c.perReader \in Nat \ {0}
    BY DEF IsConfig
  <1>2. /\ numberOfWriterNodesNeeded(c) = NodesNeeded(c.numberOfMaps, c.perWriter)
        /\ numberOfReaderNodesNeeded(c) = NodesNeeded(c.numberOfMaps, c.perReader)
    BY DEF numberOfWriterNodesNeeded, numberOfReaderNodesNeeded
  <1>3. /\ numberOfWriterNodesNeeded(c) \in Nat
        /\ numberOfReaderNodesNeeded(c) \in Nat
        /\ c.numberOfMaps <= c.perWriter * numberOfWriterNodesNeeded(c)
    BY <1>1, <1>2, NodesNeededBlocks
  <1>4. ASSUME NEW m \in MapIds(c)
        PROVE  /\ m \div c.perWriter \in Nat
               /\ m \div c.perWriter < numberOfWriterNodesNeeded(c)
    <2> DEFINE q == m \div c.perWriter
    <2>1. m \in Nat /\ m < c.numberOfMaps
      BY <1>1 DEF MapIds
    <2>2. q \in Nat /\ c.perWriter * q <= m
      <3>1. /\ q \in Nat
            /\ m % c.perWriter \in 0 .. (c.perWriter - 1)
            /\ m = c.perWriter * q + (m % c.perWriter)
        BY <1>1, <2>1, DivMod
      <3> HIDE DEF q
      <3>2. c.perWriter * q \in Nat
        BY <1>1, <3>1
      <3> QED
        BY <1>1, <2>1, <3>1, <3>2
    <2> HIDE DEF q
    <2>3. c.perWriter * q \in Nat
          /\ c.perWriter * numberOfWriterNodesNeeded(c) \in Nat
      BY <1>1, <1>3, <2>2
    <2>4. c.perWriter * q < c.perWriter * numberOfWriterNodesNeeded(c)
      BY <1>1, <1>3, <2>1, <2>2, <2>3
    <2>5. q < numberOfWriterNodesNeeded(c)
      BY <1>1, <1>3, <2>2, <2>4, MulCancel
    <2> QED
      BY <2>2, <2>5 DEF q
  <1> QED
    BY <1>1, <1>3, <1>4 DEF NotEnoughNodes

(* Each map is written by exactly one rank.                                *)
THEOREM OneWriter ==
    ASSUME NEW c, IsConfig(c), ~NotEnoughNodes(c), NEW m \in MapIds(c)
    PROVE  /\ writerRank(c, m) \in Ranks(c)
           /\ \A r \in Ranks(c) : m \in Writes(c, r) <=> r = writerRank(c, m)
  <1>1. CASE c.kind = "single"
    <2>1. 0 \in Ranks(c)
      BY DEF IsConfig, Ranks
    <2>2. writerRank(c, m) = (1 + c.readersPerMap) * m
      BY <1>1 DEF writerRank
    <2>3. writerRank(c, m) \in Ranks(c) /\ Participates(c, writerRank(c, m))
      BY <1>1, <2>1, <2>2, SingleGroups
    <2>4. ASSUME NEW r \in Ranks(c)
          PROVE  m \in Writes(c, r) <=> r = writerRank(c, m)
      <3>1. (r = writerRank(c, m))
              <=> (myMapId(c, r) = m /\ mapRank(c, r) = 0)
        BY <1>1, <2>2, SingleGroups
      <3>2. m \in Writes(c, r)
              <=> Participates(c, r) /\ mapRank(c, r) = 0 /\ m = myMapId(c, r)
        BY <1>1 DEF Writes, imTheWriter, myMaps
      <3> QED
        BY <2>3, <3>1, <3>2
    <2> QED
      BY <2>3, <2>4
  <1>2. CASE c.kind = "multi"
    <2>1. /\ m \in Nat
          /\ m < c.numberOfMaps
          /\ c.size \in Nat
          /\ c.numberOfMaps \in Nat
          /\ c.perWriter \in Nat \ {0}
          /\ c.kind # "single"
      BY <1>2 DEF IsConfig, MapIds
    <2>2. writerRank(c, m) = m \div c.perWriter
      BY <2>1 DEF writerRank
    <2>3. /\ writerRank(c, m) \in Nat
          /\ writerRank(c, m) < numberOfWriterNodesNeeded(c)
          /\ numberOfWriterNodesNeeded(c) \in Nat
          /\ numberOfReaderNodesNeeded(c) \in Nat
          /\ numberOfWriterNodesNeeded(c) + numberOfReaderNodesNeeded(c) <= c.size
      BY <1>2, <2>2, MultiBlocks
    <2>4. writerRank(c, m) \in Ranks(c)
      BY <2>1, <2>3 DEF Ranks
    <2>5. ASSUME NEW r \in Ranks(c)
          PROVE  m \in Writes(c, r) <=> r = writerRank(c, m)
      <3>1. r \in Nat
        BY DEF Ranks
      <3>2. imTheWriter(c, r) <=> r < numberOfWriterNodesNeeded(c)
        BY <2>1, <2>3, <3>1 DEF imTheWriter, Participates
      <3>3. imTheWriter(c, r) =>
              Writes(c, r) = calculateMapNames(r, c.numberOfMaps, c.perWriter)
        BY <2>1 DEF imTheWriter, Writes, myMaps
      <3>4. ~imTheWriter(c, r) => Writes(c, r) = {}
        BY DEF Writes
      <3>5. m \in calculateMapNames(r, c.numberOfMaps, c.perWriter)
              <=> m \div c.perWriter = r
        BY <2>1, <3>1, BlockOfNode
      <3> QED
        BY <2>2, <2>3, <3>1, <3>2, <3>3, <3>4, <3>5
    <2> QED
      BY <2>4, <2>5
  <1> QED
    BY <1>1, <1>2 DEF IsConfig

(* The maps of a rank exist, and a rank that takes part has some.          *)
THEOREM WorkForEveryone ==
    ASSUME NEW c, IsConfig(c), ~NotEnoughNodes(c)
    PROVE  NobodyIdle(c)
  <1> SUFFICES ASSUME NEW r \in Ranks(c)
               PROVE  /\ Participates(c, r) => myMaps(c, r) # {}
                      /\ myMaps(c, r) \subseteq MapIds(c)
    BY DEF NobodyIdle
  <1>1. CASE c.kind = "single"
    BY <1>1, SingleGroups DEF myMaps
  <1>2. CASE c.kind = "multi"
    <2> DEFINE W == numberOfWriterNodesNeeded(c)
               R == numberOfReaderNodesNeeded(c)
               n == c.numberOfMaps
    <2>1. /\ n \in Nat
          /\ c.perWriter \in Nat \ {0}
          /\ c.perReader \in Nat \ {0}
          /\ r \in Nat
          /\ c.kind # "single"
      BY <1>2 DEF IsConfig, Ranks
    <2>2. W = NodesNeeded(n, c.perWriter) /\ R = NodesNeeded(n, c.perReader)
      BY <2>1 DEF numberOfWriterNodesNeeded, numberOfReaderNodesNeeded
    <2>3. W \in Nat /\ R \in Nat
      BY <2>1, <2>2, NodesNeededBlocks
    <2>4. ASSUME NEW d \in Nat \ {0}, NEW i \in Nat
          PROVE  /\ calculateMapNames(i, n, d) \subseteq MapIds(c)
                 /\ i < NodesNeeded(n, d) => calculateMapNames(i, n, d) # {}
      <3>1. calculateMapNames(i, n, d) \subseteq MapIds(c)
        BY <2>1, BlockOfNode DEF MapIds
      <3>2. ASSUME i < NodesNeeded(n, d)
            PROVE  calculateMapNames(i, n, d) # {}
        <4>1. d * i < n /\ d * i \in Nat
          BY <2>1, <3>2, NodesNeededBlocks
        <4>2. d * i + 0 = d * i /\ 0 \in 0 .. (d - 1)
          BY <4>1
        <4>3. (d * i) \div d = i
          BY <4>2, Quotient
        <4>4. d * i \in calculateMapNames(i, n, d)
          BY <2>1, <4>1, <4>3, BlockOfNode
        <4> QED
          BY <4>4
      <3> QED
        BY <3>1, <3>2
    <2>5. CASE ~Participates(c, r)
      BY <2>5 DEF myMaps
    <2>6. CASE Participates(c, r) /\ r < W
      <3>1. myMaps(c, r) = calculateMapNames(r, n, c.perWriter)
        BY <2>1, <2>6 DEF myMaps, imTheWriter
      <3> QED
        BY <2>1, <2>2, <2>4, <2>6, <3>1
    <2>7. CASE Participates(c, r) /\ ~(r < W)
      <3>1. myMaps(c, r) = calculateMapNames(r - W, n, c.perReader)
        BY <2>1, <2>7 DEF myMaps, imTheWriter
      <3>2. r - W \in Nat /\ r - W < R
        BY <2>1, <2>3, <2>7 DEF Participates
      <3> HIDE DEF W, R
      <3> QED
        BY <2>1, <2>2, <2>4, <2>7, <3>1, <3>2
    <2> QED
      BY <2>5, <2>6, <2>7
  <1> QED
    BY <1>1, <1>2 DEF IsConfig

(* A map that a rank reads is written by a lower rank.                     *)
THEOREM WritersComeFirst ==
    ASSUME NEW c, IsConfig(c), ~NotEnoughNodes(c)
    PROVE  WritersFirst(c)
  <1> SUFFICES ASSUME NEW r \in Ranks(c), NEW m \in Reads(c, r)
               PROVE  \E q \in Ranks(c) : q < r /\ m \in Writes(c, q)
    BY DEF WritersFirst
  <1>1. m \in MapIds(c)
    BY WorkForEveryone DEF NobodyIdle, Reads
  <1>2. writerRank(c, m) \in Ranks(c) /\ m \in Writes(c, writerRank(c, m))
    BY <1>1, OneWriter
  <1>3. r \in Nat /\ ~imTheWriter(c, r) /\ Participates(c, r) /\ m \in myMaps(c, r)
    BY DEF Ranks, Reads, myMaps
  <1>4. writerRank(c, m) # r
    BY <1>2, <1>3 DEF Writes
  <1>5. CASE c.kind = "single"
    <2>1. m = myMapId(c, r) /\ writerRank(c, m) = (1 + c.readersPerMap) * m
      BY <1>3, <1>5 DEF myMaps, writerRank
    <2>2. writerRank(c, m) <= r
      BY <1>1, <1>5, <2>1, SingleGroups
    <2>3. writerRank(c, m) \in Nat
      BY <1>2 DEF Ranks
    <2>4. writerRank(c, m) < r
      BY <1>3, <1>4, <2>2, <2>3
    <2> QED
      BY <1>2, <2>4
  <1>6. CASE c.kind = "multi"
    <2>1. writerRank(c, m) = m \div c.perWriter
      BY <1>6 DEF writerRank
    <2>2. /\ writerRank(c, m) \in Nat
          /\ writerRank(c, m) < numberOfWriterNodesNeeded(c)
          /\ numberOfWriterNodesNeeded(c) \in Nat
      BY <1>1, <1>6, <2>1, MultiBlocks
    <2>3. ~(r < numberOfWriterNodesNeeded(c))
      BY <1>3, <1>6 DEF imTheWriter
    <2>4. writerRank(c, m) < r
      BY <1>3, <2>2, <2>3
    <2> QED
      BY <1>2, <2>4
  <1> QED
    BY <1>5, <1>6 DEF IsConfig

-----------------------------------------------------------------------------
(* The ordering of ARP entries, for any width of an Int and any times.     *)

(* A number below the modulus is its own remainder.                        *)
LEMMA SmallRemainder ==
    ASSUME NEW M \in Nat \ {0}, NEW a \in 0 .. M - 1
    PROVE  a % M = a
    OBVIOUS

(* A difference that fits into an Int is not changed by the cast.          *)
LEMMA AsIntFits ==
    ASSUME NEW d \in Int, -IntHalf <= d, d < IntHalf
    PROVE  asInt(d) = d
<1> DEFINE M == 2 * IntHalf
           a == d + IntHalf
<1>1. M \in Nat \ {0} /\ a \in 0 .. M - 1
    BY IntAssumption
<1> HIDE DEF M, a
<1>2. a % M = a
    BY <1>1, SmallRemainder
<1> QED
    BY <1>2, IntAssumption DEF asInt, M, a

(* Among times that lie close enough together, comparing is subtracting.   *)
LEMMA CompareSubtracts ==
    ASSUME NEW T \in SUBSET Int, Close(T), NEW x \in T, NEW y \in T
    PROVE  compare(x, y) = x - y
<1>1. x - y \in Int /\ x - y < IntHalf /\ -IntHalf <= x - y
    BY IntAssumption DEF Close
<1> QED
    BY <1>1, AsIntFits DEF compare

(* arpOrdering.compare keeps the contract of an Ordering, which the        *)
(* theorems on MergedMap assume of crStrategy, on every set of times no    *)
(* two of which are 2^31 microseconds or more apart, and a later entry is  *)
(* the greater one.                                                        *)
THEOREM ArpOrderingSound ==
    ASSUME NEW T \in SUBSET Int, Close(T)
    PROVE  /\ IsOrdering(T)
           /\ \A x, y \in T : compare(x, y) >= 0 <=> x >= y
<1>1. \A x, y \in T : compare(x, y) = x - y
    BY CompareSubtracts
<1> QED
    BY <1>1 DEF IsOrdering

(* The bound is exact: of two times 2^31 microseconds apart, each compares *)
(* as smaller than the other, which is no ordering.                        *)
THEOREM ArpOrderingTight ==
    ASSUME NEW x \in Int
    PROVE  /\ compare(x + IntHalf, x) < 0
           /\ ~IsOrdering({x, x + IntHalf})
<1> DEFINE M == 2 * IntHalf
           y == x + IntHalf
<1>1. M \in Nat \ {0} /\ 0 \in 0 .. M - 1
    BY IntAssumption
<1>2. M % M = 0 /\ 0 % M = 0
    BY <1>1
<1>3. compare(y, x) = -IntHalf
    <2>1. (y - x) + IntHalf = M
        BY IntAssumption
    <2> HIDE DEF M, y
    <2>2. compare(y, x) = 0 - IntHalf
        BY <1>2, <2>1 DEF compare, asInt, M
    <2> QED
        BY <2>2, IntAssumption
<1>4. compare(x, y) = -IntHalf
    <2>1. (x - y) + IntHalf = 0
        BY IntAssumption
    <2> HIDE DEF M, y
    <2>2. compare(x, y) = 0 - IntHalf
        BY <1>2, <2>1 DEF compare, asInt, M
    <2> QED
        BY <2>2, IntAssumption
<1> HIDE DEF y
<1>5. ~IsOrdering({x, y})
    BY <1>3, <1>4, IntAssumption DEF IsOrdering
<1> QED
    BY <1>3, <1>5, IntAssumption DEF y

-----------------------------------------------------------------------------
(* The readers of a map.                                                   *)

(* Single: the readers of map m are the ranks of its group behind the      *)
(* writer.                                                                 *)
LEMMA SingleReaders ==
    ASSUME NEW c, IsConfig(c), ~NotEnoughNodes(c), c.kind = "single",
           NEW m \in MapIds(c)
    PROVE  Cardinality(ReadersOf(c, m)) = c.readersPerMap
  <1> DEFINE k == c.readersPerMap
             n == 1 + k
             first == n * m
  <1>1. /\ k \in Nat
        /\ n \in Nat \ {0}
        /\ c.numberOfMaps \in Nat
        /\ c.size \in Nat
        /\ m \in Nat
        /\ m + 1 <= c.numberOfMaps
    BY DEF IsConfig, MapIds
  <1>2. first \in Nat
    <2> HIDE DEF n
    <2> QED
      BY <1>1
  <1>3. first + n <= n * c.numberOfMaps
    <2> HIDE DEF n
    <2>1. n * (m + 1) <= n * c.numberOfMaps
      BY <1>1, MulMonotone
    <2>2. n * (m + 1) = n * m + n
      BY <1>1
    <2> QED
      BY <2>1, <2>2
  <1>4. /\ numberOfReaderNodesNeeded(c) + numberOfWriterNodesNeeded(c)
             = n * c.numberOfMaps
        /\ n * c.numberOfMaps \in Nat
    <2>1. c.numberOfMaps * k + c.numberOfMaps = n * c.numberOfMaps
      BY <1>1, MulDistributes
    <2> QED
      BY <1>1, <2>1 DEF numberOfReaderNodesNeeded, numberOfWriterNodesNeeded
  <1>5. n * c.numberOfMaps <= c.size
    BY <1>1, <1>4 DEF NotEnoughNodes
  <1>6. ASSUME NEW r \in Nat
        PROVE  (myMapId(c, r) = m /\ mapRank(c, r) # 0)
                 <=> (first + 1 <= r /\ r <= first + k)
    <2>1. myMapId(c, r) = r \div n /\ mapRank(c, r) = r % n
      BY DEF myMapId, mapRank
    <2>2. /\ r \div n \in Nat
          /\ r % n \in 0 .. (n - 1)
          /\ r = n * (r \div n) + (r % n)
      <3> HIDE DEF n
      <3> QED
        BY <1>1, DivMod
    <2>3. ASSUME first + 1 <= r, r <= first + k
          PROVE  r \div n = m /\ r % n # 0
      <3>1. r - first \in 0 .. (n - 1) /\ r - first # 0 /\ r = first + (r - first)
        <4> HIDE DEF first
        <4> QED
          BY <1>1, <1>2, <2>3
      <3> HIDE DEF n
      <3>2. (n * m + (r - first)) \div n = m /\ (n * m + (r - first)) % n = r - first
        <4> HIDE DEF first
        <4> QED
          BY <1>1, <3>1, Quotient
      <3> QED
        BY <3>1, <3>2
    <2>4. ASSUME r \div n = m, r % n # 0
          PROVE  first + 1 <= r /\ r <= first + k
      <3> DEFINE s == r % n
      <3>1. r = first + s /\ s \in 0 .. (n - 1) /\ s # 0
        BY <2>2, <2>4
      <3> HIDE DEF first, s
      <3> QED
        BY <1>1, <1>2, <3>1
    <2> QED
      BY <2>1, <2>3, <2>4
  <1> HIDE DEF n
  <1>7. ASSUME NEW r \in Ranks(c)
        PROVE  m \in Reads(c, r)
                 <=> (Participates(c, r) /\ mapRank(c, r) # 0 /\ myMapId(c, r) = m)
    BY DEF Reads, imTheWriter, myMaps
  <1>8. k = n - 1
    BY <1>1 DEF n
  <1> HIDE DEF first, k
  <1>9. ReadersOf(c, m) = (first + 1) .. (first + k)
    <2>1. ASSUME NEW r \in ReadersOf(c, m)
          PROVE  r \in (first + 1) .. (first + k)
      <3>1. r \in Ranks(c) /\ r \in Nat /\ m \in Reads(c, r)
        BY DEF ReadersOf, Ranks
      <3> QED
        BY <1>1, <1>2, <1>6, <1>7, <3>1
    <2>2. ASSUME NEW r \in (first + 1) .. (first + k)
          PROVE  r \in ReadersOf(c, m)
      <3>1. r \in Nat /\ first + 1 <= r /\ r <= first + k
        BY <1>1, <1>2
      <3>2. r < n * c.numberOfMaps
        BY <1>1, <1>2, <1>3, <1>4, <1>8, <3>1
      <3>3. r \in Ranks(c) /\ Participates(c, r)
        BY <1>1, <1>4, <1>5, <3>1, <3>2 DEF Ranks, Participates
      <3> QED
        BY <1>6, <1>7, <3>1, <3>3 DEF ReadersOf
    <2> QED
      BY <2>1, <2>2
  <1>10. Cardinality((first + 1) .. (first + k)) = k
    <2>1. first + 1 \in Int /\ first + k \in Int
      BY <1>1, <1>2
    <2>2. Cardinality((first + 1) .. (first + k)) =
            IF first + 1 > first + k THEN 0 ELSE (first + k) - (first + 1) + 1
      BY <2>1, FS_Interval
    <2> QED
      BY <1>1, <1>2, <2>2
  <1> QED
    BY <1>9, <1>10 DEF k

(* Multi: the one reader of map m is the node that holds its block.        *)
LEMMA MultiReader ==
    ASSUME NEW c, IsConfig(c), ~NotEnoughNodes(c), c.kind = "multi",
           NEW m \in MapIds(c)
    PROVE  Cardinality(ReadersOf(c, m)) = 1
  <1> DEFINE W == numberOfWriterNodesNeeded(c)
             R == numberOfReaderNodesNeeded(c)
             q == m \div c.perReader
  <1>1. /\ m \in Nat
        /\ m < c.numberOfMaps
        /\ c.numberOfMaps \in Nat
        /\ c.size \in Nat
        /\ c.perReader \in Nat \ {0}
        /\ c.kind # "single"
    BY DEF IsConfig, MapIds
  <1>2. W \in Nat /\ R \in Nat /\ W + R <= c.size
    BY MultiBlocks
  <1>3. c.numberOfMaps <= c.perReader * R
    BY <1>1, NodesNeededBlocks DEF numberOfReaderNodesNeeded
  <1>4. q \in Nat /\ c.perReader * q <= m
    <2>1. /\ q \in Nat
          /\ m % c.perReader \in 0 .. (c.perReader - 1)
          /\ m = c.perReader * q + (m % c.perReader)
      BY <1>1, DivMod
    <2> HIDE DEF q
    <2>2. c.perReader * q \in Nat
      BY <1>1, <2>1
    <2> QED
      BY <1>1, <2>1, <2>2
  <1> HIDE DEF R, q
  <1>5. q < R
    <2>1. c.perReader * q \in Nat /\ c.perReader * R \in Nat
      BY <1>1, <1>2, <1>4
    <2>2. c.perReader * q < c.perReader * R
      BY <1>1, <1>3, <1>4, <2>1
    <2> QED
      BY <1>1, <1>2, <1>4, <2>2, MulCancel
  <1>6. ASSUME NEW r \in Ranks(c)
        PROVE  m \in Reads(c, r) <=> r = W + q
    <2>1. r \in Nat
      BY DEF Ranks
    <2>2. Participates(c, r) <=> r < R + W
      BY DEF Participates, R
    <2>3. imTheWriter(c, r) <=> r < W
      BY <1>1, <1>2, <2>1, <2>2 DEF imTheWriter
    <2>4. CASE r < W \/ ~(r < R + W)
      <3>1. Reads(c, r) = {}
        BY <2>2, <2>3, <2>4 DEF Reads, myMaps
      <3> HIDE DEF W
      <3> QED
        BY <1>2, <1>4, <1>5, <2>1, <2>4, <3>1
    <2>5. CASE ~(r < W) /\ r < R + W
      <3>1. Reads(c, r) = calculateMapNames(r - W, c.numberOfMaps, c.perReader)
        BY <1>1, <2>2, <2>3, <2>5 DEF Reads, myMaps
      <3> HIDE DEF W
      <3>2. r - W \in Nat
        BY <1>2, <2>1, <2>5
      <3>3. m \in Reads(c, r) <=> q = r - W
        BY <1>1, <3>1, <3>2, BlockOfNode DEF q
      <3> QED
        BY <1>2, <1>4, <2>1, <3>3
    <2> QED
      BY <2>4, <2>5
  <1> HIDE DEF W
  <1>7. W + q \in Ranks(c)
    BY <1>1, <1>2, <1>4, <1>5 DEF Ranks
  <1>8. ReadersOf(c, m) = {W + q}
    BY <1>6, <1>7 DEF ReadersOf
  <1> QED
    BY <1>8, FS_Singleton

(* Each map has one writer and as many readers as the benchmark asks for.  *)
THEOREM EveryMapIsServed ==
    ASSUME NEW c, IsConfig(c), ~NotEnoughNodes(c)
    PROVE  EveryMapServed(c)
  <1> SUFFICES ASSUME NEW m \in MapIds(c)
               PROVE  /\ \E w \in Ranks(c) :
                            \A r \in Ranks(c) : m \in Writes(c, r) <=> r = w
                      /\ Cardinality(ReadersOf(c, m)) =
                            IF c.kind = "single" THEN c.readersPerMap ELSE 1
    BY DEF EveryMapServed
  <1>1. \E w \in Ranks(c) : \A r \in Ranks(c) : m \in Writes(c, r) <=> r = w
    BY OneWriter
  <1>2. Cardinality(ReadersOf(c, m)) =
          IF c.kind = "single" THEN c.readersPerMap ELSE 1
    BY SingleReaders, MultiReader DEF IsConfig
  <1> QED
    BY <1>1, <1>2

(* A sequence over a set is one over a larger set.                         *)
LEMMA SequencesWiden ==
    ASSUME NEW P, NEW Q, NEW s \in Seq(P)
    PROVE  s \in Seq(Q \cup P)
  BY SeqMonotonic

(* Where the pieces of a message are.                                      *)
LEMMA PiecesBefore ==
    ASSUME NEW S, NEW a \in S, NEW b \in S, NEW c \in S, NEW o \in Seq(S)
    PROVE  /\ Len(<<a>> \o <<b>> \o o) = Len(o) + 2
           /\ (<<a>> \o <<b>> \o o)[1] = a
           /\ (<<a>> \o <<b>> \o o)[2] = b
           /\ \A i \in 1 .. Len(o) : (<<a>> \o <<b>> \o o)[i + 2] = o[i]
           /\ (<<a>> \o <<b, c>> \o o)[2] = b
  <1>1. <<a>> \in Seq(S) /\ <<b>> \in Seq(S) /\ <<b, c>> \in Seq(S)
    OBVIOUS
  <1> DEFINE u == <<a>> \o <<b>>
             v == <<a>> \o <<b, c>>
  <1>2. u \in Seq(S) /\ Len(u) = 2 /\ u[1] = a /\ u[2] = b
    BY <1>1
  <1>3. v \in Seq(S) /\ Len(v) = 3 /\ v[2] = b
    BY <1>1
  <1> HIDE DEF u, v
  <1>4. /\ Len(u \o o) = Len(o) + 2 /\ (u \o o)[1] = a /\ (u \o o)[2] = b
        /\ \A i \in 1 .. Len(o) : (u \o o)[i + 2] = o[i]
    <2>1. /\ Len(o) \in Nat /\ Len(u \o o) = Len(u) + Len(o)
          /\ \A i \in 1 .. Len(u) + Len(o) :
                (u \o o)[i] = IF i <= Len(u) THEN u[i] ELSE o[i - Len(u)]
      BY <1>2, ConcatProperties, LenProperties
    <2>2. (u \o o)[1] = a /\ (u \o o)[2] = b
      BY <1>2, <2>1
    <2>3. ASSUME NEW i \in 1 .. Len(o) PROVE (u \o o)[i + 2] = o[i]
      <3>1. i + 2 \in 1 .. Len(u) + Len(o) /\ ~(i + 2 <= Len(u)) /\ (i + 2) - Len(u) = i
        BY <1>2, <2>1
      <3> QED
        BY <2>1, <3>1
    <2> QED
      BY <1>2, <2>1, <2>2, <2>3
  <1>5. (v \o o)[2] = b
    <2>1. /\ Len(o) \in Nat
          /\ \A i \in 1 .. Len(v) + Len(o) :
                (v \o o)[i] = IF i <= Len(v) THEN v[i] ELSE o[i - Len(v)]
      BY <1>3, ConcatProperties, LenProperties
    <2>2. 2 \in 1 .. Len(v) + Len(o) /\ 2 <= Len(v)
      BY <1>3, <2>1
    <2> QED
      BY <1>3, <2>1, <2>2
  <1> QED
    BY <1>4, <1>5 DEF u, v

(* What comes back of a message, for any name of an owner, of any pieces   *)
(* between its dashes: nothing if the time is below 0, whose sign splits   *)
(* the message in the wrong place, or if there is nothing but dashes in    *)
(* the name; otherwise the message with the name up to its first dash.     *)
THEOREM CodecReadsBack ==
    ASSUME NEW ip, NEW P, NEW owner \in Seq(P), owner # <<>>, NEW t \in Int
    PROVE  fromBytes(serialize(<<ip, t, owner>>)) =
               IF t < 0 \/ \A i \in 1 .. Len(owner) : owner[i] = Empty
               THEN Malformed ELSE <<ip, t, <<owner[1]>>>>
  <1> DEFINE m == <<ip, t, owner>>
             n == Len(owner)
  <1>0. m[1] = ip /\ m[2] = t /\ m[3] = owner
    OBVIOUS
  <1>n. n \in Nat /\ n >= 1
    OBVIOUS
  <1>1. CASE t >= 0
    <2>1. encode(t) = <<[entry |-> t]>>
      BY <1>1 DEF encode
    <2> DEFINE e == [entry |-> t]
               s == serialize(m)
    <2>2. s = <<ip>> \o <<e>> \o owner
      BY <1>0, <2>1 DEF serialize
    <2>3. DOMAIN e = {"entry"} /\ e.entry = t
      OBVIOUS
    <2> HIDE DEF e, s
    <2>4. /\ Len(s) = n + 2 /\ s[1] = ip /\ s[2] = e
          /\ \A i \in 1 .. n : s[i + 2] = owner[i]
      <3> DEFINE S == {ip, e} \cup P
      <3>1. ip \in S /\ e \in S /\ owner \in Seq(S)
        BY SequencesWiden
      <3> HIDE DEF S
      <3> QED
        BY <2>2, <3>1, PiecesBefore
    <2>5. s[3] = owner[1]
      BY <1>n, <2>4
    <2>6. (\E i \in 3 .. Len(s) : s[i] # Empty)
            <=> ~(\A i \in 1 .. n : owner[i] = Empty)
      <3>1. ASSUME NEW i \in 1 .. n, owner[i] # Empty
            PROVE  \E j \in 3 .. Len(s) : s[j] # Empty
        <4>1. i + 2 \in 3 .. Len(s) /\ s[i + 2] # Empty
          BY <1>n, <2>4, <3>1
        <4> QED
          BY <4>1
      <3>2. ASSUME NEW j \in 3 .. Len(s), s[j] # Empty
            PROVE  \E i \in 1 .. n : owner[i] # Empty
        <4>1. j - 2 \in 1 .. n /\ (j - 2) + 2 = j
          BY <1>n, <2>4
        <4>2. owner[j - 2] # Empty
          BY <2>4, <3>2, <4>1
        <4> QED
          BY <4>1, <4>2
      <3> QED
        BY <3>1, <3>2
    <2>7. fromBytes(s) = IF \A i \in 1 .. n : owner[i] = Empty
                         THEN Malformed ELSE <<ip, t, <<owner[1]>>>>
      BY <2>3, <2>4, <2>5, <2>6 DEF fromBytes
    <2> QED
      BY <1>1, <2>7 DEF s
  <1>2. CASE ~(t >= 0)
    <2>1. encode(t) = <<[begin |-> "entry"], [rest |-> -t]>>
      BY <1>2 DEF encode
    <2> DEFINE e == [begin |-> "entry"]
               f == [rest |-> -t]
               s == serialize(m)
    <2>2. s = <<ip>> \o <<e, f>> \o owner
      BY <1>0, <2>1 DEF serialize
    <2>3. DOMAIN e # {"entry"}
      OBVIOUS
    <2> HIDE DEF e, f, s
    <2>4. s[2] = e
      <3> DEFINE S == {ip, e, f} \cup P
      <3>1. ip \in S /\ e \in S /\ f \in S /\ owner \in Seq(S)
        BY SequencesWiden
      <3> HIDE DEF S
      <3> QED
        BY <2>2, <3>1, PiecesBefore
    <2>5. fromBytes(s) = Malformed
      BY <2>3, <2>4 DEF fromBytes
    <2> QED
      BY <1>2, <2>5 DEF s
  <1> QED
    BY <1>1, <1>2

-----------------------------------------------------------------------------
(* The block distribution.                                                 *)

(* Where the block of process p begins: one more for each longer block     *)
(* before it.                                                              *)
blockStart(globalCount, procSize, p) ==
    p * partial(globalCount, procSize)
        + (IF p < imbalance(globalCount, procSize) THEN p
           ELSE imbalance(globalCount, procSize))

(* A block begins where the one before it ends, the first one at 0 and     *)
(* the last one ends with the items.                                       *)
LEMMA BlocksFollow ==
    ASSUME NEW g \in Nat, NEW n \in Nat \ {0}
    PROVE  /\ blockStart(g, n, 0) = 0
           /\ blockStart(g, n, n) = g
           /\ \A p \in Nat :
                /\ blockStart(g, n, p) \in Nat
                /\ localCount(g, n, p) \in Nat
                /\ blockStart(g, n, p + 1) = blockStart(g, n, p) + localCount(g, n, p)
  <1> DEFINE q == partial(g, n)
             b == imbalance(g, n)
  <1>1. q \in Nat /\ b \in 0 .. (n - 1) /\ g = n * q + b
    BY DivMod DEF partial, imbalance
  <1> HIDE DEF q, b
  <1>2. ASSUME NEW p \in Nat
        PROVE  /\ blockStart(g, n, p) \in Nat
               /\ localCount(g, n, p) \in Nat
               /\ blockStart(g, n, p + 1) = blockStart(g, n, p) + localCount(g, n, p)
    <2>1. p * q \in Nat /\ (p + 1) * q = p * q + q
      BY <1>1
    <2>2. /\ blockStart(g, n, p) = p * q + (IF p < b THEN p ELSE b)
          /\ blockStart(g, n, p + 1) = (p + 1) * q + (IF p + 1 < b THEN p + 1 ELSE b)
          /\ localCount(g, n, p) = q + (IF p < b THEN 1 ELSE 0)
      BY DEF blockStart, localCount, q, b
    <2> DEFINE pq == p * q
               rq == (p + 1) * q
    <2> HIDE DEF pq, rq
    <2>3. CASE p < b
      <3>1. p + 1 < b \/ p + 1 = b
        BY <1>1, <2>3
      <3>2. (IF p + 1 < b THEN p + 1 ELSE b) = p + 1
        BY <3>1
      <3>3. /\ blockStart(g, n, p) = pq + p
            /\ blockStart(g, n, p + 1) = rq + (p + 1)
            /\ localCount(g, n, p) = q + 1
        BY <2>2, <2>3, <3>2 DEF pq, rq
      <3>4. pq \in Nat /\ rq = pq + q
        BY <2>1 DEF pq, rq
      <3> QED
        BY <1>1, <3>3, <3>4
    <2>4. CASE ~(p < b)
      <3>1. ~(p + 1 < b)
        BY <1>1, <2>4
      <3>2. /\ blockStart(g, n, p) = pq + b
            /\ blockStart(g, n, p + 1) = rq + b
            /\ localCount(g, n, p) = q + 0
        BY <2>2, <2>4, <3>1 DEF pq, rq
      <3>3. pq \in Nat /\ rq = pq + q
        BY <2>1 DEF pq, rq
      <3> QED
        BY <1>1, <3>2, <3>3
    <2> QED
      BY <2>3, <2>4
  <1>3. blockStart(g, n, 0) = 0
    <2>1. 0 * q = 0
      BY <1>1
    <2> QED
      BY <1>1, <2>1 DEF blockStart, q, b
  <1>4. blockStart(g, n, n) = g
    <2>1. ~(n < b)
      BY <1>1
    <2> QED
      BY <1>1, <2>1 DEF blockStart, q, b
  <1> QED
    BY <1>2, <1>3, <1>4

(* A block lies before those of the processes behind it.                   *)
LEMMA BlocksApart ==
    ASSUME NEW g \in Nat, NEW n \in Nat \ {0}, NEW p \in Nat, NEW r \in Nat, p < r
    PROVE  blockStart(g, n, p) + localCount(g, n, p) <= blockStart(g, n, r)
  <1> DEFINE s(x) == blockStart(g, n, x)
             k(x) == localCount(g, n, x)
             X == {x \in Nat : p < x /\ ~(s(p) + k(p) <= s(x))}
  <1>1. \A x \in Nat : s(x) \in Nat /\ k(x) \in Nat /\ s(x + 1) = s(x) + k(x)
    BY BlocksFollow
  <1> HIDE DEF s, k
  <1>2. X = {}
    <2> SUFFICES ASSUME X # {}
                 PROVE  FALSE
      OBVIOUS
    <2>1. PICK x \in X : \A y \in X : x <= y
      BY LeastNatural
    <2>2. x \in Nat /\ p < x /\ ~(s(p) + k(p) <= s(x))
      BY <2>1
    <2>3. x # p + 1
      BY <1>1, <2>2
    <2>4. x - 1 \in Nat /\ p < x - 1 /\ ~(x <= x - 1)
      BY <2>2, <2>3
    <2>5. s(p) + k(p) <= s(x - 1)
      BY <2>1, <2>4
    <2>6. s(x) = s(x - 1) + k(x - 1)
      <3>1. (x - 1) + 1 = x
        BY <2>2
      <3> QED
        BY <1>1, <2>4, <3>1
    <2> QED
      BY <1>1, <2>2, <2>4, <2>5, <2>6
  <1>3. s(p) + k(p) <= s(r)
    BY <1>2
  <1> QED
    BY <1>3 DEF s, k

(* Every item is in a block.                                               *)
LEMMA BlockOfItem ==
    ASSUME NEW g \in Nat, NEW n \in Nat \ {0}, NEW i \in 0 .. (g - 1)
    PROVE  \E p \in 0 .. (n - 1) :
              /\ blockStart(g, n, p) <= i
              /\ i < blockStart(g, n, p) + localCount(g, n, p)
  <1> DEFINE s(x) == blockStart(g, n, x)
             k(x) == localCount(g, n, x)
             X == {x \in Nat : i < s(x)}
  <1>1. /\ \A x \in Nat : s(x) \in Nat /\ k(x) \in Nat /\ s(x + 1) = s(x) + k(x)
        /\ s(0) = 0
        /\ s(n) = g
    BY BlocksFollow
  <1> HIDE DEF s, k
  <1>2. n \in X
    BY <1>1
  <1>3. PICK x \in X : \A y \in X : x <= y
    BY <1>2, LeastNatural
  <1>4. x \in Nat /\ i < s(x) /\ x <= n
    BY <1>2, <1>3
  <1>5. x # 0
    BY <1>1, <1>4
  <1>6. x - 1 \in 0 .. (n - 1) /\ ~(x <= x - 1)
    BY <1>4, <1>5
  <1>7. ~(i < s(x - 1))
    BY <1>3, <1>6
  <1>8. s(x) = s(x - 1) + k(x - 1) /\ s(x - 1) \in Nat
    <2>1. (x - 1) + 1 = x /\ x - 1 \in Nat
      BY <1>4, <1>6
    <2> QED
      BY <1>1, <2>1
  <1>9. s(x - 1) <= i /\ i < s(x - 1) + k(x - 1)
    BY <1>4, <1>7, <1>8
  <1> QED
    BY <1>6, <1>9 DEF s, k

(* getGlobalOffset counts from the start of the block, and getItemCount    *)
(* gives its length.                                                       *)
LEMMA OffsetInBlock ==
    ASSUME NEW g \in Nat, NEW n \in Nat \ {0}, NEW p \in Nat, NEW l \in Nat
    PROVE  /\ getGlobalOffset(g, n, p, l) = blockStart(g, n, p) + l
           /\ getItemCount(g, n, p) = localCount(g, n, p)
           /\ localArraySize(g, n) \in Nat
  <1> DEFINE q == partial(g, n)
             b == imbalance(g, n)
  <1>1. q \in Nat /\ b \in 0 .. (n - 1)
    BY DivMod DEF partial, imbalance
  <1> HIDE DEF q, b
  <1>2. /\ localCount(g, n, p) = q + (IF p < b THEN 1 ELSE 0)
        /\ localArraySize(g, n) = q + (IF b # 0 THEN 1 ELSE 0)
        /\ getItemCount(g, n, p) = IF b = 0 \/ p < b THEN localArraySize(g, n)
                                   ELSE localArraySize(g, n) - 1
        /\ blockStart(g, n, p) = p * q + (IF p < b THEN p ELSE b)
        /\ getGlobalOffset(g, n, p, l) =
              p * localCount(g, n, p) + l + (IF p >= b THEN b ELSE 0)
    BY DEF localCount, localArraySize, getItemCount, blockStart, getGlobalOffset, q, b
  <1>3. p * (q + 1) = p * q + p /\ p * (q + 0) = p * q /\ p * q \in Nat
    BY <1>1
  <1>4. CASE p < b
    <2>1. /\ localCount(g, n, p) = q + 1
          /\ localArraySize(g, n) = q + 1
          /\ getItemCount(g, n, p) = q + 1
          /\ blockStart(g, n, p) = p * q + p
          /\ getGlobalOffset(g, n, p, l) = p * (q + 1) + l + 0
      BY <1>1, <1>2, <1>4
    <2> QED
      BY <1>1, <1>3, <2>1
  <1>5. CASE ~(p < b)
    <2>1. /\ localCount(g, n, p) = q + 0
          /\ localArraySize(g, n) = q + (IF b # 0 THEN 1 ELSE 0)
          /\ blockStart(g, n, p) = p * q + b
          /\ getGlobalOffset(g, n, p, l) = p * (q + 0) + l + b
      BY <1>1, <1>2, <1>5
    <2>2. getItemCount(g, n, p) = q /\ localArraySize(g, n) \in Nat
      BY <1>1, <1>2, <1>5, <2>1
    <2> QED
      BY <1>1, <1>3, <2>1, <2>2
  <1> QED
    BY <1>4, <1>5

(* compactGlobalArray fills every place of dest, and the place of an item  *)
(* with what its process has put there.                                    *)
LEMMA Compacts ==
    ASSUME NEW g \in Nat, NEW n \in Nat \ {0}
    PROVE  /\ Len(compactGlobalArray(g, n)) = g
           /\ \A p \in 0 .. (n - 1) : \A l \in Nat :
                l < localCount(g, n, p) =>
                    compactGlobalArray(g, n)[blockStart(g, n, p) + l + 1]
                        = p * localArraySize(g, n) + l
  <1> DEFINE s(x) == blockStart(g, n, x)
             k(x) == localCount(g, n, x)
             a == localArraySize(g, n)
             seqs == [p \in 1 .. n |-> [j \in 1 .. k(p - 1) |-> (p - 1) * a + j - 1]]
             blk(i) == CHOOSE p \in 0 .. (n - 1) : s(p) <= i /\ i < s(p) + k(p)
             src(i) == blk(i - 1) * a + (i - 1 - s(blk(i - 1)))
             F == [p \in 1 .. n |-> [i \in 1 .. s(p) |-> src(i)]]
  <1>1. /\ \A x \in Nat : s(x) \in Nat /\ k(x) \in Nat /\ s(x + 1) = s(x) + k(x)
        /\ s(0) = 0
        /\ s(n) = g
        /\ a \in Nat
    BY BlocksFollow, OffsetInBlock
  <1>2. compactGlobalArray(g, n) = FlattenSeq(seqs)
    <2>1. \A p \in 1 .. n : getItemCount(g, n, p - 1) = k(p - 1)
      <3> SUFFICES ASSUME NEW p \in 1 .. n
                   PROVE  getItemCount(g, n, p - 1) = k(p - 1)
        OBVIOUS
      <3>1. p - 1 \in Nat
        OBVIOUS
      <3> QED
        BY <3>1, OffsetInBlock
    <2> HIDE DEF k
    <2>2. seqs = [p \in 1 .. n |-> [j \in 1 .. getItemCount(g, n, p - 1) |->
                                      (p - 1) * a + j - 1]]
      BY <2>1
    <2> QED
      BY <2>2 DEF compactGlobalArray
  <1>3. \A p, r \in Nat : p < r => s(p) + k(p) <= s(r)
    BY BlocksApart
  <1>4. \A i \in 0 .. (g - 1) : \E p \in 0 .. (n - 1) : s(p) <= i /\ i < s(p) + k(p)
    BY BlockOfItem
  <1> HIDE DEF s, k, a
  <1>5. ASSUME NEW p \in 0 .. (n - 1), NEW l \in Nat, l < k(p)
        PROVE  src(s(p) + l + 1) = p * a + l
    <2> DEFINE i == s(p) + l
               r == blk(i)
    <2>1. i \in Nat /\ s(p) <= i /\ i < s(p) + k(p)
      BY <1>1, <1>5
    <2>2. r \in 0 .. (n - 1) /\ s(r) <= i /\ i < s(r) + k(r)
      <3> HIDE DEF i
      <3> QED
        BY <2>1
    <2> HIDE DEF r
    <2>3. r = p
      <3> HIDE DEF i
      <3>1. r \in Nat /\ p \in Nat
        BY <2>2
      <3>2. ~(r < p)
        BY <1>1, <1>3, <2>1, <2>2, <3>1
      <3>3. ~(p < r)
        BY <1>1, <1>3, <2>1, <2>2, <3>1
      <3> QED
        BY <3>1, <3>2, <3>3
    <2>4. (s(p) + l + 1) - 1 = i /\ i - s(p) = l
      BY <1>1
    <2>5. src(s(p) + l + 1) = r * a + (i - s(r))
      BY <2>4 DEF r
    <2> QED
      BY <2>3, <2>4, <2>5
  <1> HIDE DEF src
  <1>6. Len(seqs) = n
    OBVIOUS
  <1>7. ASSUME NEW p \in 1 .. n
        PROVE  F[p] = IF p = 1 THEN seqs[p] ELSE F[p - 1] \o seqs[p]
    <2> DEFINE c == seqs[p]
    <2>1. p - 1 \in 0 .. (n - 1) /\ p - 1 \in Nat
      OBVIOUS
    <2>2. s(p) = s(p - 1) + k(p - 1) /\ s(p - 1) \in Nat /\ k(p - 1) \in Nat
      <3>1. (p - 1) + 1 = p
        OBVIOUS
      <3> QED
        BY <1>1, <2>1, <3>1
    <2>3. c = [j \in 1 .. k(p - 1) |-> (p - 1) * a + j - 1]
      OBVIOUS
    <2>4. \A j \in 1 .. k(p - 1) : src(s(p - 1) + j) = c[j]
      <3> SUFFICES ASSUME NEW j \in 1 .. k(p - 1)
                   PROVE  src(s(p - 1) + j) = c[j]
        OBVIOUS
      <3>1. j - 1 \in Nat /\ j - 1 < k(p - 1)
        BY <2>2
      <3>2. src(s(p - 1) + (j - 1) + 1) = (p - 1) * a + (j - 1)
        BY <1>5, <2>1, <3>1
      <3>3. s(p - 1) + (j - 1) + 1 = s(p - 1) + j
        BY <2>2
      <3>4. (p - 1) * a + (j - 1) = (p - 1) * a + j - 1
        BY <1>1, <2>1
      <3> QED
        BY <2>3, <3>2, <3>3, <3>4
    <2>5. F[p] = [i \in 1 .. s(p) |-> src(i)]
      OBVIOUS
    <2>6. CASE p = 1
      <3>1. s(p) = k(p - 1) /\ s(p - 1) = 0
        BY <1>1, <2>2, <2>6
      <3>2. \A j \in 1 .. k(p - 1) : src(j) = c[j]
        BY <2>2, <2>4, <3>1
      <3> HIDE DEF c
      <3>3. F[p] = c
        BY <2>3, <2>5, <3>1, <3>2
      <3> QED
        BY <2>6, <3>3 DEF c
    <2>7. CASE p # 1
      <3> DEFINE b == F[p - 1]
      <3>1. b = [i \in 1 .. s(p - 1) |-> src(i)]
        BY <2>7
      <3> HIDE DEF b, c, F
      <3>2. b \o c = [i \in 1 .. (s(p - 1) + k(p - 1)) |->
                         IF i <= s(p - 1) THEN b[i] ELSE c[i - s(p - 1)]]
        <4> DEFINE X == {b[i] : i \in 1 .. s(p - 1)} \cup {c[j] : j \in 1 .. k(p - 1)}
        <4>1. b \in Seq(X) /\ Len(b) = s(p - 1)
          <5>1. \A i \in 1 .. s(p - 1) : b[i] \in X
            OBVIOUS
          <5> HIDE DEF X
          <5> QED
            BY <2>2, <3>1, <5>1
        <4>2. c \in Seq(X) /\ Len(c) = k(p - 1)
          <5>1. \A j \in 1 .. k(p - 1) : c[j] \in X
            OBVIOUS
          <5> HIDE DEF X
          <5> QED
            BY <2>2, <2>3, <5>1
        <4> HIDE DEF X
        <4>3. /\ b \o c \in Seq(X)
              /\ Len(b \o c) = s(p - 1) + k(p - 1)
              /\ \A i \in 1 .. (s(p - 1) + k(p - 1)) :
                    (b \o c)[i] = IF i <= s(p - 1) THEN b[i] ELSE c[i - s(p - 1)]
          BY <2>2, <4>1, <4>2
        <4>4. b \o c = [i \in 1 .. Len(b \o c) |-> (b \o c)[i]]
          <5> DEFINE d == b \o c
          <5>1. d \in Seq(X)
            BY <4>3
          <5> HIDE DEF d
          <5>2. d = [i \in 1 .. Len(d) |-> d[i]]
            BY <5>1
          <5> QED
            BY <5>2 DEF d
        <4> QED
          BY <4>3, <4>4
      <3>3. ASSUME NEW i \in 1 .. s(p)
            PROVE  src(i) = IF i <= s(p - 1) THEN b[i] ELSE c[i - s(p - 1)]
        <4>1. CASE i <= s(p - 1)
          BY <2>2, <3>1, <4>1
        <4>2. CASE ~(i <= s(p - 1))
          <5>1. i - s(p - 1) \in 1 .. k(p - 1) /\ s(p - 1) + (i - s(p - 1)) = i
            BY <2>2, <4>2
          <5> QED
            BY <2>4, <4>2, <5>1
        <4> QED
          BY <4>1, <4>2
      <3>4. F[p] = b \o c
        BY <2>2, <2>5, <3>2, <3>3
      <3> QED
        BY <2>7, <3>4 DEF b, c
    <2> QED
      BY <2>6, <2>7
  <1>8. F = [p \in 1 .. n |-> IF p = 1 THEN seqs[p] ELSE F[p - 1] \o seqs[p]]
    <2>1. DOMAIN F = 1 .. n /\ F = [p \in 1 .. n |-> F[p]]
      OBVIOUS
    <2> HIDE DEF F, seqs
    <2> QED
      BY <1>7, <2>1
  <1>9. compactGlobalArray(g, n) = F[n]
    <2> HIDE DEF F, seqs
    <2> QED
      BY <1>2, <1>6, <1>8, FlattenIs
  <1>10. F[n] = [i \in 1 .. g |-> src(i)]
    BY <1>1
  <1> HIDE DEF F
  <1>11. Len(compactGlobalArray(g, n)) = g
    BY <1>9, <1>10
  <1>12. ASSUME NEW p \in 0 .. (n - 1), NEW l \in Nat, l < k(p)
         PROVE  compactGlobalArray(g, n)[s(p) + l + 1] = p * a + l
    <2>1. s(p) + l + 1 \in 1 .. g
      <3>1. p \in Nat /\ n \in Nat /\ p < n
        OBVIOUS
      <3>2. s(p) + k(p) <= g
        BY <1>1, <1>3, <3>1
      <3> QED
        BY <1>1, <1>12, <3>1, <3>2
    <2> QED
      BY <1>5, <1>9, <1>10, <1>12, <2>1
  <1> QED
    BY <1>11, <1>12 DEF s, k, a

(* The blocks cover the items, each once, and compacting puts every item   *)
(* at its global offset, whatever the number of items and processes.       *)
THEOREM BlocksAlwaysTile ==
    ASSUME NEW g \in Nat, NEW n \in Nat \ {0}
    PROVE  Tiles(g, n)
  <1> DEFINE s(x) == blockStart(g, n, x)
             k(x) == localCount(g, n, x)
             own == {b \in (0 .. n - 1) \X (0 .. g - 1) : b[2] < k(b[1])}
             at(b) == getGlobalOffset(g, n, b[1], b[2])
  <1>1. /\ \A x \in Nat : s(x) \in Nat /\ k(x) \in Nat /\ s(x + 1) = s(x) + k(x)
        /\ s(0) = 0
        /\ s(n) = g
    BY BlocksFollow
  <1>2. ASSUME NEW b \in own
        PROVE  /\ b[1] \in 0 .. (n - 1) /\ b[1] \in Nat /\ b[1] < n
               /\ b[2] \in Nat /\ b[2] < k(b[1])
               /\ b = <<b[1], b[2]>>
               /\ at(b) = s(b[1]) + b[2]
    <2>1. b[1] \in 0 .. (n - 1) /\ b[2] \in Nat /\ b[1] \in Nat
      OBVIOUS
    <2>2. at(b) = s(b[1]) + b[2]
      BY <2>1, OffsetInBlock
    <2> QED
      BY <2>1, <2>2
  <1>3. \A p, r \in Nat : p < r => s(p) + k(p) <= s(r)
    BY BlocksApart
  <1>4. \A i \in 0 .. (g - 1) : \E p \in 0 .. (n - 1) : s(p) <= i /\ i < s(p) + k(p)
    BY BlockOfItem
  <1>5. \A b \in own : compactGlobalArray(g, n)[at(b) + 1]
                           = getGlobalArrayIndex(g, n, b[1], b[2])
    <2> SUFFICES ASSUME NEW b \in own
                 PROVE  compactGlobalArray(g, n)[at(b) + 1]
                            = getGlobalArrayIndex(g, n, b[1], b[2])
      OBVIOUS
    <2>1. compactGlobalArray(g, n)[s(b[1]) + b[2] + 1] = b[1] * localArraySize(g, n) + b[2]
      BY <1>2, Compacts
    <2> QED
      BY <1>2, <2>1 DEF getGlobalArrayIndex
  <1>6. ASSUME NEW p \in 0 .. (n - 1), NEW l \in Nat, l < k(p)
        PROVE  <<p, l>> \in own /\ at(<<p, l>>) = s(p) + l
    <2>1. s(p) + k(p) <= g /\ s(p) \in Nat /\ k(p) \in Nat
      <3>1. p \in Nat /\ p < n /\ n \in Nat
        OBVIOUS
      <3> HIDE DEF s, k
      <3> QED
        BY <1>1, <1>3, <3>1
    <2> HIDE DEF s, k
    <2>2. l \in 0 .. (g - 1)
      BY <1>6, <2>1
    <2>3. <<p, l>> \in own
      BY <1>6, <2>2
    <2> QED
      BY <1>2, <2>3
  <1> HIDE DEF s, k, own, at
  <1>7. {at(b) : b \in own} = 0 .. (g - 1)
    <2>1. ASSUME NEW b \in own
          PROVE  at(b) \in 0 .. (g - 1)
      <3>1. s(b[1]) + k(b[1]) <= g
        BY <1>1, <1>2, <1>3
      <3> QED
        BY <1>1, <1>2, <3>1
    <2>2. ASSUME NEW i \in 0 .. (g - 1)
          PROVE  \E b \in own : at(b) = i
      <3>1. PICK p \in 0 .. (n - 1) : s(p) <= i /\ i < s(p) + k(p)
        BY <1>4
      <3>2. i - s(p) \in Nat /\ i - s(p) < k(p) /\ s(p) + (i - s(p)) = i
        BY <1>1, <3>1
      <3>3. <<p, i - s(p)>> \in own /\ at(<<p, i - s(p)>>) = i
        BY <1>6, <3>2
      <3> QED
        BY <3>3
    <2> QED
      BY <2>1, <2>2
  <1>8. ASSUME NEW b \in own, NEW c \in own, at(b) = at(c)
        PROVE  b = c
    <2>1. ~(b[1] < c[1])
      BY <1>1, <1>2, <1>3, <1>8
    <2>2. ~(c[1] < b[1])
      BY <1>1, <1>2, <1>3, <1>8
    <2>3. b[1] = c[1]
      BY <1>2, <2>1, <2>2
    <2>4. b[2] = c[2]
      BY <1>1, <1>2, <1>8, <2>3
    <2>5. b = <<b[1], b[2]>> /\ c = <<c[1], c[2]>>
      BY <1>2
    <2> QED
      BY <2>3, <2>4, <2>5
  <1>9. Len(compactGlobalArray(g, n)) = g
    BY Compacts
  <1> QED
    BY <1>5, <1>7, <1>8, <1>9 DEF Tiles, own, at, k

-----------------------------------------------------------------------------
(* The invariants of MCArithmetic.                                         *)

(* An input of MCArithmetic stays the input at hand.                       *)
LEMMA CaseKept == CaseSpec => []InitCase
  <1>1. InitCase /\ [NextCase]_case => InitCase'
    BY DEF InitCase, NextCase
  <1> QED
    BY <1>1, PTL DEF CaseSpec

(* What the input at hand is, by its part.                                 *)
LEMMA CaseParts ==
    ASSUME InitCase
    PROVE  /\ case.part = "assignment" => case.of \in Assignments
           /\ case.part = "tree" => case.of \in Trees
           /\ case.part = "distribution" => case.of \in Distributions
           /\ case.part = "times" => case.of \in Times
  <1>1. CASE \E c \in Assignments : case = [part |-> "assignment", of |-> c]
    BY <1>1
  <1>2. CASE \E t \in Trees : case = [part |-> "tree", of |-> t]
    BY <1>2
  <1>3. CASE \E d \in Distributions : case = [part |-> "distribution", of |-> d]
    BY <1>3
  <1>4. CASE \E t \in Times : case = [part |-> "times", of |-> t]
    BY <1>4
  <1> QED
    BY <1>1, <1>2, <1>3, <1>4 DEF InitCase

(* The assignments enumerated are configurations with nodes enough.        *)
LEMMA AssignmentsFit ==
    ASSUME NEW c \in Assignments
    PROVE  IsConfig(c) /\ ~NotEnoughNodes(c)
  <1>1. /\ c \in [kind : {"single", "multi"}, size : 1 .. MaxRanks,
                  numberOfMaps : 0 .. MaxMaps, readersPerMap : 0 .. MaxPerNode,
                  perWriter : 1 .. MaxPerNode, perReader : 1 .. MaxPerNode]
        /\ ~NotEnoughNodes(c)
    BY DEF Assignments
  <1>2. MaxRanks \in Nat /\ MaxMaps \in Nat /\ MaxPerNode \in Nat
    BY BoundsAssumption
  <1> QED
    BY <1>1, <1>2 DEF IsConfig

(* Every map has its one writer and its readers, and every rank that is    *)
(* counted in has maps to work on (MergedMapTestBench.run and              *)
(* MultiMergedMapTestBench.run).                                           *)
THEOREM MapsAlwaysServed == CaseSpec => []MapsServed
  <1>1. InitCase => MapsServed
    BY CaseParts, AssignmentsFit, EveryMapIsServed, WorkForEveryone DEF MapsServed
  <1> QED
    BY <1>1, CaseKept, PTL

(* The writer of a map has a lower rank than its readers, so that          *)
(* throttledSetup, which goes by rank, lets the writer warm the map first. *)
THEOREM WritersAlwaysPrecede == CaseSpec => []WritersPrecede
  <1>1. InitCase => WritersPrecede
    BY CaseParts, AssignmentsFit, WritersComeFirst DEF WritersPrecede
  <1> QED
    BY <1>1, CaseKept, PTL

(* The places that the ranks compute for themselves in a tree of           *)
(* coll_tuned_topo.c fit together to one tree from the root to everybody.  *)
THEOREM TreesAlwaysSpan == CaseSpec => []TreesSpan
  <1>1. InitCase => TreesSpan
    <2> SUFFICES ASSUME InitCase, case.part = "tree"
                 PROVE  Spans(case.of.kind, case.of.fanout, case.of.size, case.of.root)
      BY DEF TreesSpan
    <2> DEFINE kind == case.of.kind
               fanout == case.of.fanout
               size == case.of.size
               root == case.of.root
    <2>1. /\ kind \in {"tree", "bmtree", "in_order_bmtree", "chain", "in_order_bintree"}
          /\ fanout \in 1 .. MaxFanout
          /\ size \in 2 .. MaxTreeSize
          /\ root \in 0 .. MaxTreeSize - 1
          /\ root < size
          /\ kind = "tree" => fanout > 1
      BY CaseParts DEF Trees
    <2> HIDE DEF kind, fanout, size, root
    <2>2. /\ fanout \in Nat
          /\ size \in Nat \ {0}
          /\ root \in 0 .. (size - 1)
      BY <2>1, BoundsAssumption
    <2>3. kind = "tree" => fanout >= 2
      BY <2>1, <2>2
    <2>4. Spans(kind, fanout, size, root)
      <3>1. CASE kind = "tree"
        BY <2>2, <2>3, <3>1, LevelTreeSpans
      <3>2. CASE kind = "bmtree"
        BY <2>2, <3>2, BmtreeSpans
      <3>3. CASE kind = "in_order_bmtree"
        BY <2>2, <3>3, InOrderBmtreeSpans
      <3>4. CASE kind = "chain"
        BY <2>2, <3>4, ChainSpans
      <3>5. CASE kind = "in_order_bintree"
        BY <2>2, <3>5, InOrderBintreeSpans
      <3> QED
        BY <2>1, <3>1, <3>2, <3>3, <3>4, <3>5
    <2> QED
      BY <2>4 DEF kind, fanout, size, root
  <1> QED
    BY <1>1, CaseKept, PTL

(* The blocks of BlockDistribution cover the items without overlap, and    *)
(* compactGlobalArray agrees with getGlobalOffset.                         *)
THEOREM BlocksAlwaysFit == CaseSpec => []BlocksTile
  <1>1. InitCase => BlocksTile
    <2> SUFFICES ASSUME InitCase, case.part = "distribution"
                 PROVE  Tiles(case.of.items, case.of.procs)
      BY DEF BlocksTile
    <2>1. case.of \in [items : 0 .. MaxItems, procs : 1 .. MaxProcs]
      BY CaseParts DEF Distributions
    <2>2. case.of.items \in Nat /\ case.of.procs \in Nat \ {0}
      BY <2>1, BoundsAssumption
    <2> QED
      BY <2>2, BlocksAlwaysTile
  <1> QED
    BY <1>1, CaseKept, PTL

(* arpOrdering is an ordering on times whose differences fit into an Int,  *)
(* and it is the order in time.                                            *)
THEOREM TimesAlwaysOrdered == CaseSpec => []TimesOrdered
  <1>1. TimesOrdered
    <2> DEFINE T == case.of.from .. case.of.upto
    <2>1. T \subseteq Int
      OBVIOUS
    <2> HIDE DEF T
    <2>2. Close(T) => /\ IsOrdering(T)
                      /\ \A x, y \in T : compare(x, y) >= 0 <=> x >= y
      BY <2>1, ArpOrderingSound
    <2> QED
      BY <2>2 DEF TimesOrdered, T
  <1> QED
    BY <1>1, PTL

(* A message of the ARP map is read back as it was written if its time is  *)
(* not below 0 and its owner's name neither empty nor with a dash; any     *)
(* other is never taken for one with another address or time.              *)
THEOREM MessagesAlwaysReadBack == CaseSpec => []MessagesReadBack
  <1>1. InitCase => MessagesReadBack
    <2> DEFINE ip == [ip |-> 1]
               t == case.of.from
               Read(o) == fromBytes(serialize(<<ip, t, o>>))
    <2> SUFFICES ASSUME InitCase, case.part = "times", NEW o \in Names
                 PROVE  /\ t >= 0 /\ Len(o) = 1 /\ o[1] # Empty
                              => Read(o) = <<ip, t, o>>
                        /\ Read(o) \in {<<ip, t, o>>, Malformed, <<ip, t, <<o[1]>>>>}
      BY DEF MessagesReadBack
    <2>1. case.of \in [from : -MaxTime .. MaxTime, upto : -MaxTime .. MaxTime]
      BY CaseParts DEF Times
    <2>2. t \in Int
      BY <2>1, BoundsAssumption
    <2> DEFINE P == {Empty, [name |-> 1], [name |-> 2]}
    <2>3. PICK n \in 1 .. MaxPieces : o \in [1 .. n -> P]
      BY DEF Names
    <2> HIDE DEF P, ip, t
    <2>4. o \in Seq(P) /\ o # <<>> /\ Len(o) = n
      <3>1. n \in Nat /\ n >= 1
        BY BoundsAssumption
      <3> QED
        BY <2>3, <3>1, SeqDef
    <2>5. Read(o) = IF t < 0 \/ \A i \in 1 .. Len(o) : o[i] = Empty
                    THEN Malformed ELSE <<ip, t, <<o[1]>>>>
      BY <2>2, <2>4, CodecReadsBack
    <2> HIDE DEF Read
    <2>6. ASSUME t >= 0, Len(o) = 1, o[1] # Empty PROVE Read(o) = <<ip, t, o>>
      <3>1. o = <<o[1]>>
        BY <2>4, <2>6
      <3>2. Read(o) = <<ip, t, <<o[1]>>>>
        BY <2>2, <2>5, <2>6
      <3> QED
        BY <3>1, <3>2
    <2> QED
      BY <2>5, <2>6
  <1> QED
    BY <1>1, CaseKept, PTL

-----------------------------------------------------------------------------
(* The test cycle.                                                         *)

(* What TypeOK says, with the facts about the configuration.               *)
LEMMA TypeFacts ==
    ASSUME TypeOK
    PROVE  /\ IsConfig(config)
           /\ config.size \in Nat \ {0}
           /\ Rank = 0 .. (config.size - 1)
           /\ mpiRoot \in Rank
BY ConfigsAssumption DEF TypeOK, Rank, Ranks, mpiRoot, IsConfig

Inc(l) == IF l \in Barriers THEN 1 ELSE 0

(* A rank goes to a label.                                                 *)
LEMMA GotoMoves ==
    ASSUME TypeOK, NEW r \in Rank, NEW l \in Labels, Goto(r, l),
           config' = config
    PROVE  /\ Rank' = Rank
           /\ pc' \in [Rank -> Labels] /\ arrived' \in [Rank -> Nat]
           /\ pc'[r] = l /\ arrived'[r] = arrived[r] + Inc(l)
           /\ \A q \in Rank \ {r} : pc'[q] = pc[q] /\ arrived'[q] = arrived[q]
BY DEF TypeOK, Goto, Rank, Inc

(* Calls stay counted when the rank's new place accounts for its calls.    *)
LEMMA GotoKeepsCalls ==
    ASSUME TypeOK, CallsCounted, NEW r \in Rank, NEW l \in Labels, Goto(r, l),
           config' = config,
           \A q \in Rank \ {r} : turn'[q] = turn[q],
           CallsAt(l, turn'[r])
             = CallsAt(pc[r], turn[r]) + Inc(l)
    PROVE  CallsCounted'
BY GotoMoves DEF CallsCounted

(* A rank may leave a barrier that all have called.                        *)
LEMMA GotoKeepsLeft ==
    ASSUME TypeOK, LeftTogether, NEW r \in Rank, NEW l \in Labels, Goto(r, l),
           config' = config,
           pc[r] \in Barriers => \A q \in Rank : arrived[q] >= arrived[r]
    PROVE  LeftTogether'
  <1>1. /\ Rank' = Rank
        /\ pc'[r] = l
        /\ arrived'[r] = arrived[r] + Inc(l)
        /\ \A q \in Rank \ {r} : pc'[q] = pc[q] /\ arrived'[q] = arrived[q]
        /\ arrived' \in [Rank -> Nat]
    BY GotoMoves
  <1>2. arrived \in [Rank -> Nat]
    BY DEF TypeOK
  <1>3. Left(r)' = arrived[r]
    BY <1>1, <1>2 DEF Left, Inc
  <1>4. \A q \in Rank \ {r} : Left(q)' = Left(q)
    BY <1>1 DEF Left
  <1>5. \A q \in Rank : arrived[q] <= arrived'[q]
    BY <1>1, <1>2 DEF Inc
  <1>6. \A q \in Rank : arrived[r] <= arrived[q]
    BY <1>2 DEF LeftTogether, Left
  <1>7. \A q \in Rank : Left(q) \in Int
    BY <1>2 DEF Left
  <1>8. ASSUME NEW p \in Rank, NEW q \in Rank
        PROVE  Left(q)' <= arrived'[p]
    <2>1. CASE q = r
      BY <1>1, <1>2, <1>3, <1>5, <1>6, <2>1
    <2>2. CASE q # r
      BY <1>1, <1>2, <1>4, <1>5, <1>7, <2>2 DEF LeftTogether
    <2> QED
      BY <2>1, <2>2
  <1> QED
    BY <1>1, <1>8 DEF LeftTogether

-----------------------------------------------------------------------------
(* What the invariant asks of a rank r that is at label l in turn t of a    *)
(* job c, when wm is warm, op is open, od are the topics that exist and ms *)
(* those r has found missing.                                              *)
Fits(c, r, l, t, wm, op, od, ms) ==
    /\ l \in BeforeLoop => t = 0
    /\ l \in {"setup", "turnBarrier", "bcast"} => t < c.size
    /\ l = "setup" => t = r
    /\ l \in AfterSetup => t = c.size \/ ("setup" \in c.throws /\ t = r)
    /\ l = "name" => AutoName
    /\ l \notin {"name", "ips", "refused"} => ~NotEnoughNodes(c)
    /\ l \in {"open", "create"} => imTheWriter(c, r)
    /\ l \in {"connect", "createLate"} => Reads(c, r) # {}
    /\ (t > r \/ (t = r /\ l \in {"turnBarrier", "bcast"})) =>
         Writes(c, r) \subseteq wm
    /\ imTheWriter(c, r) /\ l \notin {"name", "ips", "refused", "open",
         "create", "post", "postBarrier", "done"} => r \in op
    /\ Reads(c, r) # {} /\ l \notin {"name", "ips", "refused",
         "initBarrier", "connect", "createLate", "post", "postBarrier",
         "done"} => r \in op
    /\ l \notin {"name", "ips", "refused", "open", "create"} =>
         Writes(c, r) \subseteq od
    /\ l = "create" => Writes(c, r) \subseteq od \cup ms

Local ==
    \A r \in Rank :
        Fits(config, r, pc[r], turn[r], warm, open, Opened, missing[r])

(* Who creates a topic is its writer.                                      *)
CreatorsWrite ==
    /\ \A r \in Rank : missing[r] \subseteq Writes(config, r)
    /\ \A m \in MapIds(config) :
          \A r \in creators[m] :
              m \in Writes(config, r) /\ ~NotEnoughNodes(config)

(* The invariant, with what it says of one rank gathered in Local.         *)
LEMMA InvariantParts ==
    IInv <=> TypeOK /\ CallsCounted /\ LeftTogether /\ BroadcastsCounted
               /\ Local /\ CreatorsWrite
BY Zenon DEF IInv, Local, Fits, CreatorsWrite, WritersCreate, TurnsInRange,
       PlaysItsPart, WarmAfterSetup, HasSetUp, OpenUntilShutdown,
       ReaderOpenUntilShutdown

(* The same in the next state.                                             *)
LEMMA InvariantPartsNext ==
    IInv' <=> TypeOK' /\ CallsCounted' /\ LeftTogether' /\ BroadcastsCounted'
               /\ Local' /\ CreatorsWrite'
BY Zenon DEF IInv, Local, Fits, CreatorsWrite, WritersCreate, TurnsInRange,
       PlaysItsPart, WarmAfterSetup, HasSetUp, OpenUntilShutdown,
       ReaderOpenUntilShutdown

(* The other ranks stay where they fit when the maps only get further.     *)
LEMMA FitsGrows ==
    ASSUME NEW c, NEW r, NEW l, NEW t, NEW wm, NEW op, NEW od, NEW ms,
           NEW wm2, NEW op2, NEW od2,
           Fits(c, r, l, t, wm, op, od, ms),
           wm \subseteq wm2, od \subseteq od2, r \in op => r \in op2
    PROVE  Fits(c, r, l, t, wm2, op2, od2, ms)
BY Zenon DEF Fits

(* One rank moves to a label it fits; the others still fit theirs.         *)
LEMMA MoveKeepsLocal ==
    ASSUME TypeOK, Local, NEW r \in Rank, NEW l \in Labels, Goto(r, l),
           config' = config, warm \subseteq warm', Opened \subseteq Opened',
           \A q \in Rank \ {r} : /\ turn'[q] = turn[q]
                                 /\ missing'[q] = missing[q]
                                 /\ q \in open => q \in open',
           Fits(config, r, l, turn'[r], warm', open', Opened', missing'[r])
    PROVE  Local'
  <1>1. /\ Rank' = Rank
        /\ pc'[r] = l
        /\ \A q \in Rank \ {r} : pc'[q] = pc[q]
    BY GotoMoves
  <1>2. ASSUME NEW q \in Rank \ {r}
        PROVE  Fits(config, q, pc'[q], turn'[q], warm', open', Opened',
                    missing'[q])
    <2>1. Fits(config, q, pc[q], turn[q], warm, open, Opened, missing[q])
      BY DEF Local
    <2>2. Fits(config, q, pc[q], turn[q], warm', open', Opened', missing[q])
      BY <2>1, FitsGrows
    <2> QED
      BY <1>1, <2>2
  <1> QED
    BY <1>1, <1>2 DEF Local

(* A step that moves one rank and changes nothing else.                    *)
LEMMA PureMove ==
    ASSUME IInv, NEW r \in Rank, NEW l \in Labels, Goto(r, l),
           UNCHANGED <<config, turn, sent, received, mapVars>>,
           pc[r] \in Barriers => \A q \in Rank : arrived[q] >= arrived[r],
           CallsAt(l, turn[r])
             = CallsAt(pc[r], turn[r]) + Inc(l),
           BroadcastsAt(l, turn[r]) = BroadcastsAt(pc[r], turn[r]),
           Fits(config, r, l, turn[r], warm, open, Opened, missing[r])
    PROVE  IInv'
  <1>1. /\ config' = config /\ turn' = turn /\ sent' = sent
        /\ received' = received /\ missing' = missing /\ creators' = creators
        /\ open' = open /\ warm' = warm /\ written' = written
    BY DEF mapVars
  <1>2. /\ TypeOK /\ CallsCounted /\ LeftTogether /\ BroadcastsCounted
        /\ Local /\ CreatorsWrite
    BY InvariantParts
  <1>3. /\ Rank' = Rank
        /\ pc' \in [Rank -> Labels] /\ arrived' \in [Rank -> Nat]
        /\ pc'[r] = l
        /\ \A q \in Rank \ {r} : pc'[q] = pc[q]
    BY <1>1, <1>2, GotoMoves
  <1>4. Opened' = Opened
    BY <1>1 DEF Opened
  <1>5. TypeOK'
    BY <1>1, <1>2, <1>3 DEF TypeOK
  <1>6. CallsCounted'
    BY <1>1, <1>2, GotoKeepsCalls
  <1>7. LeftTogether'
    BY <1>1, <1>2, GotoKeepsLeft
  <1>8. BroadcastsCounted'
    BY <1>1, <1>2, <1>3, TypeFacts DEF BroadcastsCounted, BroadcastsAt, mpiRoot
  <1>9. Local'
    BY <1>1, <1>2, <1>4, MoveKeepsLocal
  <1>10. CreatorsWrite'
    BY <1>1, <1>2, <1>3 DEF CreatorsWrite
  <1> QED
    BY <1>5, <1>6, <1>7, <1>8, <1>9, <1>10, InvariantPartsNext

-----------------------------------------------------------------------------
(* Where a rank is, as the invariant says it.                              *)
LEMMA RankFacts ==
    ASSUME IInv, NEW r \in Rank
    PROVE  /\ r \in Nat /\ r < config.size /\ config.size \in Nat
           /\ pc[r] \in Labels /\ turn[r] \in 0 .. config.size
           /\ arrived[r] \in Nat
           /\ arrived[r] = CallsAt(pc[r], turn[r])
           /\ Fits(config, r, pc[r], turn[r], warm, open, Opened, missing[r])
           /\ missing[r] \subseteq MapIds(config)
           /\ missing[r] \subseteq Writes(config, r)
           /\ \A q \in Rank : Left(r) <= arrived[q]
  <1>1. /\ TypeOK /\ CallsCounted /\ LeftTogether /\ Local /\ CreatorsWrite
    BY InvariantParts
  <1>2. r \in Nat /\ r < config.size /\ config.size \in Nat
    BY <1>1, TypeFacts
  <1>3. /\ pc[r] \in Labels /\ turn[r] \in 0 .. config.size
        /\ arrived[r] \in Nat /\ missing[r] \subseteq MapIds(config)
    BY <1>1 DEF TypeOK
  <1> QED
    BY <1>1, <1>2, <1>3 DEF CallsCounted, LeftTogether, Local, CreatorsWrite

(* When it is the turn of a rank, the lower ranks have set up, unless they *)
(* threw.                                                                  *)
LEMMA LowerHaveSetUp ==
    ASSUME IInv, SetupsSucceed, NEW r \in Rank, NEW q \in Rank,
           pc[r] = "setup", q < r
    PROVE  Writes(config, q) \subseteq warm
  <1>1. /\ r \in Nat /\ q \in Nat /\ q < config.size /\ config.size \in Nat
        /\ turn[q] \in Nat
        /\ Fits(config, r, pc[r], turn[r], warm, open, Opened, missing[r])
        /\ Fits(config, q, pc[q], turn[q], warm, open, Opened, missing[q])
        /\ arrived[q] = CallsAt(pc[q], turn[q])
        /\ arrived[r] = CallsAt(pc[r], turn[r])
        /\ Left(r) <= arrived[q]
        /\ pc[q] \in Labels
    BY RankFacts
  <1>2. turn[r] = r
    BY <1>1 DEF Fits
  <1>3. Left(r) = 2 + r
    BY <1>1, <1>2 DEF Left, Barriers, CallsAt
  <1>4. CallsAt(pc[q], turn[q]) >= 2 + r
    BY <1>1, <1>3
  <1>5. turn[q] > q \/ (turn[q] = q /\ pc[q] \in {"turnBarrier", "bcast"})
    <2>1. CASE pc[q] \in BeforeLoop
      BY <1>1, <1>4, <2>1 DEF CallsAt, BeforeLoop
    <2>2. CASE pc[q] \in {"loop", "setup"}
      BY <1>1, <1>4, <2>2 DEF CallsAt
    <2>3. CASE pc[q] \in {"turnBarrier", "bcast"}
      BY <1>1, <1>4, <2>3 DEF CallsAt
    <2>4. CASE pc[q] \in AfterSetup
      <3>1. turn[q] = config.size
        BY <1>1, <2>4 DEF Fits, SetupsSucceed
      <3> QED
        BY <1>1, <3>1
    <2> QED
      BY <1>1, <2>1, <2>2, <2>3, <2>4
         DEF Labels, Barriers, BeforeLoop, AfterSetup
  <1> QED
    BY <1>1, <1>5 DEF Fits

(* So a reader finds its maps warm, and a ReaderNode does not time out.    *)
LEMMA ReadersFindWarm ==
    ASSUME IInv, SetupsSucceed, NEW r \in Rank, pc[r] = "setup"
    PROVE  Reads(config, r) \subseteq warm
  <1>1. IsConfig(config) /\ Rank = Ranks(config)
    BY InvariantParts, TypeFacts DEF Rank
  <1>2. ~NotEnoughNodes(config)
    BY RankFacts DEF Fits
  <1>3. WritersFirst(config)
    BY <1>1, <1>2, WritersComeFirst
  <1>4. ASSUME NEW m \in Reads(config, r)
        PROVE  m \in warm
    <2>1. PICK q \in Rank : q < r /\ m \in Writes(config, q)
      BY <1>1, <1>3 DEF WritersFirst
    <2> QED
      BY <2>1, LowerHaveSetUp
  <1> QED
    BY <1>4

-----------------------------------------------------------------------------
(* The steps that only move a rank.                                        *)

(* NotEnoughNodesAvailableException.                                       *)
LEMMA RefuseKeeps ==
    ASSUME IInv, NEW r \in Rank, refuse(r)
    PROVE  IInv'
  <1> DEFINE l == "refused"
  <1>1. /\ Goto(r, l)
        /\ UNCHANGED <<config, turn, sent, received, mapVars>>
        /\ pc[r] \in Barriers => \A q \in Rank : arrived[q] >= arrived[r]
    BY DEF refuse, Barriers
  <1>2. /\ r \in Nat /\ r < config.size /\ turn[r] \in 0 .. config.size
        /\ config.size \in Nat
        /\ Fits(config, r, pc[r], turn[r], warm, open, Opened, missing[r])
    BY RankFacts
  <1>3. l \in Labels
    BY DEF Labels, Barriers
  <1>4. CallsAt(l, turn[r]) = CallsAt(pc[r], turn[r]) + Inc(l)
    BY <1>2 DEF refuse, CallsAt, Inc, Barriers, Fits, BeforeLoop, AfterSetup
  <1>5. BroadcastsAt(l, turn[r]) = BroadcastsAt(pc[r], turn[r])
    BY DEF refuse, BroadcastsAt
  <1>6. Fits(config, r, l, turn[r], warm, open, Opened, missing[r])
    BY <1>2 DEF refuse, Fits, BeforeLoop, AfterSetup
  <1> HIDE DEF l
  <1> QED
    BY <1>1, <1>3, <1>4, <1>5, <1>6, PureMove

(* The barrier between the writers and the readers of run.                 *)
LEMMA InitBarrierKeeps ==
    ASSUME IInv, NEW r \in Rank, initBarrier(r)
    PROVE  IInv'
  <1> DEFINE l == AfterInit(r)
  <1>1. /\ Goto(r, l)
        /\ UNCHANGED <<config, turn, sent, received, mapVars>>
        /\ pc[r] \in Barriers => \A q \in Rank : arrived[q] >= arrived[r]
    BY DEF initBarrier, barrier, Barriers
  <1>2. /\ r \in Nat /\ r < config.size /\ turn[r] \in 0 .. config.size
        /\ config.size \in Nat
        /\ Fits(config, r, pc[r], turn[r], warm, open, Opened, missing[r])
    BY RankFacts
  <1>3. l \in Labels
    BY DEF Labels, Barriers, AfterInit
  <1>4. CallsAt(l, turn[r]) = CallsAt(pc[r], turn[r]) + Inc(l)
    BY <1>2 DEF initBarrier, barrier, CallsAt, Inc, Barriers, Fits, BeforeLoop, AfterSetup, AfterInit
  <1>5. BroadcastsAt(l, turn[r]) = BroadcastsAt(pc[r], turn[r])
    BY DEF initBarrier, barrier, BroadcastsAt, AfterInit
  <1>6. Fits(config, r, l, turn[r], warm, open, Opened, missing[r])
    BY <1>2 DEF initBarrier, barrier, Fits, BeforeLoop, AfterSetup, AfterInit
  <1> HIDE DEF l
  <1> QED
    BY <1>1, <1>3, <1>4, <1>5, <1>6, PureMove

(* The barrier before throttledSetup.                                      *)
LEMMA StartBarrierKeeps ==
    ASSUME IInv, NEW r \in Rank, startBarrier(r)
    PROVE  IInv'
  <1> DEFINE l == "loop"
  <1>1. /\ Goto(r, l)
        /\ UNCHANGED <<config, turn, sent, received, mapVars>>
        /\ pc[r] \in Barriers => \A q \in Rank : arrived[q] >= arrived[r]
    BY DEF startBarrier, barrier, Barriers
  <1>2. /\ r \in Nat /\ r < config.size /\ turn[r] \in 0 .. config.size
        /\ config.size \in Nat
        /\ Fits(config, r, pc[r], turn[r], warm, open, Opened, missing[r])
    BY RankFacts
  <1>3. l \in Labels
    BY DEF Labels, Barriers
  <1>4. CallsAt(l, turn[r]) = CallsAt(pc[r], turn[r]) + Inc(l)
    BY <1>2 DEF startBarrier, barrier, CallsAt, Inc, Barriers, Fits, BeforeLoop, AfterSetup
  <1>5. BroadcastsAt(l, turn[r]) = BroadcastsAt(pc[r], turn[r])
    BY DEF startBarrier, barrier, BroadcastsAt
  <1>6. Fits(config, r, l, turn[r], warm, open, Opened, missing[r])
    BY <1>2 DEF startBarrier, barrier, Fits, BeforeLoop, AfterSetup
  <1> HIDE DEF l
  <1> QED
    BY <1>1, <1>3, <1>4, <1>5, <1>6, PureMove

(* The head of the loop of throttledSetup.                                 *)
LEMMA ThrottleKeeps ==
    ASSUME IInv, NEW r \in Rank, throttle(r)
    PROVE  IInv'
  <1> DEFINE l == IF turn[r] >= config.size THEN "setupBarrier"
                ELSE IF turn[r] = r THEN "setup"
                ELSE "turnBarrier"
  <1>1. /\ Goto(r, l)
        /\ UNCHANGED <<config, turn, sent, received, mapVars>>
        /\ pc[r] \in Barriers => \A q \in Rank : arrived[q] >= arrived[r]
    BY DEF throttle, Barriers
  <1>2. /\ r \in Nat /\ r < config.size /\ turn[r] \in 0 .. config.size
        /\ config.size \in Nat
        /\ Fits(config, r, pc[r], turn[r], warm, open, Opened, missing[r])
    BY RankFacts
  <1>3. l \in Labels
    BY DEF Labels, Barriers
  <1>4. CallsAt(l, turn[r]) = CallsAt(pc[r], turn[r]) + Inc(l)
    BY <1>2 DEF throttle, CallsAt, Inc, Barriers, Fits, BeforeLoop, AfterSetup
  <1>5. BroadcastsAt(l, turn[r]) = BroadcastsAt(pc[r], turn[r])
    BY DEF throttle, BroadcastsAt
  <1>6. Fits(config, r, l, turn[r], warm, open, Opened, missing[r])
    BY <1>2 DEF throttle, Fits, BeforeLoop, AfterSetup
  <1> HIDE DEF l
  <1> QED
    BY <1>1, <1>3, <1>4, <1>5, <1>6, PureMove

(* The setup of a reader or a dummy.                                       *)
LEMMA ReaderSetupKeeps ==
    ASSUME IInv, NEW r \in Rank, readerSetup(r)
    PROVE  IInv'
  <1> DEFINE l == "turnBarrier"
  <1>1. /\ Goto(r, l)
        /\ UNCHANGED <<config, turn, sent, received, mapVars>>
        /\ pc[r] \in Barriers => \A q \in Rank : arrived[q] >= arrived[r]
    BY DEF readerSetup, Barriers
  <1>2. /\ r \in Nat /\ r < config.size /\ turn[r] \in 0 .. config.size
        /\ config.size \in Nat
        /\ Fits(config, r, pc[r], turn[r], warm, open, Opened, missing[r])
    BY RankFacts
  <1>3. l \in Labels
    BY DEF Labels, Barriers
  <1>4. CallsAt(l, turn[r]) = CallsAt(pc[r], turn[r]) + Inc(l)
    BY <1>2 DEF readerSetup, CallsAt, Inc, Barriers, Fits, BeforeLoop, AfterSetup
  <1>5. BroadcastsAt(l, turn[r]) = BroadcastsAt(pc[r], turn[r])
    BY DEF readerSetup, BroadcastsAt
  <1>6. Fits(config, r, l, turn[r], warm, open, Opened, missing[r])
    BY <1>2 DEF readerSetup, Fits, BeforeLoop, AfterSetup, Writes
  <1> HIDE DEF l
  <1> QED
    BY <1>1, <1>3, <1>4, <1>5, <1>6, PureMove

(* The barrier that ends a turn.                                           *)
LEMMA TurnBarrierKeeps ==
    ASSUME IInv, NEW r \in Rank, turnBarrier(r)
    PROVE  IInv'
  <1> DEFINE l == "bcast"
  <1>1. /\ Goto(r, l)
        /\ UNCHANGED <<config, turn, sent, received, mapVars>>
        /\ pc[r] \in Barriers => \A q \in Rank : arrived[q] >= arrived[r]
    BY DEF turnBarrier, barrier, Barriers
  <1>2. /\ r \in Nat /\ r < config.size /\ turn[r] \in 0 .. config.size
        /\ config.size \in Nat
        /\ Fits(config, r, pc[r], turn[r], warm, open, Opened, missing[r])
    BY RankFacts
  <1>3. l \in Labels
    BY DEF Labels, Barriers
  <1>4. CallsAt(l, turn[r]) = CallsAt(pc[r], turn[r]) + Inc(l)
    BY <1>2 DEF turnBarrier, barrier, CallsAt, Inc, Barriers, Fits, BeforeLoop, AfterSetup
  <1>5. BroadcastsAt(l, turn[r]) = BroadcastsAt(pc[r], turn[r])
    BY DEF turnBarrier, barrier, BroadcastsAt
  <1>6. Fits(config, r, l, turn[r], warm, open, Opened, missing[r])
    BY <1>2 DEF turnBarrier, barrier, Fits, BeforeLoop, AfterSetup
  <1> HIDE DEF l
  <1> QED
    BY <1>1, <1>3, <1>4, <1>5, <1>6, PureMove

(* The barrier after throttledSetup.                                       *)
LEMMA SetupBarrierKeeps ==
    ASSUME IInv, NEW r \in Rank, setupBarrier(r)
    PROVE  IInv'
  <1> DEFINE l == "run"
  <1>1. /\ Goto(r, l)
        /\ UNCHANGED <<config, turn, sent, received, mapVars>>
        /\ pc[r] \in Barriers => \A q \in Rank : arrived[q] >= arrived[r]
    BY DEF setupBarrier, barrier, Barriers
  <1>2. /\ r \in Nat /\ r < config.size /\ turn[r] \in 0 .. config.size
        /\ config.size \in Nat
        /\ Fits(config, r, pc[r], turn[r], warm, open, Opened, missing[r])
    BY RankFacts
  <1>3. l \in Labels
    BY DEF Labels, Barriers
  <1>4. CallsAt(l, turn[r]) = CallsAt(pc[r], turn[r]) + Inc(l)
    BY <1>2 DEF setupBarrier, barrier, CallsAt, Inc, Barriers, Fits, BeforeLoop, AfterSetup
  <1>5. BroadcastsAt(l, turn[r]) = BroadcastsAt(pc[r], turn[r])
    BY DEF setupBarrier, barrier, BroadcastsAt
  <1>6. Fits(config, r, l, turn[r], warm, open, Opened, missing[r])
    BY <1>2 DEF setupBarrier, barrier, Fits, BeforeLoop, AfterSetup
  <1> HIDE DEF l
  <1> QED
    BY <1>1, <1>3, <1>4, <1>5, <1>6, PureMove

(* The run of a reader that has seen everything.                           *)
LEMMA ReaderRunKeeps ==
    ASSUME IInv, NEW r \in Rank, readerRun(r)
    PROVE  IInv'
  <1> DEFINE l == "runBarrier"
  <1>1. /\ Goto(r, l)
        /\ UNCHANGED <<config, turn, sent, received, mapVars>>
        /\ pc[r] \in Barriers => \A q \in Rank : arrived[q] >= arrived[r]
    BY DEF readerRun, Barriers
  <1>2. /\ r \in Nat /\ r < config.size /\ turn[r] \in 0 .. config.size
        /\ config.size \in Nat
        /\ Fits(config, r, pc[r], turn[r], warm, open, Opened, missing[r])
    BY RankFacts
  <1>3. l \in Labels
    BY DEF Labels, Barriers
  <1>4. CallsAt(l, turn[r]) = CallsAt(pc[r], turn[r]) + Inc(l)
    BY <1>2 DEF readerRun, CallsAt, Inc, Barriers, Fits, BeforeLoop, AfterSetup
  <1>5. BroadcastsAt(l, turn[r]) = BroadcastsAt(pc[r], turn[r])
    BY DEF readerRun, BroadcastsAt
  <1>6. Fits(config, r, l, turn[r], warm, open, Opened, missing[r])
    BY <1>2 DEF readerRun, Fits, BeforeLoop, AfterSetup
  <1> HIDE DEF l
  <1> QED
    BY <1>1, <1>3, <1>4, <1>5, <1>6, PureMove

(* The run of a node that throws.                                          *)
LEMMA RunThrowsKeeps ==
    ASSUME IInv, NEW r \in Rank, runThrows(r)
    PROVE  IInv'
  <1> DEFINE l == "runBarrier"
  <1>1. /\ Goto(r, l)
        /\ UNCHANGED <<config, turn, sent, received, mapVars>>
        /\ pc[r] \in Barriers => \A q \in Rank : arrived[q] >= arrived[r]
    BY DEF runThrows, Barriers
  <1>2. /\ r \in Nat /\ r < config.size /\ turn[r] \in 0 .. config.size
        /\ config.size \in Nat
        /\ Fits(config, r, pc[r], turn[r], warm, open, Opened, missing[r])
    BY RankFacts
  <1>3. l \in Labels
    BY DEF Labels, Barriers
  <1>4. CallsAt(l, turn[r]) = CallsAt(pc[r], turn[r]) + Inc(l)
    BY <1>2 DEF runThrows, CallsAt, Inc, Barriers, Fits, BeforeLoop, AfterSetup
  <1>5. BroadcastsAt(l, turn[r]) = BroadcastsAt(pc[r], turn[r])
    BY DEF runThrows, BroadcastsAt
  <1>6. Fits(config, r, l, turn[r], warm, open, Opened, missing[r])
    BY <1>2 DEF runThrows, Fits, BeforeLoop, AfterSetup
  <1> HIDE DEF l
  <1> QED
    BY <1>1, <1>3, <1>4, <1>5, <1>6, PureMove

(* The barrier after run.                                                  *)
LEMMA RunBarrierKeeps ==
    ASSUME IInv, NEW r \in Rank, runBarrier(r)
    PROVE  IInv'
  <1> DEFINE l == "shutdown"
  <1>1. /\ Goto(r, l)
        /\ UNCHANGED <<config, turn, sent, received, mapVars>>
        /\ pc[r] \in Barriers => \A q \in Rank : arrived[q] >= arrived[r]
    BY DEF runBarrier, barrier, Barriers
  <1>2. /\ r \in Nat /\ r < config.size /\ turn[r] \in 0 .. config.size
        /\ config.size \in Nat
        /\ Fits(config, r, pc[r], turn[r], warm, open, Opened, missing[r])
    BY RankFacts
  <1>3. l \in Labels
    BY DEF Labels, Barriers
  <1>4. CallsAt(l, turn[r]) = CallsAt(pc[r], turn[r]) + Inc(l)
    BY <1>2 DEF runBarrier, barrier, CallsAt, Inc, Barriers, Fits, BeforeLoop, AfterSetup
  <1>5. BroadcastsAt(l, turn[r]) = BroadcastsAt(pc[r], turn[r])
    BY DEF runBarrier, barrier, BroadcastsAt
  <1>6. Fits(config, r, l, turn[r], warm, open, Opened, missing[r])
    BY <1>2 DEF runBarrier, barrier, Fits, BeforeLoop, AfterSetup
  <1> HIDE DEF l
  <1> QED
    BY <1>1, <1>3, <1>4, <1>5, <1>6, PureMove

(* A shutdown that throws closes nothing.                                  *)
LEMMA ShutdownThrowsKeeps ==
    ASSUME IInv, NEW r \in Rank, shutdownThrows(r)
    PROVE  IInv'
  <1> DEFINE l == "post"
  <1>1. /\ Goto(r, l)
        /\ UNCHANGED <<config, turn, sent, received, mapVars>>
        /\ pc[r] \in Barriers => \A q \in Rank : arrived[q] >= arrived[r]
    BY DEF shutdownThrows, Barriers
  <1>2. /\ r \in Nat /\ r < config.size /\ turn[r] \in 0 .. config.size
        /\ config.size \in Nat
        /\ Fits(config, r, pc[r], turn[r], warm, open, Opened, missing[r])
    BY RankFacts
  <1>3. l \in Labels
    BY DEF Labels, Barriers
  <1>4. CallsAt(l, turn[r]) = CallsAt(pc[r], turn[r]) + Inc(l)
    BY <1>2 DEF shutdownThrows, CallsAt, Inc, Barriers, Fits, BeforeLoop, AfterSetup
  <1>5. BroadcastsAt(l, turn[r]) = BroadcastsAt(pc[r], turn[r])
    BY DEF shutdownThrows, BroadcastsAt
  <1>6. Fits(config, r, l, turn[r], warm, open, Opened, missing[r])
    BY <1>2 DEF shutdownThrows, Fits, BeforeLoop, AfterSetup
  <1> HIDE DEF l
  <1> QED
    BY <1>1, <1>3, <1>4, <1>5, <1>6, PureMove

(* The writing of the results.                                             *)
LEMMA PostProcessResultsKeeps ==
    ASSUME IInv, NEW r \in Rank, postProcessResults(r)
    PROVE  IInv'
  <1> DEFINE l == "postBarrier"
  <1>1. /\ Goto(r, l)
        /\ UNCHANGED <<config, turn, sent, received, mapVars>>
        /\ pc[r] \in Barriers => \A q \in Rank : arrived[q] >= arrived[r]
    BY DEF postProcessResults, Barriers
  <1>2. /\ r \in Nat /\ r < config.size /\ turn[r] \in 0 .. config.size
        /\ config.size \in Nat
        /\ Fits(config, r, pc[r], turn[r], warm, open, Opened, missing[r])
    BY RankFacts
  <1>3. l \in Labels
    BY DEF Labels, Barriers
  <1>4. CallsAt(l, turn[r]) = CallsAt(pc[r], turn[r]) + Inc(l)
    BY <1>2 DEF postProcessResults, CallsAt, Inc, Barriers, Fits, BeforeLoop, AfterSetup
  <1>5. BroadcastsAt(l, turn[r]) = BroadcastsAt(pc[r], turn[r])
    BY DEF postProcessResults, BroadcastsAt
  <1>6. Fits(config, r, l, turn[r], warm, open, Opened, missing[r])
    BY <1>2 DEF postProcessResults, Fits, BeforeLoop, AfterSetup
  <1> HIDE DEF l
  <1> QED
    BY <1>1, <1>3, <1>4, <1>5, <1>6, PureMove

(* The last barrier.                                                       *)
LEMMA PostBarrierKeeps ==
    ASSUME IInv, NEW r \in Rank, postBarrier(r)
    PROVE  IInv'
  <1> DEFINE l == "done"
  <1>1. /\ Goto(r, l)
        /\ UNCHANGED <<config, turn, sent, received, mapVars>>
        /\ pc[r] \in Barriers => \A q \in Rank : arrived[q] >= arrived[r]
    BY DEF postBarrier, barrier, Barriers
  <1>2. /\ r \in Nat /\ r < config.size /\ turn[r] \in 0 .. config.size
        /\ config.size \in Nat
        /\ Fits(config, r, pc[r], turn[r], warm, open, Opened, missing[r])
    BY RankFacts
  <1>3. l \in Labels
    BY DEF Labels, Barriers
  <1>4. CallsAt(l, turn[r]) = CallsAt(pc[r], turn[r]) + Inc(l)
    BY <1>2 DEF postBarrier, barrier, CallsAt, Inc, Barriers, Fits, BeforeLoop, AfterSetup
  <1>5. BroadcastsAt(l, turn[r]) = BroadcastsAt(pc[r], turn[r])
    BY DEF postBarrier, barrier, BroadcastsAt
  <1>6. Fits(config, r, l, turn[r], warm, open, Opened, missing[r])
    BY <1>2 DEF postBarrier, barrier, Fits, BeforeLoop, AfterSetup
  <1> HIDE DEF l
  <1> QED
    BY <1>1, <1>3, <1>4, <1>5, <1>6, PureMove

-----------------------------------------------------------------------------
(* The steps that also send, receive, open or close.                       *)

(* A broadcast of run: the rank leaves label a for label l, both before    *)
(* the loop.                                                               *)
LEMMA PrefaceBroadcast ==
    ASSUME IInv, NEW r \in Rank, NEW l \in Labels, Goto(r, l), broadcast(r, 0),
           UNCHANGED <<config, turn, mapVars>>,
           pc[r] \in {"name", "ips"},
           CallsAt(l, turn[r])
             = CallsAt(pc[r], turn[r]) + Inc(l),
           BroadcastsAt(l, turn[r]) = BroadcastsAt(pc[r], turn[r]) + 1,
           BroadcastsAt(l, turn[r]) <= Preface,
           Fits(config, r, l, turn[r], warm, open, Opened, missing[r])
    PROVE  IInv'
  <1>1. /\ config' = config /\ turn' = turn
        /\ missing' = missing /\ creators' = creators
        /\ open' = open /\ warm' = warm /\ written' = written
    BY DEF mapVars
  <1>2. /\ TypeOK /\ CallsCounted /\ LeftTogether /\ BroadcastsCounted
        /\ Local /\ CreatorsWrite
    BY InvariantParts
  <1>3. /\ Rank' = Rank
        /\ pc' \in [Rank -> Labels] /\ arrived' \in [Rank -> Nat]
        /\ pc'[r] = l
        /\ \A q \in Rank \ {r} : pc'[q] = pc[q]
    BY <1>1, <1>2, GotoMoves
  <1>4. Opened' = Opened
    BY <1>1 DEF Opened
  <1>5. /\ sent \in Seq(0 .. config.size) /\ received \in [Rank -> Nat]
        /\ config.size \in Nat /\ 0 \in 0 .. config.size
    BY <1>2, TypeFacts DEF TypeOK
  <1>6. sent' \in Seq(0 .. config.size) /\ received' \in [Rank -> Nat]
    <2>1. CASE r = mpiRoot
      <3>1. sent' = Append(sent, 0) /\ received' = received
        BY <2>1 DEF broadcast
      <3> QED
        BY <1>5, <3>1
    <2>2. CASE r # mpiRoot
      <3>1. sent' = sent /\ received' = [received EXCEPT ![r] = @ + 1]
        BY <2>2 DEF broadcast
      <3>2. received[r] + 1 \in Nat
        BY <1>5
      <3> QED
        BY <1>5, <3>1, <3>2
    <2> QED
      BY <2>1, <2>2
  <1>7. TypeOK'
    BY <1>1, <1>2, <1>3, <1>6 DEF TypeOK
  <1>8. CallsCounted'
    BY <1>1, <1>2, GotoKeepsCalls
  <1>9. LeftTogether'
    BY <1>1, <1>2, GotoKeepsLeft DEF Barriers
  <1>10. BroadcastsCounted'
    <2>1. CASE r = mpiRoot
      <3>1. /\ sent' = Append(sent, 0)
            /\ received' = received
        BY <2>1 DEF broadcast
      <3>2. /\ Len(sent') = Len(sent) + 1
            /\ \A i \in 1 .. Len(sent) : sent'[i] = sent[i]
            /\ Len(sent) \in Nat
        BY <1>5, <3>1
      <3>3. Len(sent) + 1 <= Preface
        BY <1>2, <2>1 DEF BroadcastsCounted
      <3>4. Preface \in Nat
        BY DEF Preface
      <3>5. Len(sent') = BroadcastsAt(pc'[mpiRoot], turn'[mpiRoot])
        BY <1>1, <1>2, <1>3, <2>1, <3>2 DEF BroadcastsCounted
      <3>6. \A q \in Rank \ {mpiRoot} :
                received'[q] = BroadcastsAt(pc'[q], turn'[q])
        BY <1>1, <1>2, <1>3, <2>1, <3>1 DEF BroadcastsCounted
      <3>7. \A i \in 1 .. Len(sent') : i > Preface => sent'[i] = i - Preface
        BY <3>2, <3>3, <3>4
      <3> QED
        BY <1>3, <3>5, <3>6, <3>7 DEF BroadcastsCounted, BroadcastsAt, mpiRoot
    <2>2. CASE r # mpiRoot
      <3>1. /\ sent' = sent
            /\ received' = [received EXCEPT ![r] = @ + 1]
        BY <2>2 DEF broadcast
      <3>2. mpiRoot \in Rank
        BY <1>2, TypeFacts
      <3>3. \A q \in Rank \ {mpiRoot} :
                received'[q] = BroadcastsAt(pc'[q], turn'[q])
        BY <1>1, <1>2, <1>3, <1>5, <2>2, <3>1 DEF BroadcastsCounted
      <3>4. Len(sent') = BroadcastsAt(pc'[mpiRoot], turn'[mpiRoot])
        BY <1>1, <1>2, <1>3, <2>2, <3>1, <3>2 DEF BroadcastsCounted
      <3> QED
        BY <1>2, <1>3, <3>1, <3>3, <3>4
           DEF BroadcastsCounted, BroadcastsAt, mpiRoot
    <2> QED
      BY <2>1, <2>2
  <1>11. Local'
    BY <1>1, <1>2, <1>4, MoveKeepsLocal
  <1>12. CreatorsWrite'
    BY <1>1, <1>2, <1>3 DEF CreatorsWrite
  <1> QED
    BY <1>7, <1>8, <1>9, <1>10, <1>11, <1>12, InvariantPartsNext

(* The broadcast of the map name.                                          *)
LEMMA GenerateAndDistributeMapBaseNameKeeps ==
    ASSUME IInv, NEW r \in Rank, generateAndDistributeMapBaseName(r)
    PROVE  IInv'
  <1> DEFINE l == "ips"
  <1>1. /\ Goto(r, l) /\ broadcast(r, 0)
        /\ UNCHANGED <<config, turn, mapVars>>
        /\ pc[r] \in {"name", "ips"}
    BY DEF generateAndDistributeMapBaseName
  <1>2. /\ turn[r] \in 0 .. config.size
        /\ config.size \in Nat
        /\ Fits(config, r, pc[r], turn[r], warm, open, Opened, missing[r])
    BY RankFacts
  <1>3. l \in Labels
    BY DEF Labels, Barriers
  <1>4. CallsAt(l, turn[r]) = CallsAt(pc[r], turn[r]) + Inc(l)
    BY <1>1 DEF CallsAt, Inc, Barriers
  <1>5. /\ BroadcastsAt(l, turn[r]) = BroadcastsAt(pc[r], turn[r]) + 1
        /\ BroadcastsAt(l, turn[r]) <= Preface
    BY <1>2 DEF generateAndDistributeMapBaseName, BroadcastsAt, Preface, Fits, BeforeLoop
  <1>6. Fits(config, r, l, turn[r], warm, open, Opened, missing[r])
    BY <1>2 DEF generateAndDistributeMapBaseName, Fits, BeforeLoop, AfterSetup, Writes
  <1> HIDE DEF l
  <1> QED
    BY <1>1, <1>3, <1>4, <1>5, <1>6, PrefaceBroadcast

(* The broadcast of the random addresses.                                  *)
LEMMA DistributeRandomIPSetKeeps ==
    ASSUME IInv, NEW r \in Rank, distributeRandomIPSet(r)
    PROVE  IInv'
  <1> DEFINE l == IF imTheWriter(config, r) THEN "open" ELSE "initBarrier"
  <1>1. /\ Goto(r, l) /\ broadcast(r, 0)
        /\ UNCHANGED <<config, turn, mapVars>>
        /\ pc[r] \in {"name", "ips"}
    BY DEF distributeRandomIPSet
  <1>2. /\ r \in Nat /\ turn[r] \in 0 .. config.size
        /\ config.size \in Nat
        /\ Fits(config, r, pc[r], turn[r], warm, open, Opened, missing[r])
    BY RankFacts
  <1>3. l \in Labels
    BY DEF Labels, Barriers
  <1>4. CallsAt(l, turn[r]) = CallsAt(pc[r], turn[r]) + Inc(l)
    BY <1>1 DEF CallsAt, Inc, Barriers
  <1>5. /\ BroadcastsAt(l, turn[r]) = BroadcastsAt(pc[r], turn[r]) + 1
        /\ BroadcastsAt(l, turn[r]) <= Preface
    BY <1>2 DEF distributeRandomIPSet, BroadcastsAt, Preface, Fits, BeforeLoop
  <1>6. Fits(config, r, l, turn[r], warm, open, Opened, missing[r])
    <2>1. turn[r] = 0 /\ ~NotEnoughNodes(config)
      BY <1>2 DEF distributeRandomIPSet, Fits, BeforeLoop
    <2>2. CASE imTheWriter(config, r)
      BY <1>2, <2>1, <2>2 DEF Fits, BeforeLoop, AfterSetup, Writes, Reads
    <2>3. CASE ~imTheWriter(config, r)
      BY <1>2, <2>1, <2>3 DEF Fits, BeforeLoop, AfterSetup, Writes
    <2> QED
      BY <2>2, <2>3
  <1> HIDE DEF l
  <1> QED
    BY <1>1, <1>3, <1>4, <1>5, <1>6, PrefaceBroadcast
(* A step that moves one rank and gets its maps further.                   *)
LEMMA MapMove ==
    ASSUME IInv, NEW r \in Rank, NEW l \in Labels, Goto(r, l),
           UNCHANGED <<config, turn, sent, received>>,
           pc[r] \notin Barriers,
           CallsAt(l, turn[r])
             = CallsAt(pc[r], turn[r]) + Inc(l),
           BroadcastsAt(l, turn[r]) = BroadcastsAt(pc[r], turn[r]),
           missing' \in [Rank -> SUBSET MapIds(config)],
           creators' \in [MapIds(config) -> SUBSET Rank],
           open' \subseteq Rank,
           warm' \subseteq MapIds(config), written' \subseteq MapIds(config),
           warm \subseteq warm', Opened \subseteq Opened',
           \A q \in Rank \ {r} : /\ missing'[q] = missing[q]
                                 /\ q \in open => q \in open',
           missing'[r] \subseteq Writes(config, r),
           \A m \in MapIds(config) :
               \A q \in creators'[m] :
                   m \in Writes(config, q) /\ ~NotEnoughNodes(config),
           Fits(config, r, l, turn[r], warm', open', Opened', missing'[r])
    PROVE  IInv'
  <1>1. /\ config' = config /\ turn' = turn /\ sent' = sent
        /\ received' = received
    OBVIOUS
  <1>2. /\ TypeOK /\ CallsCounted /\ LeftTogether /\ BroadcastsCounted
        /\ Local /\ CreatorsWrite
    BY InvariantParts
  <1>3. /\ Rank' = Rank
        /\ pc' \in [Rank -> Labels] /\ arrived' \in [Rank -> Nat]
        /\ pc'[r] = l
        /\ \A q \in Rank \ {r} : pc'[q] = pc[q]
    BY <1>1, <1>2, GotoMoves
  <1>4. TypeOK'
    BY <1>1, <1>2, <1>3 DEF TypeOK
  <1>5. CallsCounted'
    BY <1>1, <1>2, GotoKeepsCalls
  <1>6. LeftTogether'
    BY <1>1, <1>2, GotoKeepsLeft
  <1>7. BroadcastsCounted'
    <2>1. \A q \in Rank : BroadcastsAt(pc'[q], turn'[q]) = BroadcastsAt(pc[q], turn[q])
      BY <1>1, <1>3
    <2>2. mpiRoot \in Rank /\ mpiRoot' = mpiRoot
      BY <1>2, TypeFacts DEF mpiRoot
    <2> QED
      BY <1>1, <1>2, <1>3, <2>1, <2>2 DEF BroadcastsCounted
  <1>8. Local'
    BY <1>1, <1>2, MoveKeepsLocal
  <1>9. CreatorsWrite'
    BY <1>1, <1>2, <1>3 DEF CreatorsWrite
  <1> QED
    BY <1>4, <1>5, <1>6, <1>7, <1>8, <1>9, InvariantPartsNext

(* The maps of a rank exist, once the job has not been refused.            *)
LEMMA MapsExist ==
    ASSUME IInv, NEW r \in Rank, ~NotEnoughNodes(config)
    PROVE  /\ myMaps(config, r) \subseteq MapIds(config)
           /\ Writes(config, r) \subseteq MapIds(config)
           /\ Writes(config, r) \subseteq myMaps(config, r)
  <1>1. IsConfig(config) /\ Rank = Ranks(config)
    BY InvariantParts, TypeFacts DEF Rank
  <1>2. NobodyIdle(config)
    BY <1>1, WorkForEveryone
  <1> QED
    BY <1>1, <1>2 DEF NobodyIdle, Writes

(* A rank that has left the first barrier finds the topics of all maps.    *)
LEMMA TopicsExist ==
    ASSUME IInv, NEW r \in Rank, pc[r] = "connect"
    PROVE  MapIds(config) \subseteq Opened
  <1>1. /\ IsConfig(config) /\ Rank = Ranks(config)
    BY InvariantParts, TypeFacts DEF Rank
  <1>2. /\ ~NotEnoughNodes(config)
        /\ turn[r] = 0
        /\ arrived[r] = 1
        /\ \A q \in Rank : Left(r) <= arrived[q]
    BY RankFacts DEF Fits, BeforeLoop, CallsAt
  <1>3. \A q \in Rank : arrived[q] >= 1
    BY <1>2, RankFacts DEF Left, Barriers
  <1>4. ASSUME NEW q \in Rank
        PROVE  Writes(config, q) \subseteq Opened
    <2>1. /\ arrived[q] = CallsAt(pc[q], turn[q])
          /\ Fits(config, q, pc[q], turn[q], warm, open, Opened, missing[q])
      BY RankFacts
    <2>2. pc[q] \notin {"name", "ips", "refused", "open", "create"}
      BY <1>3, <2>1 DEF CallsAt
    <2> QED
      BY <2>1, <2>2 DEF Fits
  <1>5. ASSUME NEW m \in MapIds(config)
        PROVE  m \in Opened
    BY <1>1, <1>2, <1>4, OneWriter
  <1> QED
    BY <1>5

(* Finding out which topics are missing, when those are for the rank to    *)
(* create.                                                                 *)
LEMMA FindMissingKeeps ==
    ASSUME IInv, NEW r \in Rank, NEW at \in Labels, NEW l \in Labels,
           FindMissing(r, at, l),
           <<at, l>> \in {<<"open", "create">>, <<"connect", "createLate">>},
           myMaps(config, r) \ Opened \subseteq Writes(config, r)
    PROVE  IInv'
  <1>1. /\ Goto(r, l) /\ pc[r] = at
        /\ UNCHANGED <<config, turn, sent, received>>
        /\ creators' = creators /\ open' = open /\ warm' = warm
        /\ written' = written
        /\ missing' = [missing EXCEPT ![r] = myMaps(config, r) \ Opened]
    BY DEF FindMissing
  <1>2. /\ r \in Nat /\ turn[r] \in 0 .. config.size
        /\ Fits(config, r, pc[r], turn[r], warm, open, Opened, missing[r])
    BY RankFacts
  <1>3. ~NotEnoughNodes(config)
    BY <1>1, <1>2 DEF Fits
  <1>4. /\ TypeOK /\ CreatorsWrite
    BY InvariantParts
  <1>5. /\ missing' \in [Rank -> SUBSET MapIds(config)]
        /\ missing'[r] = myMaps(config, r) \ Opened
        /\ \A q \in Rank \ {r} : missing'[q] = missing[q]
    BY <1>1, <1>3, <1>4, MapsExist DEF TypeOK
  <1>6. Opened' = Opened
    BY <1>1 DEF Opened
  <1>7. /\ CallsAt(l, turn[r])
             = CallsAt(pc[r], turn[r]) + Inc(l)
        /\ BroadcastsAt(l, turn[r]) = BroadcastsAt(pc[r], turn[r])
        /\ pc[r] \notin Barriers
    BY <1>1 DEF CallsAt, BroadcastsAt, Inc, Barriers
  <1>8. Fits(config, r, l, turn[r], warm', open', Opened', missing'[r])
    <2>1. Writes(config, r) \subseteq Opened' \cup missing'[r]
      BY <1>3, <1>5, <1>6, MapsExist
    <2>2. CASE at = "open" /\ l = "create"
      BY <1>1, <1>2, <1>6, <2>1, <2>2
         DEF Fits, BeforeLoop, AfterSetup, Reads
    <2>3. CASE at = "connect" /\ l = "createLate"
      BY <1>1, <1>2, <1>6, <2>3 DEF Fits, BeforeLoop, AfterSetup
    <2> QED
      BY <2>2, <2>3
  <1> QED
    BY <1>1, <1>4, <1>5, <1>6, <1>7, <1>8, MapMove DEF TypeOK, CreatorsWrite

(* A writer finds its own topics missing.                                  *)
LEMMA OpenAsWriterKeeps ==
    ASSUME IInv, NEW r \in Rank, openAsWriter(r)
    PROVE  IInv'
  <1>1. imTheWriter(config, r)
    BY RankFacts DEF openAsWriter, FindMissing, Fits
  <1>2. myMaps(config, r) \ Opened \subseteq Writes(config, r)
    BY <1>1 DEF Writes
  <1> QED
    BY <1>2, FindMissingKeeps DEF openAsWriter, Labels

(* A reader finds no topic missing.                                        *)
LEMMA OpenAsReaderKeeps ==
    ASSUME IInv, NEW r \in Rank, openAsReader(r)
    PROVE  IInv'
  <1>1. pc[r] = "connect"
    BY DEF openAsReader, FindMissing
  <1>2. ~NotEnoughNodes(config)
    BY <1>1, RankFacts DEF Fits
  <1>3. myMaps(config, r) \ Opened \subseteq Writes(config, r)
    BY <1>1, <1>2, TopicsExist, MapsExist
  <1> QED
    BY <1>3, FindMissingKeeps DEF openAsReader, Labels

(* Creating what was missing.                                              *)
LEMMA CreateMissingKeeps ==
    ASSUME IInv, NEW r \in Rank, NEW at \in Labels, NEW l \in Labels,
           CreateMissing(r, at, l),
           <<at, l>> \in {<<"create", "initBarrier">>,
                          <<"createLate", "startBarrier">>}
    PROVE  IInv'
  <1>1. /\ Goto(r, l) /\ pc[r] = at
        /\ UNCHANGED <<config, turn, sent, received>>
        /\ open' = open \cup {r} /\ warm' = warm /\ written' = written
        /\ missing' = [missing EXCEPT ![r] = {}]
        /\ creators' = [m \in MapIds(config) |->
                            IF m \in missing[r] THEN creators[m] \cup {r}
                            ELSE creators[m]]
    BY DEF CreateMissing
  <1>2. /\ r \in Nat /\ turn[r] \in 0 .. config.size
        /\ Fits(config, r, pc[r], turn[r], warm, open, Opened, missing[r])
        /\ missing[r] \subseteq MapIds(config)
        /\ missing[r] \subseteq Writes(config, r)
    BY RankFacts
  <1>3. TypeOK /\ CreatorsWrite
    BY InvariantParts
  <1>4. /\ missing' \in [Rank -> SUBSET MapIds(config)]
        /\ missing'[r] = {}
        /\ \A q \in Rank \ {r} : missing'[q] = missing[q]
    BY <1>1, <1>3 DEF TypeOK
  <1>5. creators' \in [MapIds(config) -> SUBSET Rank]
    BY <1>1, <1>3 DEF TypeOK
  <1>6. Opened' = Opened \cup missing[r]
    <2>1. MapIds(config)' = MapIds(config)
      BY <1>1
    <2>2. ASSUME NEW m \in MapIds(config)
          PROVE  creators'[m] # {} <=> (creators[m] # {} \/ m \in missing[r])
      BY <1>1
    <2> QED
      BY <1>2, <2>1, <2>2 DEF Opened
  <1>7. \A m \in MapIds(config) :
            \A q \in creators'[m] :
                m \in Writes(config, q) /\ ~NotEnoughNodes(config)
    <2>1. ~NotEnoughNodes(config)
      BY <1>1, <1>2 DEF Fits
    <2> QED
      BY <1>1, <1>2, <1>3, <2>1 DEF CreatorsWrite
  <1>8. /\ CallsAt(l, turn[r])
             = CallsAt(pc[r], turn[r]) + Inc(l)
        /\ BroadcastsAt(l, turn[r]) = BroadcastsAt(pc[r], turn[r])
        /\ pc[r] \notin Barriers
    BY <1>1 DEF CallsAt, BroadcastsAt, Inc, Barriers
  <1>9. Fits(config, r, l, turn[r], warm', open', Opened', missing'[r])
    <2>1. r \in open'
      BY <1>1
    <2>2. CASE at = "create" /\ l = "initBarrier"
      <3>1. Writes(config, r) \subseteq Opened'
        BY <1>1, <1>2, <1>6, <2>2 DEF Fits
      <3> QED
        BY <1>1, <1>2, <2>1, <2>2, <3>1 DEF Fits, BeforeLoop, AfterSetup
    <2>3. CASE at = "createLate" /\ l = "startBarrier"
      <3>1. Writes(config, r) \subseteq Opened'
        BY <1>1, <1>2, <1>6, <2>3 DEF Fits
      <3> QED
        BY <1>1, <1>2, <2>1, <2>3, <3>1 DEF Fits, BeforeLoop, AfterSetup
    <2> QED
      BY <2>2, <2>3
  <1>10. /\ open' \subseteq Rank /\ \A q \in Rank \ {r} : q \in open => q \in open'
         /\ warm' \subseteq MapIds(config) /\ written' \subseteq MapIds(config)
         /\ warm \subseteq warm'
    BY <1>1, <1>3 DEF TypeOK
  <1> QED
    BY <1>1, <1>4, <1>5, <1>6, <1>7, <1>8, <1>9, <1>10, MapMove

(* A writer creates its topics.                                            *)
LEMMA CreateAsWriterKeeps ==
    ASSUME IInv, NEW r \in Rank, createAsWriter(r)
    PROVE  IInv'
BY CreateMissingKeeps DEF createAsWriter, Labels, Barriers

(* A reader has none to create, and connects.                              *)
LEMMA CreateAsReaderKeeps ==
    ASSUME IInv, NEW r \in Rank, createAsReader(r)
    PROVE  IInv'
BY CreateMissingKeeps DEF createAsReader, Labels, Barriers

(* The setup of a writer warms its maps.                                   *)
LEMMA WriterSetupKeeps ==
    ASSUME IInv, NEW r \in Rank, writerSetup(r)
    PROVE  IInv'
  <1>1. /\ Goto(r, "turnBarrier") /\ pc[r] = "setup"
        /\ UNCHANGED <<config, turn, sent, received>>
        /\ missing' = missing /\ creators' = creators /\ open' = open
        /\ written' = written /\ warm' = warm \cup Writes(config, r)
    BY DEF writerSetup
  <1>2. /\ r \in Nat /\ turn[r] \in 0 .. config.size
        /\ config.size \in Nat
        /\ Fits(config, r, pc[r], turn[r], warm, open, Opened, missing[r])
        /\ missing[r] \subseteq Writes(config, r)
    BY RankFacts
  <1>3. ~NotEnoughNodes(config)
    BY <1>1, <1>2 DEF Fits
  <1>4. TypeOK /\ CreatorsWrite
    BY InvariantParts
  <1>5. Opened' = Opened
    BY <1>1 DEF Opened
  <1>6. warm' \subseteq MapIds(config) /\ Writes(config, r) \subseteq warm'
    BY <1>1, <1>3, <1>4, MapsExist DEF TypeOK
  <1>7. /\ CallsAt("turnBarrier", turn[r])
             = CallsAt(pc[r], turn[r]) + Inc("turnBarrier")
        /\ BroadcastsAt("turnBarrier", turn[r]) = BroadcastsAt(pc[r], turn[r])
        /\ pc[r] \notin Barriers /\ "turnBarrier" \in Labels
    BY <1>1, <1>2 DEF CallsAt, BroadcastsAt, Inc, Barriers, Labels
  <1>8. Fits(config, r, "turnBarrier", turn[r], warm', open', Opened',
             missing'[r])
    BY <1>1, <1>2, <1>5, <1>6 DEF Fits, BeforeLoop, AfterSetup
  <1> QED
    BY <1>1, <1>2, <1>4, <1>5, <1>6, <1>7, <1>8, MapMove
       DEF TypeOK, CreatorsWrite

(* The run of a writer.                                                    *)
LEMMA WriterRunKeeps ==
    ASSUME IInv, NEW r \in Rank, writerRun(r)
    PROVE  IInv'
  <1>1. /\ Goto(r, "runBarrier") /\ pc[r] = "run"
        /\ UNCHANGED <<config, turn, sent, received>>
        /\ missing' = missing /\ creators' = creators /\ open' = open
        /\ warm' = warm /\ written' = written \cup Writes(config, r)
    BY DEF writerRun
  <1>2. /\ r \in Nat /\ turn[r] \in 0 .. config.size
        /\ config.size \in Nat
        /\ Fits(config, r, pc[r], turn[r], warm, open, Opened, missing[r])
        /\ missing[r] \subseteq Writes(config, r)
    BY RankFacts
  <1>3. ~NotEnoughNodes(config)
    BY <1>1, <1>2 DEF Fits
  <1>4. TypeOK /\ CreatorsWrite
    BY InvariantParts
  <1>5. Opened' = Opened
    BY <1>1 DEF Opened
  <1>6. written' \subseteq MapIds(config)
    BY <1>1, <1>3, <1>4, MapsExist DEF TypeOK
  <1>7. /\ CallsAt("runBarrier", turn[r])
             = CallsAt(pc[r], turn[r]) + Inc("runBarrier")
        /\ BroadcastsAt("runBarrier", turn[r]) = BroadcastsAt(pc[r], turn[r])
        /\ pc[r] \notin Barriers /\ "runBarrier" \in Labels
    BY <1>1, <1>2 DEF CallsAt, BroadcastsAt, Inc, Barriers, Labels
  <1>8. Fits(config, r, "runBarrier", turn[r], warm', open', Opened',
             missing'[r])
    BY <1>1, <1>2, <1>5 DEF Fits, BeforeLoop, AfterSetup
  <1> QED
    BY <1>1, <1>2, <1>4, <1>5, <1>6, <1>7, <1>8, MapMove
       DEF TypeOK, CreatorsWrite

(* A node closes its own buses only, after the barrier after run.          *)
LEMMA ShutdownKeeps ==
    ASSUME IInv, NEW r \in Rank, shutdown(r)
    PROVE  IInv'
  <1>1. /\ Goto(r, "post") /\ pc[r] = "shutdown"
        /\ UNCHANGED <<config, turn, sent, received>>
        /\ missing' = missing /\ creators' = creators /\ warm' = warm
        /\ written' = written
        /\ open' \subseteq open /\ open \ {r} \subseteq open'
    BY DEF shutdown
  <1>2. /\ r \in Nat /\ turn[r] \in 0 .. config.size
        /\ config.size \in Nat
        /\ Fits(config, r, pc[r], turn[r], warm, open, Opened, missing[r])
        /\ missing[r] \subseteq Writes(config, r)
    BY RankFacts
  <1>3. TypeOK /\ CreatorsWrite
    BY InvariantParts
  <1>4. Opened' = Opened
    BY <1>1 DEF Opened
  <1>5. /\ CallsAt("post", turn[r])
             = CallsAt(pc[r], turn[r]) + Inc("post")
        /\ BroadcastsAt("post", turn[r]) = BroadcastsAt(pc[r], turn[r])
        /\ pc[r] \notin Barriers /\ "post" \in Labels
    BY <1>1, <1>2 DEF CallsAt, BroadcastsAt, Inc, Barriers, Labels
  <1>6. Fits(config, r, "post", turn[r], warm', open', Opened', missing'[r])
    BY <1>1, <1>2, <1>4 DEF Fits, BeforeLoop, AfterSetup
  <1>7. /\ open' \subseteq Rank
        /\ \A q \in Rank \ {r} : q \in open => q \in open'
    BY <1>1, <1>3 DEF TypeOK
  <1> QED
    BY <1>1, <1>2, <1>3, <1>4, <1>5, <1>6, <1>7, MapMove
       DEF TypeOK, CreatorsWrite
(* What a rank gets from the broadcast of a turn is its turn plus one.     *)
LEMMA NextTurnCounts ==
    ASSUME IInv, NEW r \in Rank, nextTurn(r)
    PROVE  /\ turn' = [turn EXCEPT ![r] = turn[r] + 1]
           /\ turn'[r] = turn[r] + 1
           /\ \A q \in Rank \ {r} : turn'[q] = turn[q]
  <1>1. TypeOK /\ BroadcastsCounted
    BY InvariantParts
  <1>2. /\ turn[r] \in Nat /\ pc[r] = "bcast"
    BY RankFacts DEF nextTurn
  <1>3. broadcastResult(r, turn[r] + 1) = turn[r] + 1
    <2>1. CASE r = mpiRoot
      BY <2>1 DEF broadcastResult
    <2>2. CASE r # mpiRoot
      <3>1. received[r] < Len(sent)
        BY <2>2 DEF nextTurn, broadcast
      <3>2. received[r] = Preface + turn[r]
        BY <1>1, <1>2, <2>2 DEF BroadcastsCounted, BroadcastsAt
      <3>3. Preface \in Nat /\ Len(sent) \in Nat
        BY <1>1 DEF Preface, TypeOK
      <3>4. sent[received[r] + 1] = (received[r] + 1) - Preface
        BY <1>1, <1>2, <3>1, <3>2, <3>3 DEF BroadcastsCounted
      <3> QED
        BY <1>2, <2>2, <3>2, <3>3, <3>4 DEF broadcastResult
    <2> QED
      BY <2>1, <2>2
  <1> QED
    BY <1>1, <1>3 DEF nextTurn, TypeOK

(* The broadcast that starts the next turn.                                *)
LEMMA NextTurnKeeps ==
    ASSUME IInv, NEW r \in Rank, nextTurn(r)
    PROVE  IInv'
  <1>1. /\ Goto(r, "loop") /\ pc[r] = "bcast"
        /\ broadcast(r, turn[r] + 1)
        /\ config' = config /\ missing' = missing /\ creators' = creators
        /\ open' = open /\ warm' = warm /\ written' = written
    BY DEF nextTurn, mapVars
  <1>2. /\ turn' = [turn EXCEPT ![r] = turn[r] + 1]
        /\ turn'[r] = turn[r] + 1
        /\ \A q \in Rank \ {r} : turn'[q] = turn[q]
    BY NextTurnCounts
  <1>3. /\ TypeOK /\ CallsCounted /\ LeftTogether /\ BroadcastsCounted
        /\ Local /\ CreatorsWrite
    BY InvariantParts
  <1>4. /\ r \in Nat /\ turn[r] \in Nat /\ config.size \in Nat
        /\ Fits(config, r, pc[r], turn[r], warm, open, Opened, missing[r])
    BY RankFacts
  <1>5. turn[r] + 1 \in 0 .. config.size /\ "loop" \in Labels
    BY <1>1, <1>4 DEF Fits, Labels
  <1>6. /\ Rank' = Rank
        /\ pc' \in [Rank -> Labels] /\ arrived' \in [Rank -> Nat]
        /\ pc'[r] = "loop"
        /\ \A q \in Rank \ {r} : pc'[q] = pc[q]
    BY <1>1, <1>3, <1>5, GotoMoves
  <1>7. /\ sent \in Seq(0 .. config.size) /\ received \in [Rank -> Nat]
    BY <1>3 DEF TypeOK
  <1>8. sent' \in Seq(0 .. config.size) /\ received' \in [Rank -> Nat]
    <2>1. CASE r = mpiRoot
      <3>1. sent' = Append(sent, turn[r] + 1) /\ received' = received
        BY <1>1, <2>1 DEF broadcast
      <3> QED
        BY <1>5, <1>7, <3>1
    <2>2. CASE r # mpiRoot
      <3>1. sent' = sent /\ received' = [received EXCEPT ![r] = @ + 1]
        BY <1>1, <2>2 DEF broadcast
      <3>2. received[r] + 1 \in Nat
        BY <1>7
      <3> QED
        BY <1>7, <3>1, <3>2
    <2> QED
      BY <2>1, <2>2
  <1>9. turn' \in [Rank -> 0 .. config.size]
    BY <1>2, <1>3, <1>5 DEF TypeOK
  <1>10. TypeOK'
    BY <1>1, <1>3, <1>6, <1>8, <1>9 DEF TypeOK
  <1>11. CallsAt("loop", turn'[r])
           = CallsAt(pc[r], turn[r]) + Inc("loop")
    BY <1>1, <1>2, <1>4 DEF CallsAt, Inc, Barriers
  <1>12. CallsCounted'
    BY <1>1, <1>2, <1>3, <1>5, <1>11, GotoKeepsCalls
  <1>13. LeftTogether'
    BY <1>1, <1>3, <1>5, GotoKeepsLeft DEF Barriers
  <1>14. Preface \in Nat
    BY DEF Preface
  <1>15. /\ BroadcastsAt(pc[r], turn[r]) = Preface + turn[r]
         /\ BroadcastsAt("loop", turn'[r]) = Preface + turn[r] + 1
    BY <1>1, <1>2, <1>4, <1>14 DEF BroadcastsAt
  <1>16. BroadcastsCounted'
    <2>1. CASE r = mpiRoot
      <3>1. sent' = Append(sent, turn[r] + 1) /\ received' = received
        BY <1>1, <2>1 DEF broadcast
      <3>2. Len(sent) = Preface + turn[r]
        BY <1>3, <1>15, <2>1 DEF BroadcastsCounted
      <3>3. /\ Len(sent') = Len(sent) + 1
            /\ \A i \in 1 .. Len(sent) : sent'[i] = sent[i]
            /\ sent'[Len(sent) + 1] = turn[r] + 1
        BY <1>5, <1>7, <3>1
      <3>4. Len(sent') = BroadcastsAt(pc'[mpiRoot], turn'[mpiRoot])
        BY <1>6, <1>15, <2>1, <3>2, <3>3
      <3>5. \A q \in Rank \ {mpiRoot} :
                received'[q] = BroadcastsAt(pc'[q], turn'[q])
        BY <1>2, <1>3, <1>6, <2>1, <3>1 DEF BroadcastsCounted
      <3>6. ASSUME NEW i \in 1 .. Len(sent'), i > Preface
            PROVE  sent'[i] = i - Preface
        <4>1. CASE i = Len(sent) + 1
          BY <1>4, <1>14, <3>2, <3>3, <4>1
        <4>2. CASE i # Len(sent) + 1
          <5>1. i \in 1 .. Len(sent)
            BY <1>4, <1>14, <3>2, <3>3, <4>2
          <5> QED
            BY <1>3, <3>3, <3>6, <5>1 DEF BroadcastsCounted
        <4> QED
          BY <4>1, <4>2
      <3> QED
        BY <1>6, <3>4, <3>5, <3>6 DEF BroadcastsCounted, BroadcastsAt, mpiRoot, Preface
    <2>2. CASE r # mpiRoot
      <3>1. sent' = sent /\ received' = [received EXCEPT ![r] = @ + 1]
        BY <1>1, <2>2 DEF broadcast
      <3>2. mpiRoot \in Rank
        BY <1>3, TypeFacts
      <3>3. received'[r] = received[r] + 1
        BY <1>7, <3>1
      <3>4. received[r] = Preface + turn[r]
        BY <1>3, <1>15, <2>2 DEF BroadcastsCounted
      <3>5. \A q \in Rank \ {r} : received'[q] = received[q]
        BY <1>7, <3>1
      <3>6. \A q \in Rank \ {mpiRoot} :
                received'[q] = BroadcastsAt(pc'[q], turn'[q])
        BY <1>2, <1>3, <1>6, <1>15, <3>3, <3>4, <3>5 DEF BroadcastsCounted
      <3>7. Len(sent') = BroadcastsAt(pc'[mpiRoot], turn'[mpiRoot])
        BY <1>2, <1>3, <1>6, <2>2, <3>1, <3>2 DEF BroadcastsCounted
      <3> QED
        BY <1>3, <1>6, <3>1, <3>6, <3>7
           DEF BroadcastsCounted, BroadcastsAt, mpiRoot, Preface
    <2> QED
      BY <2>1, <2>2
  <1>17. Opened' = Opened
    BY <1>1 DEF Opened
  <1>18. Fits(config, r, "loop", turn'[r], warm, open, Opened, missing[r])
    <2>1. turn[r] + 1 > r => Writes(config, r) \subseteq warm
      BY <1>1, <1>4 DEF Fits
    <2> QED
      BY <1>1, <1>2, <1>4, <2>1 DEF Fits, BeforeLoop, AfterSetup
  <1>19. Local'
    BY <1>1, <1>2, <1>3, <1>5, <1>17, <1>18, MoveKeepsLocal
  <1>20. CreatorsWrite'
    BY <1>1, <1>3, <1>6 DEF CreatorsWrite
  <1> QED
    BY <1>10, <1>12, <1>13, <1>16, <1>19, <1>20, InvariantPartsNext

-----------------------------------------------------------------------------
(* The exception of a setup: the job is one in which setups throw, since a *)
(* reader that finds its maps warm has no reason to time out.              *)
LEMMA SetupThrowsKeeps ==
    ASSUME IInv, NEW r \in Rank, setupThrows(r)
    PROVE  IInv'
  <1> DEFINE l == "setupBarrier"
  <1>1. /\ Goto(r, l)
        /\ UNCHANGED <<config, turn, sent, received, mapVars>>
        /\ pc[r] \in Barriers => \A q \in Rank : arrived[q] >= arrived[r]
    BY DEF setupThrows, Barriers
  <1>2. /\ r \in Nat /\ r < config.size /\ turn[r] \in 0 .. config.size
        /\ config.size \in Nat
        /\ Fits(config, r, pc[r], turn[r], warm, open, Opened, missing[r])
    BY RankFacts
  <1>3. l \in Labels
    BY DEF Labels, Barriers
  <1>4. CallsAt(l, turn[r]) = CallsAt(pc[r], turn[r]) + Inc(l)
    BY <1>2 DEF setupThrows, CallsAt, Inc, Barriers
  <1>5. BroadcastsAt(l, turn[r]) = BroadcastsAt(pc[r], turn[r])
    BY DEF setupThrows, BroadcastsAt
  <1>6. "setup" \in config.throws
    BY ReadersFindWarm DEF setupThrows, SetupsSucceed
  <1>7. Fits(config, r, l, turn[r], warm, open, Opened, missing[r])
    BY <1>2, <1>6 DEF setupThrows, Fits, BeforeLoop, AfterSetup
  <1> HIDE DEF l
  <1> QED
    BY <1>1, <1>3, <1>4, <1>5, <1>7, PureMove

(* A job starts in the invariant.                                          *)
LEMMA InitEstablishes ==
    ASSUME Init
    PROVE  IInv
  <1>1. /\ IsConfig(config)
        /\ config \in Configs
        /\ config.size \in Nat \ {0}
        /\ Rank = 0 .. (config.size - 1) /\ mpiRoot \in Rank
    BY ConfigsAssumption DEF Init, Rank, Ranks, IsConfig, mpiRoot
  <1>2. AutoName \in BOOLEAN
    BY AutoNameAssumption
  <1>3. /\ \A r \in Rank : pc[r] = IF AutoName THEN "name" ELSE "ips"
        /\ \A r \in Rank : turn[r] = 0 /\ arrived[r] = 0 /\ received[r] = 0
        /\ \A r \in Rank : missing[r] = {}
        /\ \A m \in MapIds(config) : creators[m] = {}
    BY DEF Init
  <1>4. TypeOK
    BY <1>1 DEF Init, TypeOK, Labels
  <1>5. CallsCounted
    BY <1>3 DEF CallsCounted, CallsAt
  <1>6. LeftTogether
    BY <1>3 DEF LeftTogether, Left, Barriers
  <1>7. BroadcastsCounted
    <2>1. Len(sent) = 0
      BY DEF Init
    <2>2. \A r \in Rank : BroadcastsAt(pc[r], turn[r]) = 0
      BY <1>3 DEF BroadcastsAt, Preface
    <2> QED
      BY <1>1, <1>3, <2>1, <2>2 DEF BroadcastsCounted
  <1>8. Local
    <2> SUFFICES ASSUME NEW r \in Rank
                 PROVE  Fits(config, r, pc[r], turn[r], warm, open, Opened,
                             missing[r])
      BY DEF Local
    <2>1. r \in Nat /\ turn[r] = 0
      BY <1>1, <1>3
    <2> QED
      BY <1>2, <1>3, <2>1 DEF Fits, BeforeLoop, AfterSetup
  <1>9. CreatorsWrite
    BY <1>3 DEF CreatorsWrite
  <1> QED
    BY <1>4, <1>5, <1>6, <1>7, <1>8, <1>9, InvariantParts

(* A stuttering step.                                                      *)
LEMMA StutterKeeps ==
    ASSUME IInv, UNCHANGED vars
    PROVE  IInv'
  <1>1. /\ config' = config /\ pc' = pc /\ turn' = turn /\ arrived' = arrived
        /\ sent' = sent /\ received' = received /\ missing' = missing
        /\ creators' = creators /\ open' = open /\ warm' = warm
        /\ written' = written
    BY DEF vars, mapVars
  <1>2. /\ TypeOK /\ CallsCounted /\ LeftTogether /\ BroadcastsCounted
        /\ Local /\ CreatorsWrite
    BY InvariantParts
  <1>3. Rank' = Rank /\ Opened' = Opened
    BY <1>1 DEF Rank, Opened
  <1>4. TypeOK'
    BY <1>1, <1>2, <1>3 DEF TypeOK
  <1>5. CallsCounted' /\ LeftTogether'
    BY <1>1, <1>2, <1>3 DEF CallsCounted, LeftTogether, Left
  <1>6. BroadcastsCounted'
    BY <1>1, <1>2, <1>3 DEF BroadcastsCounted, BroadcastsAt, mpiRoot, Preface
  <1>7. Local' /\ CreatorsWrite'
    BY <1>1, <1>2, <1>3 DEF Local, CreatorsWrite
  <1> QED
    BY <1>4, <1>5, <1>6, <1>7, InvariantPartsNext

(* A step of any rank keeps the invariant.                                 *)
LEMMA StepKeeps ==
    ASSUME IInv, Next
    PROVE  IInv'
  <1>1. PICK r \in Rank : Step(r)
    BY DEF Next
  <1>2. CASE runBench(r)
    BY <1>2, GenerateAndDistributeMapBaseNameKeeps, RefuseKeeps,
       DistributeRandomIPSetKeeps, OpenAsWriterKeeps, CreateAsWriterKeeps,
       InitBarrierKeeps, OpenAsReaderKeeps, CreateAsReaderKeeps
       DEF runBench
  <1>3. CASE throttledSetup(r)
    BY <1>3, ThrottleKeeps, WriterSetupKeeps, ReaderSetupKeeps,
       SetupThrowsKeeps, TurnBarrierKeeps, NextTurnKeeps
       DEF throttledSetup
  <1>4. CASE nodeTestCycle(r)
    BY <1>3, <1>4, StartBarrierKeeps, SetupBarrierKeeps, WriterRunKeeps,
       ReaderRunKeeps, RunThrowsKeeps, RunBarrierKeeps, ShutdownKeeps,
       ShutdownThrowsKeeps, PostProcessResultsKeeps, PostBarrierKeeps
       DEF nodeTestCycle
  <1> QED
    BY <1>1, <1>2, <1>4 DEF Step

(* The inductive invariant of the test cycle holds, whatever the number of *)
(* ranks, the assignment of maps and the methods that throw.               *)
THEOREM CycleInvariant == Spec => []IInv
  <1>1. Init => IInv
    BY InitEstablishes
  <1>2. IInv /\ [Next]_vars => IInv'
    BY StepKeeps, StutterKeeps
  <1> QED
    BY <1>1, <1>2, PTL DEF Spec

-----------------------------------------------------------------------------
(* A rank that has left throttledSetup has been through every turn, in a   *)
(* job in which no setup() throws.                                         *)
LEMMA AllTurnsPassed ==
    ASSUME IInv, SetupsSucceed, NEW r \in Rank, pc[r] \in AfterSetup
    PROVE  turn[r] = config.size
BY RankFacts DEF Fits, SetupsSucceed

(* When a rank has left the barrier after setup, every rank has called it. *)
LEMMA AllAfterSetup ==
    ASSUME IInv, SetupsSucceed, NEW r \in Rank, NEW q \in Rank,
           pc[r] \in AfterSetup \ {"setupBarrier"}
    PROVE  pc[q] \in AfterSetup
  <1>1. /\ config.size \in Nat /\ turn[q] \in 0 .. config.size
        /\ arrived[r] = CallsAt(pc[r], turn[r])
        /\ arrived[q] = CallsAt(pc[q], turn[q])
        /\ Fits(config, q, pc[q], turn[q], warm, open, Opened, missing[q])
        /\ Left(r) <= arrived[q]
        /\ pc[q] \in Labels
    BY RankFacts
  <1>9. turn[r] = config.size
    BY AllTurnsPassed
  <1>2. Left(r) >= 3 + config.size
    BY <1>1, <1>9 DEF Left, CallsAt, AfterSetup, Barriers
  <1>3. Left(r) \in Int
    BY <1>1, <1>9 DEF Left, CallsAt, AfterSetup, Barriers
  <1>4. CallsAt(pc[q], turn[q]) >= 3 + config.size
    BY <1>1, <1>2, <1>3, RankFacts
  <1>5. CASE pc[q] \in BeforeLoop
    BY <1>1, <1>4, <1>5 DEF BeforeLoop, CallsAt
  <1>6. CASE pc[q] \in {"loop", "setup"}
    BY <1>1, <1>4, <1>6 DEF CallsAt
  <1>7. CASE pc[q] \in {"turnBarrier", "bcast"}
    BY <1>1, <1>4, <1>7 DEF CallsAt, Fits
  <1> QED
    BY <1>1, <1>5, <1>6, <1>7 DEF Labels, Barriers, BeforeLoop, AfterSetup

(* throttledSetup admits one rank at a time to node.setup(): the turns of  *)
(* two ranks differ by no more than the barrier between them.              *)
THEOREM OneSetupAtATime == Spec => []SetupsOneByOne
  <1>1. IInv => SetupsOneByOne
    <2> SUFFICES ASSUME IInv, NEW q \in Rank, NEW r \in Rank,
                        pc[q] = "setup", pc[r] = "setup"
                 PROVE  q = r
      BY DEF SetupsOneByOne
    <2>1. /\ q \in Nat /\ r \in Nat
          /\ turn[q] = q /\ turn[r] = r
          /\ arrived[q] = CallsAt(pc[q], turn[q])
          /\ arrived[r] = CallsAt(pc[r], turn[r])
          /\ Left(q) <= arrived[r] /\ Left(r) <= arrived[q]
      BY RankFacts DEF Fits
    <2>2. /\ arrived[q] = 2 + q /\ Left(q) = 2 + q
          /\ arrived[r] = 2 + r /\ Left(r) = 2 + r
      BY <2>1 DEF CallsAt, Left, Barriers
    <2> QED
      BY <2>1, <2>2
  <1> QED
    BY <1>1, CycleInvariant, PTL

(* Two ranks in the same barrier are at the same call of it.               *)
THEOREM NoBarrierMissed == Spec => []BarriersMatch
  <1>1. IInv => BarriersMatch
    <2> SUFFICES ASSUME IInv, SetupsSucceed, NEW q \in Rank, NEW r \in Rank,
                        pc[q] \in Barriers, pc[r] \in Barriers,
                        arrived[q] = arrived[r]
                 PROVE  pc[q] = pc[r]
      BY DEF BarriersMatch
    <2>1. /\ config.size \in Nat
          /\ turn[q] \in 0 .. config.size /\ turn[r] \in 0 .. config.size
          /\ CallsAt(pc[q], turn[q])
               = CallsAt(pc[r], turn[r])
          /\ pc[q] = "turnBarrier" => turn[q] < config.size
          /\ pc[r] = "turnBarrier" => turn[r] < config.size
      BY RankFacts DEF Fits
    <2>2. /\ pc[q] \in AfterSetup => turn[q] = config.size
          /\ pc[r] \in AfterSetup => turn[r] = config.size
      BY AllTurnsPassed
    <2> QED
      BY <2>1, <2>2 DEF CallsAt, Barriers, AfterSetup
  <1> QED
    BY <1>1, CycleInvariant, PTL

(* node.run() starts when every node has set up and every map is warm.     *)
THEOREM RunsAfterSetups == Spec => []RunAfterSetups
  <1>1. IInv => RunAfterSetups
    <2> SUFFICES ASSUME IInv, SetupsSucceed, NEW r \in Rank,
                        pc[r] \in AfterSetup \ {"setupBarrier"}
                 PROVE  /\ warm = MapIds(config)
                        /\ \A q \in Rank : pc[q] \in AfterSetup
      BY DEF RunAfterSetups
    <2>1. \A q \in Rank : pc[q] \in AfterSetup
      BY AllAfterSetup
    <2>2. ASSUME NEW q \in Rank
          PROVE  Writes(config, q) \subseteq warm
      <3>1. /\ q \in Nat /\ config.size \in Nat /\ q < config.size
            /\ Fits(config, q, pc[q], turn[q], warm, open, Opened, missing[q])
        BY RankFacts
      <3>2. turn[q] = config.size
        BY <2>1, AllTurnsPassed
      <3> QED
        BY <3>1, <3>2 DEF Fits
    <2>3. ~NotEnoughNodes(config)
      BY RankFacts DEF Fits, AfterSetup
    <2>4. /\ IsConfig(config) /\ Rank = Ranks(config)
          /\ warm \subseteq MapIds(config)
      BY InvariantParts, TypeFacts DEF Rank, TypeOK
    <2>5. MapIds(config) \subseteq warm
      BY <2>2, <2>3, <2>4, OneWriter
    <2> QED
      BY <2>1, <2>4, <2>5
  <1> QED
    BY <1>1, CycleInvariant, PTL

(* No bus is shut down while a node is in node.run().                      *)
THEOREM BusesStayOpen == Spec => []BusesOpenDuringRun
  <1>1. IInv => BusesOpenDuringRun
    <2> SUFFICES ASSUME IInv, SetupsSucceed, NEW q \in Rank, NEW r \in Rank,
                        pc[r] = "run", myMaps(config, q) # {}
                 PROVE  q \in open
      BY DEF BusesOpenDuringRun
    <2>1. pc[q] \in AfterSetup
      BY AllAfterSetup DEF AfterSetup
    <2>2. /\ config.size \in Nat
          /\ arrived[r] = CallsAt(pc[r], turn[r])
          /\ arrived[q] = CallsAt(pc[q], turn[q])
          /\ Fits(config, q, pc[q], turn[q], warm, open, Opened, missing[q])
          /\ Left(q) <= arrived[r]
      BY RankFacts
    <2>3. pc[q] \notin {"post", "postBarrier", "done"}
      <3>1. turn[q] = config.size /\ turn[r] = config.size
        BY <2>1, AllTurnsPassed DEF AfterSetup
      <3> QED
        BY <2>2, <3>1 DEF CallsAt, Left, Barriers
    <2> QED
      BY <2>1, <2>2, <2>3 DEF Fits, Reads, AfterSetup
  <1> QED
    BY <1>1, CycleInvariant, PTL

(* The topic of a map is created by the map's writer and by nobody else.   *)
THEOREM OneCreator == Spec => []CreatedByWriter
  <1>1. IInv => CreatedByWriter
    <2> SUFFICES ASSUME IInv, NEW m \in MapIds(config),
                        NEW q \in creators[m], NEW r \in creators[m]
                 PROVE  q = r /\ m \in Writes(config, r)
      BY DEF CreatedByWriter
    <2>1. TypeOK /\ CreatorsWrite
      BY InvariantParts
    <2>2. /\ m \in Writes(config, q) /\ m \in Writes(config, r)
          /\ ~NotEnoughNodes(config)
      BY <2>1 DEF CreatorsWrite
    <2>3. /\ IsConfig(config) /\ Rank = Ranks(config)
          /\ q \in Rank /\ r \in Rank
      BY <2>1, TypeFacts DEF TypeOK, Rank
    <2> QED
      BY <2>2, <2>3, OneWriter
  <1> QED
    BY <1>1, CycleInvariant, PTL

(* The test cycle keeps its state well-formed: in particular no rank's     *)
(* turn ever exceeds the number of ranks.                                  *)
THEOREM CycleTypeCorrect == Spec => []TypeOK
  <1>1. IInv => TypeOK
    BY DEF IInv
  <1> QED
    BY <1>1, CycleInvariant, PTL
=============================================================================
