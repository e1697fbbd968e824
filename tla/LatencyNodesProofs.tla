------------------------- MODULE LatencyNodesProofs -------------------------
(***************************************************************************)
(* What the readers measure, for any benchmark: of any length, on any      *)
(* number of maps, at any rate, and with any number of writes that are     *)
(* lost or doubled on their way.                                           *)
(***************************************************************************)
EXTENDS LatencyNodes, SequenceTheorems, TLAPS

WriterStates ==
    [pc: {"setup", "ready", "run", "finished"},
     written: Nat, inInterval: Nat, map: Maps]

ReaderStates ==
    [pc: {"waits", "setup", "setup_threw", "ready", "run", "finished", "threw"},
     readOffset: Nat, totalRead: Nat, exceptions: Nat]

ObserverStates == [offset: Nat, warmedUp: BOOLEAN, done: BOOLEAN, failed: BOOLEAN]

USE DEF WriterStates, ReaderStates, ObserverStates

Types ==
    /\ config \in Configs
    /\ writer \in WriterStates
    /\ sent \in [Maps -> Nat]
    /\ bus \in [Maps -> Seq(Nat)]
    /\ lost \in Nat /\ doubled \in Nat
    /\ events \in [Maps -> Seq(Nat)]
    /\ observer \in [Maps -> ObserverStates]
    /\ reader \in ReaderStates
    /\ latencies \in [Maps -> Seq(Nat)]

(* What the writer of several maps has sent follows from its place.        *)
WriterFits ==
    ~Single =>
        /\ writer.pc \in {"setup", "ready"} =>
              /\ writer.written = 0 /\ writer.inInterval = 0
              /\ \A m \in Maps : sent[m] <= totalWarmup
        /\ writer.pc = "ready" => writer.map = 1
        /\ writer.pc \in {"run", "finished"} =>
              /\ writer.inInterval <= 1
              /\ writer.inInterval = 1 => writer.map = 1
              /\ writer.written <= config.writes
              /\ (writer.inInterval = 1 \/ writer.map > 1)
                    => writer.written < config.writes
              /\ \A m \in Maps :
                    sent[m] <= totalWarmup + writer.written + writer.inInterval
                               + (IF m < writer.map THEN 1 ELSE 0)

(* The updates of a map, numbered as they come: how many the reader's      *)
(* observer has seen, how many there are with those on the bus, the oldest *)
(* one that is still there, the i-th, and how many were taken.             *)
Seen(m) == IF Single THEN Len(events[m]) ELSE observer[m].offset
Came(m) == Seen(m) + Len(bus[m])
Oldest(m) == IF Single THEN 1 ELSE observer[m].offset + 1
Update(m, i) ==
    IF Single /\ i <= Len(events[m]) THEN events[m][i] ELSE bus[m][i - Seen(m)]
Used(m) == IF Single THEN reader.readOffset ELSE observer[m].offset

(* Of two updates, the first is of an earlier write, or of the same one if *)
(* some came twice.                                                        *)
Ordered(v, w) == v <= w /\ (doubled = 0 => v < w)

(* Every update of a map was written, or came twice.                       *)
AccountsOf(m) ==
    ~observer[m].failed => Came(m) <= sent[m] + doubled /\ sent[m] <= Came(m) + lost

Accounts == \A m \in Maps : AccountsOf(m)

(* What an observer knows, and how far the array of a map is filled.       *)
ObserverFits ==
    \A m \in Maps :
        /\ Single => ~observer[m].failed
        /\ observer[m].failed => observer[m].done /\ doubled > 0
        /\ ~Single =>
              /\ observer[m].offset >= totalExpected => observer[m].done
              /\ observer[m].offset <= totalExpected
              /\ Len(latencies[m]) = IF observer[m].offset <= totalWarmup THEN 0
                                     ELSE observer[m].offset - totalWarmup

(* How far a reader of one map is.                                         *)
ReaderFits ==
    Single =>
        /\ reader.pc \in {"waits", "setup", "setup_threw"} =>
              /\ reader.totalRead = 0 /\ reader.exceptions = 0
              /\ reader.readOffset <= totalWarmup
        /\ reader.pc \in {"ready", "run", "threw", "finished"} =>
              reader.readOffset = totalWarmup + reader.totalRead + reader.exceptions
        /\ reader.totalRead <= config.writes
        /\ Len(latencies[1]) = reader.totalRead

(* The updates of a map are its writes, in order, shifted by no more than  *)
(* what was lost and doubled.                                              *)
InOrderOf(m) ==
    ~observer[m].failed =>
        \A i \in Oldest(m) .. Came(m) :
            /\ Update(m, i) <= i + lost
            /\ i <= Update(m, i) + doubled
            /\ Update(m, i) <= sent[m]
            /\ \A j \in Oldest(m) .. i - 1 : Ordered(Update(m, j), Update(m, i))

InOrder == \A m \in Maps : InOrderOf(m)

(* The latencies of a map are of writes of the run, one after the other,   *)
(* and none is of a later write than the updates still to be taken.        *)
RecordedOf(m) ==
    \A k \in 1 .. Len(latencies[m]) :
        /\ totalWarmup + k <= latencies[m][k] + doubled
        /\ latencies[m][k] <= totalWarmup + k + reader.exceptions + lost
        /\ latencies[m][k] <= sent[m]
        /\ \A j \in 1 .. k - 1 : Ordered(latencies[m][j], latencies[m][k])
        /\ ~observer[m].failed =>
              \A i \in Used(m) + 1 .. Came(m) : Ordered(latencies[m][k], Update(m, i))

Recorded == \A m \in Maps : RecordedOf(m)

IInv ==
    Types /\ WriterFits /\ Accounts /\ ObserverFits /\ ReaderFits /\ InOrder /\ Recorded

-----------------------------------------------------------------------------
(* The numbers that follow from a configuration.                           *)
LEMMA ConfigFacts ==
    ASSUME Types
    PROVE  /\ config.maps \in Nat \ {0} /\ config.table \in Nat \ {0}
           /\ config.warmup \in Nat /\ config.writes \in Nat
           /\ totalWarmup \in Nat \ {0} /\ totalExpected \in Nat \ {0}
           /\ totalExpected = totalWarmup + config.writes
           /\ writesPerInterval \in Nat
           /\ ~Single => writesPerInterval = 1
           /\ Single => config.maps = 1
           /\ 1 \in Maps /\ Maps \subseteq Nat
<1>1. /\ config \in [kind: {"single", "multi"}, maps: Nat \ {0}, table: Nat \ {0},
                     warmup: Nat, writes: Nat, rate: Nat, interval: Nat]
      /\ config.kind = "single" => config.maps = 1
    BY ConfigsAssumption DEF Types
<1>2. config.rate * config.interval \in Nat
    <2>1. \A a, b \in Nat : a * b \in Nat
        OBVIOUS
    <2> QED
        BY <1>1, <2>1
<1>3. \A p \in Nat : (p + 500000) \div 1000000 \in Nat
    OBVIOUS
<1>4. writesPerInterval \in Nat
    BY <1>2, <1>3 DEF writesPerInterval
<1>5. ~Single => writesPerInterval = 1
    BY DEF writesPerInterval
<1> QED
    BY <1>1, <1>4, <1>5 DEF Maps, Single, totalWarmup, totalExpected

(* A step that leaves the configuration alone leaves what follows from it. *)
LEMMA ConfigStays ==
    ASSUME UNCHANGED config
    PROVE  /\ Maps' = Maps /\ Single' = Single /\ totalWarmup' = totalWarmup
           /\ totalExpected' = totalExpected /\ config' = config
BY DEF Maps, Single, totalWarmup, totalExpected

(* A benchmark begins with nothing written.                                *)
LEMMA InitIInv == Init => IInv
<1> SUFFICES ASSUME Init PROVE IInv
    OBVIOUS
<1>0. config \in [kind: {"single", "multi"}, maps: Nat \ {0}, table: Nat \ {0},
                  warmup: Nat, writes: Nat, rate: Nat, interval: Nat]
    BY ConfigsAssumption DEF Init
<1>1. 1 \in Maps
    BY <1>0 DEF Maps
<1>2. observer \in [Maps -> ObserverStates]
    BY DEF Init
<1>3. Types
    BY <1>1, <1>2 DEF Init, Types
<1> USE ConfigFacts, <1>3
<1>4. WriterFits
    BY DEF Init, WriterFits
<1>5. Accounts
    BY DEF Init, Accounts, AccountsOf, Came, Seen
<1>6. ObserverFits
    BY DEF Init, ObserverFits
<1>7. ReaderFits
    BY DEF Init, ReaderFits
<1>8. InOrder
    BY DEF Init, InOrder, InOrderOf, Came, Seen, Oldest
<1>9. Recorded
    BY DEF Init, Recorded, RecordedOf
<1> QED
    BY <1>4, <1>5, <1>6, <1>7, <1>8, <1>9 DEF IInv

(* The numbers of the updates of a map, and the writes they are of.        *)
LEMMA Updates ==
    ASSUME Types, NEW m \in Maps
    PROVE  /\ Seen(m) \in Nat /\ Came(m) \in Nat /\ Used(m) \in Nat
           /\ Oldest(m) \in Nat \ {0} /\ Oldest(m) <= Used(m) + 1
           /\ Len(bus[m]) \in Nat /\ Came(m) = Seen(m) + Len(bus[m])
           /\ \A i \in Oldest(m) .. Came(m) : Update(m, i) \in Nat
<1>1. /\ events[m] \in Seq(Nat) /\ bus[m] \in Seq(Nat)
      /\ observer[m].offset \in Nat /\ reader.readOffset \in Nat
    BY DEF Types
<1>2. /\ Len(events[m]) \in Nat /\ Len(bus[m]) \in Nat
      /\ \A i \in 1 .. Len(events[m]) : events[m][i] \in Nat
      /\ \A i \in 1 .. Len(bus[m]) : bus[m][i] \in Nat
    BY <1>1
<1>3. /\ Seen(m) \in Nat /\ Came(m) \in Nat /\ Used(m) \in Nat
      /\ Oldest(m) \in Nat \ {0} /\ Oldest(m) <= Used(m) + 1
      /\ Came(m) = Seen(m) + Len(bus[m])
    BY <1>1, <1>2 DEF Seen, Came, Used, Oldest
<1>4. ASSUME NEW i \in Oldest(m) .. Came(m) PROVE Update(m, i) \in Nat
    <2>1. CASE Single /\ i <= Len(events[m])
        BY <1>2, <2>1 DEF Update, Oldest
    <2>2. CASE ~(Single /\ i <= Len(events[m]))
        <3>1. i > Seen(m)
            BY <1>1, <1>2, <1>4, <2>2 DEF Seen, Oldest
        <3>2. i - Seen(m) \in 1 .. Len(bus[m])
            BY <1>2, <1>3, <1>4, <3>1
        <3> QED
            BY <1>2, <2>2, <3>2 DEF Update
    <2> QED
        BY <2>1, <2>2
<1> QED
    BY <1>2, <1>3, <1>4

(* A step that does not touch the updates.                                 *)
LEMMA UpdatesStay ==
    ASSUME IInv, UNCHANGED <<config, sent, bus, lost, doubled, events, observer>>
    PROVE  /\ Accounts' /\ InOrder'
           /\ \A m : Came(m)' = Came(m) /\ \A i : Update(m, i)' = Update(m, i)
<1> USE DEF IInv
<1>1. Maps' = Maps /\ Single' = Single
    BY ConfigStays
<1>2. \A m : /\ Came(m)' = Came(m) /\ Oldest(m)' = Oldest(m)
             /\ \A i : Update(m, i)' = Update(m, i)
    BY <1>1 DEF Came, Oldest, Update, Seen
<1>3. Accounts'
    BY <1>1, <1>2 DEF Accounts, AccountsOf
<1>4. InOrder'
    BY <1>1, <1>2 DEF InOrder, InOrderOf, Ordered
<1> QED
    BY <1>2, <1>3, <1>4

(* A step that touches neither the updates nor what was read of them.      *)
LEMMA QuietKeeps ==
    ASSUME IInv, UNCHANGED <<config, sent, bus, lost, doubled, events, observer, latencies>>,
           reader'.readOffset = reader.readOffset, reader'.exceptions = reader.exceptions
    PROVE  Accounts' /\ ObserverFits' /\ InOrder' /\ Recorded'
<1> USE DEF IInv
<1>1. /\ Maps' = Maps /\ Single' = Single /\ totalWarmup' = totalWarmup
      /\ totalExpected' = totalExpected
    BY ConfigStays
<1>2. /\ Accounts' /\ InOrder'
      /\ \A m : Came(m)' = Came(m) /\ \A i : Update(m, i)' = Update(m, i)
    BY UpdatesStay
<1>3. \A m : Used(m)' = Used(m)
    BY <1>1 DEF Used
<1>4. ObserverFits'
    BY <1>1 DEF ObserverFits
<1>5. Recorded'
    BY <1>1, <1>2, <1>3 DEF Recorded, RecordedOf, Ordered
<1> QED
    BY <1>2, <1>4, <1>5

-----------------------------------------------------------------------------
(* A write, wherever it ends: the updates on the bus stay, and there are   *)
(* none, one or two more.                                                  *)
LEMMA PutEffect ==
    ASSUME Types, NEW p \in Maps, putOpinion(p)
    PROVE  /\ sent' \in [Maps -> Nat] /\ bus' \in [Maps -> Seq(Nat)]
           /\ lost' \in Nat /\ doubled' \in Nat
           /\ sent'[p] = sent[p] + 1
           /\ \A m \in Maps : m # p => sent'[m] = sent[m] /\ bus'[m] = bus[m]
           /\ \A i \in 1 .. Len(bus[p]) : bus'[p][i] = bus[p][i]
           /\ \A i \in Len(bus[p]) + 1 .. Len(bus'[p]) : bus'[p][i] = sent[p] + 1
           /\ \/ lost' = lost /\ doubled' = doubled /\ Len(bus'[p]) = Len(bus[p]) + 1
              \/ lost' = lost + 1 /\ doubled' = doubled /\ Len(bus'[p]) = Len(bus[p])
              \/ lost' = lost /\ doubled' = doubled + 1 /\ Len(bus'[p]) = Len(bus[p]) + 2
<1> DEFINE w == sent[p] + 1
           n == Len(bus[p])
<1>0. /\ sent \in [Maps -> Nat] /\ bus \in [Maps -> Seq(Nat)]
      /\ lost \in Nat /\ doubled \in Nat /\ w \in Nat /\ w = sent[p] + 1
      /\ bus[p] \in Seq(Nat) /\ sent' = [sent EXCEPT ![p] = w]
      /\ \/ bus' = [bus EXCEPT ![p] = Append(bus[p], w)] /\ UNCHANGED <<lost, doubled>>
         \/ lost' = lost + 1 /\ UNCHANGED <<bus, doubled>>
         \/ /\ doubled' = doubled + 1 /\ UNCHANGED lost
            /\ bus' = [bus EXCEPT ![p] = bus[p] \o <<w, w>>]
    <2>1. /\ sent \in [Maps -> Nat] /\ bus \in [Maps -> Seq(Nat)]
          /\ lost \in Nat /\ doubled \in Nat
        BY DEF Types
    <2>2. w \in Nat /\ w = sent[p] + 1 /\ bus[p] \in Seq(Nat)
        BY <2>1
    <2> QED
        BY <2>1, <2>2, Zenon DEF putOpinion
<1>n. n \in Nat
    BY <1>0
<1> HIDE DEF w
<1>1. /\ sent' \in [Maps -> Nat] /\ sent'[p] = sent[p] + 1
      /\ \A m \in Maps : m # p => sent'[m] = sent[m]
    BY <1>0
<1>2. CASE bus' = [bus EXCEPT ![p] = Append(bus[p], w)] /\ UNCHANGED <<lost, doubled>>
    <2>1. /\ Append(bus[p], w) \in Seq(Nat)
          /\ Len(Append(bus[p], w)) = n + 1
          /\ Append(bus[p], w)[n + 1] = w
          /\ \A i \in 1 .. n : Append(bus[p], w)[i] = bus[p][i]
        BY <1>0, AppendProperties
    <2>2. bus'[p] = Append(bus[p], w)
        BY <1>0, <1>2
    <2>3. /\ \A m \in Maps : m # p => bus'[m] = bus[m]
          /\ bus' \in [Maps -> Seq(Nat)]
        BY <1>0, <1>2, <2>1
    <2>4. \A i \in n + 1 .. n + 1 : bus'[p][i] = w
        BY <1>n, <2>1, <2>2
    <2> QED
        BY <1>0, <1>1, <1>2, <2>1, <2>2, <2>3, <2>4
<1>3. CASE lost' = lost + 1 /\ UNCHANGED <<bus, doubled>>
    <2>1. \A i \in n + 1 .. n : FALSE
        BY <1>n
    <2> QED
        BY <1>0, <1>1, <1>3, <2>1
<1>4. CASE /\ doubled' = doubled + 1 /\ UNCHANGED lost
           /\ bus' = [bus EXCEPT ![p] = bus[p] \o <<w, w>>]
    <2>1. /\ <<w, w>> \in Seq(Nat) /\ Len(<<w, w>>) = 2
          /\ <<w, w>>[1] = w /\ <<w, w>>[2] = w
        BY <1>0
    <2>2. /\ bus[p] \o <<w, w>> \in Seq(Nat)
          /\ Len(bus[p] \o <<w, w>>) = n + 2
          /\ \A i \in 1 .. n + 2 :
                (bus[p] \o <<w, w>>)[i] = IF i <= n THEN bus[p][i] ELSE <<w, w>>[i - n]
        BY <1>0, <2>1, ConcatProperties
    <2>3. bus'[p] = bus[p] \o <<w, w>>
        BY <1>0, <1>4
    <2>4. /\ \A m \in Maps : m # p => bus'[m] = bus[m]
          /\ bus' \in [Maps -> Seq(Nat)]
        BY <1>0, <1>4, <2>2
    <2>5. /\ \A i \in 1 .. n : bus'[p][i] = bus[p][i]
          /\ \A i \in n + 1 .. n + 2 : bus'[p][i] = w
        <3>1. ASSUME NEW i \in 1 .. n PROVE bus'[p][i] = bus[p][i]
            BY <1>n, <2>2, <2>3, <3>1
        <3>2. ASSUME NEW i \in n + 1 .. n + 2 PROVE bus'[p][i] = w
            <4>1. i - n = 1 \/ i - n = 2
                BY <1>n, <3>2
            <4>2. i \in 1 .. n + 2 /\ ~(i <= n)
                BY <1>n, <3>2
            <4>3. bus'[p][i] = <<w, w>>[i - n]
                BY <2>2, <2>3, <4>2
            <4> HIDE DEF n
            <4> QED
                BY <2>1, <4>1, <4>3
        <3> QED
            BY <3>1, <3>2
    <2> QED
        BY <1>0, <1>1, <1>4, <2>2, <2>3, <2>4, <2>5
<1> QED
    BY <1>0, <1>2, <1>3, <1>4

(* To a map, a write adds updates of a later write than all before.        *)
LEMMA PutAdds ==
    ASSUME Types, NEW p \in Maps, putOpinion(p), UNCHANGED <<config, readerVars>>,
           NEW m \in Maps
    PROVE  /\ Seen(m)' = Seen(m) /\ Oldest(m)' = Oldest(m) /\ Used(m)' = Used(m)
           /\ Came(m)' \in Nat /\ Came(m)' >= Came(m)
           /\ sent'[m] \in Nat /\ sent'[m] >= sent[m]
           /\ lost' \in Nat /\ lost' >= lost /\ doubled' \in Nat /\ doubled' >= doubled
           /\ Came(m)' - Came(m) <= (sent'[m] - sent[m]) + (doubled' - doubled)
           /\ sent'[m] - sent[m] <= (Came(m)' - Came(m)) + (lost' - lost)
           /\ Came(m)' > Came(m) => sent'[m] = sent[m] + 1
           /\ Came(m)' > Came(m) + 1 => doubled' > 0
           /\ \A i \in Oldest(m) .. Came(m) : Update(m, i)' = Update(m, i)
           /\ \A i \in Came(m) + 1 .. Came(m)' : Update(m, i)' = sent[m] + 1
<1>0. /\ UNCHANGED <<config, events, observer, reader, latencies>>
      /\ Maps' = Maps /\ Single' = Single
    BY ConfigStays DEF readerVars
<1>1. /\ Seen(m)' = Seen(m) /\ Oldest(m)' = Oldest(m) /\ Used(m)' = Used(m)
    BY <1>0 DEF Seen, Oldest, Used
<1>2. /\ Seen(m) \in Nat /\ Came(m) \in Nat /\ Oldest(m) \in Nat \ {0}
      /\ Len(bus[m]) \in Nat /\ Came(m) = Seen(m) + Len(bus[m])
      /\ Came(m)' = Seen(m) + Len(bus'[m])
    BY <1>1, Updates DEF Came
<1>t. /\ sent[m] \in Nat /\ lost \in Nat /\ doubled \in Nat
    BY DEF Types
<1>p. /\ sent' \in [Maps -> Nat] /\ lost' \in Nat /\ doubled' \in Nat
      /\ m = p => sent'[m] = sent[m] + 1
      /\ m # p => sent'[m] = sent[m] /\ bus'[m] = bus[m]
      /\ \A i \in 1 .. Len(bus[m]) : bus'[m][i] = bus[m][i]
      /\ m = p => \A i \in Len(bus[m]) + 1 .. Len(bus'[m]) : bus'[m][i] = sent[m] + 1
      /\ \/ /\ lost' = lost /\ doubled' = doubled
            /\ m = p => Len(bus'[m]) = Len(bus[m]) + 1
         \/ /\ lost' = lost + 1 /\ doubled' = doubled
            /\ m = p => Len(bus'[m]) = Len(bus[m])
         \/ /\ lost' = lost /\ doubled' = doubled + 1
            /\ m = p => Len(bus'[m]) = Len(bus[m]) + 2
    BY PutEffect
<1> DEFINE n == Len(bus[m])
           n1 == Len(bus'[m])
           s == sent[m]
           s1 == sent'[m]
           c == Came(m)
           c1 == Came(m)'
<1>3. /\ c1 \in Nat /\ c1 >= c
      /\ s1 \in Nat /\ s1 >= s
      /\ lost' >= lost /\ doubled' >= doubled
      /\ c1 - c <= (s1 - s) + (doubled' - doubled)
      /\ s1 - s <= (c1 - c) + (lost' - lost)
      /\ c1 > c => s1 = s + 1
      /\ c1 > c + 1 => doubled' > 0
    <2>1. /\ n \in Nat /\ s \in Nat /\ c = Seen(m) + n /\ c1 = Seen(m) + n1
          /\ Seen(m) \in Nat /\ lost \in Nat /\ doubled \in Nat
        BY <1>2, <1>t
    <2>2. \/ s1 = s /\ n1 = n /\ lost' = lost /\ doubled' = doubled
          \/ s1 = s /\ n1 = n /\ lost' = lost + 1 /\ doubled' = doubled
          \/ s1 = s /\ n1 = n /\ lost' = lost /\ doubled' = doubled + 1
          \/ s1 = s + 1 /\ n1 = n + 1 /\ lost' = lost /\ doubled' = doubled
          \/ s1 = s + 1 /\ n1 = n /\ lost' = lost + 1 /\ doubled' = doubled
          \/ s1 = s + 1 /\ n1 = n + 2 /\ lost' = lost /\ doubled' = doubled + 1
        BY <1>p
    <2> DEFINE k == Seen(m)
               l1 == lost'
               d1 == doubled'
    <2> HIDE DEF n, n1, s, s1, c, c1, k, l1, d1
    <2>3. /\ c1 \in Nat /\ c1 >= c
          /\ s1 \in Nat /\ s1 >= s
          /\ l1 >= lost /\ d1 >= doubled
          /\ c1 - c <= (s1 - s) + (d1 - doubled)
          /\ s1 - s <= (c1 - c) + (l1 - lost)
          /\ c1 > c => s1 = s + 1
          /\ c1 > c + 1 => d1 > 0
        <3>1. /\ n \in Nat /\ s \in Nat /\ c = k + n /\ c1 = k + n1
              /\ k \in Nat /\ lost \in Nat /\ doubled \in Nat
            BY <2>1 DEF k
        <3>2. \/ s1 = s /\ n1 = n /\ l1 = lost /\ d1 = doubled
              \/ s1 = s /\ n1 = n /\ l1 = lost + 1 /\ d1 = doubled
              \/ s1 = s /\ n1 = n /\ l1 = lost /\ d1 = doubled + 1
              \/ s1 = s + 1 /\ n1 = n + 1 /\ l1 = lost /\ d1 = doubled
              \/ s1 = s + 1 /\ n1 = n /\ l1 = lost + 1 /\ d1 = doubled
              \/ s1 = s + 1 /\ n1 = n + 2 /\ l1 = lost /\ d1 = doubled + 1
            BY <2>2 DEF l1, d1
        <3> QED
            BY <3>1, <3>2
    <2> QED
        BY <2>3 DEF l1, d1
<1>4. ASSUME NEW i \in Oldest(m) .. Came(m) PROVE Update(m, i)' = Update(m, i)
    <2>1. CASE Single /\ i <= Len(events[m])
        BY <1>0, <2>1 DEF Update
    <2>2. CASE ~(Single /\ i <= Len(events[m]))
        <3>1. Len(events[m]) \in Nat /\ observer[m].offset \in Nat
            <4>1. events[m] \in Seq(Nat) /\ observer[m] \in ObserverStates
                BY DEF Types
            <4> QED
                BY <4>1
        <3>2. i > Seen(m)
            BY <1>2, <1>4, <2>2, <3>1 DEF Seen, Oldest
        <3>3. i - Seen(m) \in 1 .. Len(bus[m])
            BY <1>2, <1>4, <3>2
        <3>4. Update(m, i)' = bus'[m][i - Seen(m)] /\ Update(m, i) = bus[m][i - Seen(m)]
            BY <1>0, <1>1, <2>2 DEF Update
        <3> QED
            BY <1>p, <3>3, <3>4
    <2> QED
        BY <2>1, <2>2
<1>5. ASSUME NEW i \in Came(m) + 1 .. Came(m)' PROVE Update(m, i)' = sent[m] + 1
    <2>1. m = p
        BY <1>2, <1>3, <1>p, <1>5
    <2>2. i > Seen(m) /\ i - Seen(m) \in Len(bus[m]) + 1 .. Len(bus'[m])
        <3> DEFINE k == Seen(m)
        <3>1. /\ k \in Nat /\ n \in Nat /\ c = k + n /\ c1 = k + n1 /\ c1 \in Nat
              /\ n1 \in Nat /\ i \in c + 1 .. c1
            BY <1>2, <1>3, <1>5, PutEffect
        <3> HIDE DEF k, n, n1, c, c1
        <3>2. i > k /\ i - k \in n + 1 .. n1
            BY <3>1
        <3> QED
            BY <3>2 DEF k, n, n1
    <2>3. ~(Single /\ i <= Len(events[m]))
        BY <1>2, <2>2 DEF Seen
    <2>4. Update(m, i)' = bus'[m][i - Seen(m)]
        BY <1>0, <1>1, <2>3 DEF Update
    <2> QED
        BY <1>p, <2>1, <2>2, <2>4
<1> QED
    BY <1>1, <1>3, <1>4, <1>5, <1>p

(* A write leaves what the reader knows in order.                          *)
LEMMA PutKeeps ==
    ASSUME IInv, NEW p \in Maps, putOpinion(p), UNCHANGED <<config, readerVars>>
    PROVE  Accounts' /\ ObserverFits' /\ ReaderFits' /\ InOrder' /\ Recorded'
<1> USE DEF IInv
<1>0. /\ UNCHANGED <<config, events, observer, reader, latencies>>
      /\ Maps' = Maps /\ Single' = Single /\ totalWarmup' = totalWarmup
      /\ totalExpected' = totalExpected
    BY ConfigStays DEF readerVars
<1>t. /\ lost \in Nat /\ doubled \in Nat /\ sent \in [Maps -> Nat]
      /\ latencies \in [Maps -> Seq(Nat)] /\ reader.exceptions \in Nat
      /\ totalWarmup \in Nat
    BY ConfigFacts DEF Types
<1>2. /\ lost' \in Nat /\ lost' >= lost /\ doubled' \in Nat /\ doubled' >= doubled
    BY PutAdds
<1>3. ObserverFits' /\ ReaderFits'
    BY <1>0, <1>t, <1>2 DEF ObserverFits, ReaderFits
<1>a. ASSUME NEW m \in Maps, ~observer[m].failed
      PROVE  /\ Came(m) \in Nat /\ sent[m] \in Nat
             /\ Came(m) <= sent[m] + doubled /\ sent[m] <= Came(m) + lost
    BY <1>a, <1>t, Updates DEF Accounts, AccountsOf
<1>4. Accounts'
    <2> SUFFICES ASSUME NEW m \in Maps, ~observer[m].failed
                 PROVE  Came(m)' <= sent'[m] + doubled' /\ sent'[m] <= Came(m)' + lost'
        BY <1>0 DEF Accounts, AccountsOf
    <2> DEFINE c == Came(m)
               c1 == Came(m)'
               s == sent[m]
               s1 == sent'[m]
               l1 == lost'
               d1 == doubled'
    <2>1. /\ c1 \in Nat /\ s1 \in Nat /\ l1 \in Nat /\ d1 \in Nat
          /\ c1 - c <= (s1 - s) + (d1 - doubled)
          /\ s1 - s <= (c1 - c) + (l1 - lost)
        BY PutAdds
    <2>2. c \in Nat /\ s \in Nat /\ c <= s + doubled /\ s <= c + lost
        BY <1>a
    <2> HIDE DEF c, c1, s, s1, l1, d1
    <2>3. c1 <= s1 + d1 /\ s1 <= c1 + l1
        BY <1>t, <2>1, <2>2
    <2> QED
        BY <2>3 DEF c1, s1, l1, d1
<1>5. InOrder'
    <2> SUFFICES ASSUME NEW m \in Maps, ~observer[m].failed,
                        NEW i \in Oldest(m) .. Came(m)'
                 PROVE  /\ Update(m, i)' <= i + lost'
                        /\ i <= Update(m, i)' + doubled'
                        /\ Update(m, i)' <= sent'[m]
                        /\ \A j \in Oldest(m) .. i - 1 :
                              Ordered(Update(m, j), Update(m, i))'
        <3>1. \A m \in Maps : Oldest(m)' = Oldest(m)
            BY PutAdds
        <3> QED
            BY <1>0, <3>1 DEF InOrder, InOrderOf
    <2>p. /\ Came(m)' \in Nat /\ Came(m)' >= Came(m)
          /\ sent'[m] \in Nat /\ sent'[m] >= sent[m]
          /\ Came(m)' - Came(m) <= (sent'[m] - sent[m]) + (doubled' - doubled)
          /\ Came(m)' > Came(m) => sent'[m] = sent[m] + 1
          /\ Came(m)' > Came(m) + 1 => doubled' > 0
          /\ \A q \in Oldest(m) .. Came(m) : Update(m, q)' = Update(m, q)
          /\ \A q \in Came(m) + 1 .. Came(m)' : Update(m, q)' = sent[m] + 1
        BY PutAdds
    <2>u. /\ Came(m) \in Nat /\ Oldest(m) \in Nat /\ sent[m] \in Nat
          /\ Came(m) <= sent[m] + doubled /\ sent[m] <= Came(m) + lost
          /\ \A q \in Oldest(m) .. Came(m) : Update(m, q) \in Nat
        BY <1>a, Updates
    <2>i. \A q \in Oldest(m) .. Came(m) :
             /\ Update(m, q) <= q + lost /\ q <= Update(m, q) + doubled
             /\ Update(m, q) <= sent[m]
             /\ \A j \in Oldest(m) .. q - 1 : Ordered(Update(m, j), Update(m, q))
        BY DEF InOrder, InOrderOf
    <2>1. CASE i <= Came(m)
        <3>1. i \in Oldest(m) .. Came(m)
            BY <2>p, <2>u, <2>1
        <3>2. /\ Update(m, i) <= i + lost' /\ i <= Update(m, i) + doubled'
              /\ Update(m, i) <= sent'[m]
            <4> DEFINE v == Update(m, i)
                       s1 == sent'[m]
                       l1 == lost'
                       d1 == doubled'
            <4>1. /\ v \in Nat /\ i \in Int /\ v <= i + lost /\ i <= v + doubled
                  /\ v <= sent[m] /\ s1 \in Nat /\ s1 >= sent[m] /\ sent[m] \in Nat
                  /\ l1 \in Nat /\ l1 >= lost /\ d1 \in Nat /\ d1 >= doubled
                BY <1>2, <2>p, <2>u, <2>i, <3>1
            <4> HIDE DEF v, s1, l1, d1
            <4>2. v <= i + l1 /\ i <= v + d1 /\ v <= s1
                BY <1>t, <4>1
            <4> QED
                BY <4>2 DEF v, s1, l1, d1
        <3>3. ASSUME NEW j \in Oldest(m) .. i - 1
              PROVE  Ordered(Update(m, j), Update(m, i))'
            <4>1. j \in Oldest(m) .. Came(m)
                BY <2>u, <3>1, <3>3
            <4>2. Ordered(Update(m, j), Update(m, i))
                BY <2>i, <3>1, <3>3
            <4>3. Update(m, j) \in Nat /\ Update(m, i) \in Nat
                BY <2>u, <3>1, <4>1
            <4>4. Update(m, j)' = Update(m, j) /\ Update(m, i)' = Update(m, i)
                BY <2>p, <3>1, <4>1
            <4> QED
                BY <1>t, <1>2, <4>2, <4>3, <4>4 DEF Ordered
        <3>4. Update(m, i)' = Update(m, i)
            BY <2>p, <3>1
        <3> QED
            BY <3>2, <3>3, <3>4
    <2>2. CASE ~(i <= Came(m))
        <3>1. /\ i \in Came(m) + 1 .. Came(m)' /\ Came(m)' > Came(m)
              /\ i \in Nat
            BY <2>p, <2>u, <2>2
        <3>2. Update(m, i)' = sent[m] + 1 /\ sent'[m] = sent[m] + 1
            BY <2>p, <3>1
        <3>3. sent[m] + 1 <= i + lost' /\ i <= sent[m] + 1 + doubled'
            <4> DEFINE c == Came(m)
                       c1 == Came(m)'
                       s == sent[m]
                       s1 == sent'[m]
                       l1 == lost'
                       d1 == doubled'
            <4>1. /\ c \in Nat /\ c1 \in Nat /\ s \in Nat /\ s1 = s + 1
                  /\ c <= s + doubled /\ s <= c + lost
                  /\ c1 - c <= (s1 - s) + (d1 - doubled)
                  /\ l1 \in Nat /\ l1 >= lost /\ d1 \in Nat /\ d1 >= doubled
                  /\ i \in c + 1 .. c1 /\ i \in Nat
                BY <1>2, <2>p, <2>u, <3>1, <3>2
            <4> HIDE DEF c, c1, s, s1, l1, d1
            <4>2. s + 1 <= i + l1 /\ i <= s + 1 + d1
                BY <1>t, <4>1
            <4> QED
                BY <4>2 DEF s, l1, d1
        <3>4. ASSUME NEW j \in Oldest(m) .. i - 1
              PROVE  Ordered(Update(m, j), Update(m, i))'
            <4>1. CASE j <= Came(m)
                <5>1. j \in Oldest(m) .. Came(m)
                    BY <2>u, <3>4, <4>1
                <5>2. Update(m, j)' \in Nat /\ Update(m, j)' <= sent[m]
                    BY <2>p, <2>u, <2>i, <5>1
                <5>3. Update(m, j)' < Update(m, i)'
                    BY <2>u, <3>2, <5>2
                <5> QED
                    BY <2>u, <3>2, <5>2, <5>3 DEF Ordered
            <4>2. CASE ~(j <= Came(m))
                <5>1. j \in Came(m) + 1 .. Came(m)' /\ Came(m)' > Came(m) + 1
                    BY <2>p, <2>u, <3>1, <3>4, <4>2
                <5>2. Update(m, j)' = sent[m] + 1 /\ doubled' > 0
                    BY <2>p, <5>1
                <5> QED
                    BY <1>2, <2>u, <3>2, <5>2 DEF Ordered
            <4> QED
                BY <4>1, <4>2
        <3> QED
            BY <2>u, <3>2, <3>3, <3>4
    <2> QED
        BY <2>1, <2>2
<1>6. Recorded'
    <2> SUFFICES ASSUME NEW m \in Maps, NEW k \in 1 .. Len(latencies[m])
                 PROVE  /\ totalWarmup + k <= latencies[m][k] + doubled'
                        /\ latencies[m][k] <= totalWarmup + k + reader.exceptions + lost'
                        /\ latencies[m][k] <= sent'[m]
                        /\ \A j \in 1 .. k - 1 :
                              Ordered(latencies[m][j], latencies[m][k])'
                        /\ ~observer[m].failed =>
                              \A i \in Used(m) + 1 .. Came(m)' :
                                 Ordered(latencies[m][k], Update(m, i))'
        <3>1. \A m \in Maps : Used(m)' = Used(m)
            BY PutAdds
        <3> QED
            BY <1>0, <3>1 DEF Recorded, RecordedOf
    <2>p. /\ Came(m)' \in Nat /\ Came(m)' >= Came(m)
          /\ sent'[m] \in Nat /\ sent'[m] >= sent[m]
          /\ \A q \in Oldest(m) .. Came(m) : Update(m, q)' = Update(m, q)
          /\ \A q \in Came(m) + 1 .. Came(m)' : Update(m, q)' = sent[m] + 1
        BY PutAdds
    <2>u. /\ Came(m) \in Nat /\ Oldest(m) \in Nat /\ Used(m) \in Nat
          /\ Oldest(m) <= Used(m) + 1 /\ sent[m] \in Nat
          /\ \A q \in Oldest(m) .. Came(m) : Update(m, q) \in Nat
          /\ \A q \in 1 .. Len(latencies[m]) : latencies[m][q] \in Nat
          /\ Len(latencies[m]) \in Nat
        <3>1. latencies[m] \in Seq(Nat)
            BY <1>t
        <3>2. /\ Len(latencies[m]) \in Nat
              /\ \A q \in 1 .. Len(latencies[m]) : latencies[m][q] \in Nat
            BY <3>1
        <3> QED
            BY <1>t, <3>2, Updates
    <2>r. /\ totalWarmup + k <= latencies[m][k] + doubled
          /\ latencies[m][k] <= totalWarmup + k + reader.exceptions + lost
          /\ latencies[m][k] <= sent[m]
          /\ \A j \in 1 .. k - 1 : Ordered(latencies[m][j], latencies[m][k])
          /\ ~observer[m].failed =>
                \A i \in Used(m) + 1 .. Came(m) : Ordered(latencies[m][k], Update(m, i))
        BY DEF Recorded, RecordedOf
    <2>1. /\ totalWarmup + k <= latencies[m][k] + doubled'
          /\ latencies[m][k] <= totalWarmup + k + reader.exceptions + lost'
          /\ latencies[m][k] <= sent'[m]
        <3> DEFINE v == latencies[m][k]
                   s1 == sent'[m]
                   l1 == lost'
                   d1 == doubled'
                   ex == reader.exceptions
        <3>1. /\ v \in Nat /\ k \in Nat /\ ex \in Nat
              /\ totalWarmup + k <= v + doubled /\ v <= totalWarmup + k + ex + lost
              /\ v <= sent[m] /\ s1 \in Nat /\ s1 >= sent[m] /\ sent[m] \in Nat
              /\ l1 \in Nat /\ l1 >= lost /\ d1 \in Nat /\ d1 >= doubled
            BY <1>t, <1>2, <2>p, <2>u, <2>r
        <3> HIDE DEF v, s1, l1, d1, ex
        <3>2. totalWarmup + k <= v + d1 /\ v <= totalWarmup + k + ex + l1 /\ v <= s1
            BY <1>t, <3>1
        <3> QED
            BY <3>2 DEF v, s1, l1, d1, ex
    <2>2. ASSUME NEW j \in 1 .. k - 1 PROVE Ordered(latencies[m][j], latencies[m][k])'
        <3>1. latencies[m][j] \in Nat /\ latencies[m][k] \in Nat
            BY <2>u, <2>2
        <3>2. Ordered(latencies[m][j], latencies[m][k])
            BY <2>r, <2>2
        <3> QED
            BY <1>0, <1>t, <1>2, <3>1, <3>2 DEF Ordered
    <2>3. ASSUME ~observer[m].failed, NEW i \in Used(m) + 1 .. Came(m)'
          PROVE  Ordered(latencies[m][k], Update(m, i))'
        <3>1. CASE i <= Came(m)
            <4>1. i \in Used(m) + 1 .. Came(m) /\ i \in Oldest(m) .. Came(m)
                BY <2>p, <2>u, <2>3, <3>1
            <4>2. Ordered(latencies[m][k], Update(m, i))
                BY <2>r, <2>3, <4>1
            <4>3. /\ Update(m, i)' = Update(m, i) /\ Update(m, i) \in Nat
                  /\ latencies[m][k] \in Nat
                BY <2>p, <2>u, <4>1
            <4> QED
                BY <1>0, <1>t, <1>2, <4>2, <4>3 DEF Ordered
        <3>2. CASE ~(i <= Came(m))
            <4>1. i \in Came(m) + 1 .. Came(m)'
                BY <2>p, <2>u, <2>3, <3>2
            <4>2. Update(m, i)' = sent[m] + 1
                BY <2>p, <4>1
            <4>3. latencies[m][k] \in Nat /\ latencies[m][k] <= sent[m]
                BY <2>u, <2>r
            <4> QED
                BY <1>0, <2>u, <4>2, <4>3 DEF Ordered
        <3> QED
            BY <3>1, <3>2
    <2> QED
        BY <2>1, <2>2, <2>3
<1> QED
    BY <1>3, <1>4, <1>5, <1>6

(* The writer's setup.                                                     *)
LEMMA WriterSetupKeeps == ASSUME IInv, WriterSetup PROVE IInv'
<1> USE DEF IInv
<1>0. /\ UNCHANGED <<config, events, observer, reader, latencies>>
      /\ Maps' = Maps /\ Single' = Single /\ totalWarmup' = totalWarmup
      /\ totalExpected' = totalExpected
    BY ConfigStays DEF WriterSetup, readerVars
<1>t. /\ writer \in WriterStates
      /\ sent \in [Maps -> Nat]
    BY DEF Types
<1>1. CASE sent[writer.map] < totalWarmup /\ putOpinion(writer.map) /\ UNCHANGED writer
    <2> DEFINE p == writer.map
    <2>1. p \in Maps /\ putOpinion(p) /\ UNCHANGED <<config, readerVars>>
        BY <1>1, <1>t, <1>0 DEF readerVars
    <2>2. /\ sent' \in [Maps -> Nat] /\ bus' \in [Maps -> Seq(Nat)]
          /\ lost' \in Nat /\ doubled' \in Nat /\ sent'[p] = sent[p] + 1
          /\ \A m \in Maps : m # p => sent'[m] = sent[m]
        BY <2>1, PutEffect
    <2>3. Types'
        BY <1>0, <1>1, <2>2 DEF Types
    <2>4. WriterFits'
        <3>1. writer' = writer /\ writer.pc = "setup"
            BY <1>1 DEF WriterSetup
        <3>2. ~Single => \A m \in Maps : sent'[m] <= totalWarmup
            <4> SUFFICES ASSUME ~Single, NEW m \in Maps PROVE sent'[m] <= totalWarmup
                OBVIOUS
            <4>1. sent[m] <= totalWarmup /\ sent[m] \in Nat /\ totalWarmup \in Nat
                BY <1>t, <3>1, ConfigFacts DEF WriterFits
            <4>2. m = p => sent'[m] = sent[m] + 1 /\ sent[m] < totalWarmup
                BY <1>1, <2>2
            <4>3. m # p => sent'[m] = sent[m]
                BY <2>2
            <4> QED
                BY <4>1, <4>2, <4>3
        <3> QED
            BY <1>0, <3>1, <3>2 DEF WriterFits
    <2>5. Accounts' /\ ObserverFits' /\ ReaderFits' /\ InOrder' /\ Recorded'
        BY <2>1, PutKeeps
    <2> QED
        BY <2>3, <2>4, <2>5
<1>2. CASE /\ writer' = IF writer.map < config.maps
                        THEN [writer EXCEPT !.map = @ + 1]
                        ELSE [writer EXCEPT !.map = 1, !.pc = "ready"]
           /\ UNCHANGED <<sent, bus, lost, doubled>>
    <2>1. writer' \in WriterStates
        <3>1. 1 \in Maps /\ (writer.map < config.maps => writer.map + 1 \in Maps)
            BY <1>t, ConfigFacts DEF Maps
        <3>2. CASE writer.map < config.maps
            <4>1. writer' = [writer EXCEPT !.map = writer.map + 1]
                BY <1>2, <3>2
            <4> QED
                BY <1>t, <3>1, <3>2, <4>1
        <3>3. CASE ~(writer.map < config.maps)
            <4>1. writer' = [writer EXCEPT !.map = 1, !.pc = "ready"]
                BY <1>2, <3>3
            <4> QED
                BY <1>t, <3>1, <4>1
        <3> QED
            BY <3>2, <3>3
    <2>2. Types'
        BY <1>0, <1>2, <2>1 DEF Types
    <2>3. WriterFits'
        BY <1>0, <1>2, <1>t DEF WriterFits, WriterSetup
    <2>4. Accounts' /\ ObserverFits' /\ ReaderFits' /\ InOrder' /\ Recorded'
        BY <1>0, <1>2, QuietKeeps DEF ReaderFits
    <2> QED
        BY <2>2, <2>3, <2>4
<1> QED
    BY <1>1, <1>2 DEF WriterSetup

(* A write of the run.                                                     *)
LEMMA WriteEntryKeeps == ASSUME IInv, WriteEntry PROVE IInv'
<1> USE DEF IInv
<1> DEFINE p == writer.map
<1>0. /\ UNCHANGED <<config, events, observer, reader, latencies>>
      /\ Maps' = Maps /\ Single' = Single /\ totalWarmup' = totalWarmup
      /\ totalExpected' = totalExpected
    BY ConfigStays DEF WriteEntry, readerVars
<1>t. /\ writer \in WriterStates
      /\ sent \in [Maps -> Nat]
    BY DEF Types
<1>1. p \in Maps /\ putOpinion(p) /\ UNCHANGED <<config, readerVars>>
    BY <1>0, <1>t DEF WriteEntry, readerVars
<1>2. /\ sent' \in [Maps -> Nat] /\ bus' \in [Maps -> Seq(Nat)]
      /\ lost' \in Nat /\ doubled' \in Nat /\ sent'[p] = sent[p] + 1
      /\ \A m \in Maps : m # p => sent'[m] = sent[m]
    BY <1>1, PutEffect
<1>3. writer' = IF writer.map < config.maps
                THEN [writer EXCEPT !.map = @ + 1]
                ELSE [writer EXCEPT !.map = 1, !.inInterval = @ + 1]
    BY DEF WriteEntry
<1>4. writer' \in WriterStates
    <2>1. 1 \in Maps /\ (writer.map < config.maps => writer.map + 1 \in Maps)
        BY <1>t, ConfigFacts DEF Maps
    <2>2. CASE writer.map < config.maps
        <3>1. writer' = [writer EXCEPT !.map = writer.map + 1]
            BY <1>3, <2>2
        <3> QED
            BY <1>t, <2>1, <2>2, <3>1
    <2>3. CASE ~(writer.map < config.maps)
        <3>1. /\ writer' = [writer EXCEPT !.map = 1, !.inInterval = writer.inInterval + 1]
              /\ writer.inInterval + 1 \in Nat
            BY <1>3, <1>t, <2>3
        <3> QED
            BY <1>t, <2>1, <3>1
    <2> QED
        BY <2>2, <2>3
<1>5. Types'
    BY <1>0, <1>2, <1>4 DEF Types
<1>6. WriterFits'
    <2> SUFFICES ASSUME ~Single PROVE WriterFits'
        BY <1>0 DEF WriterFits
    <2>1. /\ writer.pc = "run" /\ writer.inInterval = 0 /\ writer.written < config.writes
          /\ writer.written \in Nat /\ config.writes \in Nat /\ totalWarmup \in Nat
          /\ writer.map \in Nat /\ config.maps \in Nat
        BY <1>t, ConfigFacts DEF WriteEntry, WriterFits
    <2>2. \A m \in Maps : /\ m \in Nat /\ sent[m] \in Nat /\ m <= config.maps
                          /\ sent[m] <= totalWarmup + writer.written
                                        + (IF m < writer.map THEN 1 ELSE 0)
        <3> SUFFICES ASSUME NEW m \in Maps
                     PROVE  /\ m \in Nat /\ sent[m] \in Nat /\ m <= config.maps
                            /\ sent[m] <= totalWarmup + writer.written
                                          + (IF m < writer.map THEN 1 ELSE 0)
            OBVIOUS
        <3>1. m \in Nat /\ m <= config.maps
            BY <2>1 DEF Maps
        <3>2. sent[m] \in Nat
            BY <1>t
        <3>3. sent[m] <= totalWarmup + writer.written
                         + (IF m < writer.map THEN 1 ELSE 0)
            BY <2>1 DEF WriterFits
        <3> QED
            BY <3>1, <3>2, <3>3
    <2>3. CASE writer.map < config.maps
        <3>1. writer' = [writer EXCEPT !.map = writer.map + 1]
            BY <1>3, <2>3
        <3>2. /\ writer'.pc = "run" /\ writer'.inInterval = 0
              /\ writer'.written = writer.written /\ writer'.map = writer.map + 1
            BY <1>t, <2>1, <3>1
        <3>3. \A m \in Maps : sent'[m] <= totalWarmup + writer.written + 0
                                          + (IF m < writer.map + 1 THEN 1 ELSE 0)
            <4> SUFFICES ASSUME NEW m \in Maps
                         PROVE  sent'[m] <= totalWarmup + writer.written + 0
                                            + (IF m < writer.map + 1 THEN 1 ELSE 0)
                OBVIOUS
            <4>1. /\ m \in Nat /\ sent[m] \in Nat /\ m <= config.maps
                  /\ sent[m] <= totalWarmup + writer.written
                                + (IF m < writer.map THEN 1 ELSE 0)
                BY <2>2
            <4>2. m = writer.map => sent'[m] = sent[m] + 1
                BY <1>2
            <4>3. m # writer.map => sent'[m] = sent[m]
                BY <1>2
            <4> QED
                BY <2>1, <4>1, <4>2, <4>3
        <3> QED
            BY <1>0, <2>1, <3>2, <3>3 DEF WriterFits
    <2>4. CASE ~(writer.map < config.maps)
        <3>1. writer' = [writer EXCEPT !.map = 1, !.inInterval = writer.inInterval + 1]
            BY <1>3, <2>4
        <3>2. /\ writer'.pc = "run" /\ writer'.inInterval = 1
              /\ writer'.written = writer.written /\ writer'.map = 1
            BY <1>t, <2>1, <3>1
        <3>3. \A m \in Maps : sent'[m] <= totalWarmup + writer.written + 1
                                          + (IF m < 1 THEN 1 ELSE 0)
            <4> SUFFICES ASSUME NEW m \in Maps
                         PROVE  sent'[m] <= totalWarmup + writer.written + 1
                                            + (IF m < 1 THEN 1 ELSE 0)
                OBVIOUS
            <4>1. /\ m \in Nat /\ sent[m] \in Nat /\ m <= config.maps
                  /\ sent[m] <= totalWarmup + writer.written
                                + (IF m < writer.map THEN 1 ELSE 0)
                BY <2>2
            <4>2. m = writer.map => sent'[m] = sent[m] + 1
                BY <1>2
            <4>3. m # writer.map => sent'[m] = sent[m]
                BY <1>2
            <4> QED
                BY <2>1, <2>4, <4>1, <4>2, <4>3
        <3> QED
            BY <1>0, <2>1, <3>2, <3>3 DEF WriterFits
    <2> QED
        BY <2>3, <2>4
<1>7. Accounts' /\ ObserverFits' /\ ReaderFits' /\ InOrder' /\ Recorded'
    BY <1>1, PutKeeps
<1> QED
    BY <1>5, <1>6, <1>7

(* The end of an interval and of the run.                                  *)
LEMMA EndIntervalKeeps == ASSUME IInv, EndInterval \/ WriterEnd PROVE IInv'
<1> USE DEF IInv
<1>0. /\ UNCHANGED <<config, sent, bus, lost, doubled, events, observer, reader,
                     latencies>>
      /\ Maps' = Maps /\ Single' = Single /\ totalWarmup' = totalWarmup
      /\ totalExpected' = totalExpected
    BY ConfigStays DEF EndInterval, WriterEnd, readerVars
<1>t. /\ writer \in WriterStates
      /\ sent \in [Maps -> Nat]
    BY DEF Types
<1>1. writer' \in WriterStates
    <2>1. writer.written + writesPerInterval \in Nat
        BY <1>t, ConfigFacts
    <2>2. \/ writer' = [writer EXCEPT !.inInterval = 0,
                                     !.written = writer.written + writesPerInterval]
          \/ writer' = [writer EXCEPT !.pc = "finished"]
        BY DEF EndInterval, WriterEnd
    <2>3. CASE writer' = [writer EXCEPT !.inInterval = 0,
                                        !.written = writer.written + writesPerInterval]
        BY <1>t, <2>1, <2>3
    <2>4. CASE writer' = [writer EXCEPT !.pc = "finished"]
        BY <1>t, <2>4
    <2> QED
        BY <2>2, <2>3, <2>4
<1>2. Types'
    BY <1>0, <1>1 DEF Types
<1>3. WriterFits'
    <2>1. CASE EndInterval
        BY <1>0, <1>t, <2>1, ConfigFacts DEF EndInterval, WriterFits, Maps
    <2>2. CASE WriterEnd
        BY <1>0, <1>t, <2>2, ConfigFacts DEF WriterEnd, WriterFits
    <2> QED
        BY <2>1, <2>2
<1>4. Accounts' /\ ObserverFits' /\ ReaderFits' /\ InOrder' /\ Recorded'
    BY <1>0, QuietKeeps DEF ReaderFits
<1> QED
    BY <1>2, <1>3, <1>4

-----------------------------------------------------------------------------
(* An update leaves the bus, first in, first out.                          *)
LEMMA Taken ==
    ASSUME Types, NEW d \in Maps, Deliver(d)
    PROVE  /\ bus' \in [Maps -> Seq(Nat)] /\ bus[d] \in Seq(Nat) /\ bus[d] # <<>>
           /\ Len(bus[d]) \in Nat \ {0}
           /\ \A m \in Maps : m # d => bus'[m] = bus[m]
           /\ Len(bus'[d]) = Len(bus[d]) - 1
           /\ Head(bus[d]) \in Nat /\ Head(bus[d]) = bus[d][1]
           /\ \A i \in 1 .. Len(bus'[d]) : bus'[d][i] = bus[d][i + 1]
<1>1. /\ bus \in [Maps -> Seq(Nat)] /\ bus[d] \in Seq(Nat) /\ bus[d] # <<>>
      /\ bus' = [bus EXCEPT ![d] = Tail(bus[d])]
    BY DEF Types, Deliver
<1>2. /\ Tail(bus[d]) \in Seq(Nat) /\ Len(Tail(bus[d])) = Len(bus[d]) - 1
      /\ \A i \in 1 .. Len(Tail(bus[d])) : Tail(bus[d])[i] = bus[d][i + 1]
      /\ Head(bus[d]) \in Nat /\ Head(bus[d]) = bus[d][1]
      /\ Len(bus[d]) \in Nat \ {0}
    BY <1>1, HeadTailProperties, EmptySeq
<1>3. bus'[d] = Tail(bus[d]) /\ bus' \in [Maps -> Seq(Nat)]
    BY <1>1, <1>2
<1> QED
    BY <1>1, <1>2, <1>3

(* What one more element does to a sequence of writes.                     *)
LEMMA OneMore ==
    ASSUME NEW f \in [Maps -> Seq(Nat)], NEW d \in Maps, NEW v \in Nat,
           NEW g, g = [f EXCEPT ![d] = Append(f[d], v)]
    PROVE  /\ g \in [Maps -> Seq(Nat)]
           /\ \A m \in Maps : m # d => g[m] = f[m]
           /\ Len(f[d]) \in Nat /\ Len(g[d]) = Len(f[d]) + 1
           /\ g[d][Len(f[d]) + 1] = v
           /\ \A i \in 1 .. Len(f[d]) : g[d][i] = f[d][i]
<1>1. /\ Append(f[d], v) \in Seq(Nat) /\ Len(f[d]) \in Nat
      /\ Len(Append(f[d], v)) = Len(f[d]) + 1
      /\ Append(f[d], v)[Len(f[d]) + 1] = v
      /\ \A i \in 1 .. Len(f[d]) : Append(f[d], v)[i] = f[d][i]
    BY AppendProperties
<1>2. g \in [Maps -> Seq(Nat)] /\ g[d] = Append(f[d], v)
    BY <1>1
<1> QED
    BY <1>1, <1>2

(* The observer of a reader of one map keeps the update.                   *)
LEMMA KeptKeeps == ASSUME IInv, NEW d \in Maps, Deliver(d), Single PROVE IInv'
<1> USE DEF IInv
<1>0. /\ UNCHANGED <<config, writer, sent, lost, doubled, reader, observer, latencies>>
      /\ Maps' = Maps /\ Single' = Single /\ totalWarmup' = totalWarmup
      /\ totalExpected' = totalExpected
    BY ConfigStays DEF Deliver
<1>t. /\ bus \in [Maps -> Seq(Nat)] /\ events \in [Maps -> Seq(Nat)]
      /\ reader.readOffset \in Nat
    BY DEF Types
<1>1. d = 1 /\ \A m \in Maps : m = d
    BY ConfigFacts DEF Maps
<1>b. /\ bus' \in [Maps -> Seq(Nat)] /\ bus[d] \in Seq(Nat)
      /\ Len(bus[d]) \in Nat \ {0}
      /\ Len(bus'[d]) = Len(bus[d]) - 1
      /\ Head(bus[d]) \in Nat /\ Head(bus[d]) = bus[d][1]
      /\ \A i \in 1 .. Len(bus'[d]) : bus'[d][i] = bus[d][i + 1]
    BY Taken
<1>e. /\ events' \in [Maps -> Seq(Nat)]
      /\ Len(events[d]) \in Nat /\ Len(events'[d]) = Len(events[d]) + 1
      /\ events'[d][Len(events[d]) + 1] = Head(bus[d])
      /\ \A i \in 1 .. Len(events[d]) : events'[d][i] = events[d][i]
    <2>1. events' = [events EXCEPT ![d] = Append(events[d], Head(bus[d]))]
        BY DEF Deliver
    <2> QED
        BY <1>t, <1>b, <2>1, OneMore
<1> DEFINE n == Len(bus[d])
           n1 == Len(bus'[d])
           e == Len(events[d])
           e1 == Len(events'[d])
<1>n. n \in Nat \ {0} /\ e \in Nat /\ n1 = n - 1 /\ e1 = e + 1
    BY <1>b, <1>e
<1>2. Types'
    BY <1>0, <1>b, <1>e DEF Types
<1>3. WriterFits'
    BY <1>0 DEF WriterFits
<1>u. /\ Came(d)' = Came(d) /\ Oldest(d)' = Oldest(d) /\ Used(d)' = Used(d)
      /\ \A i \in Oldest(d) .. Came(d) : Update(d, i)' = Update(d, i)
    <2>1. /\ Seen(d) = e /\ Came(d) = e + n /\ Oldest(d) = 1
          /\ Seen(d)' = e1 /\ Came(d)' = e1 + n1 /\ Oldest(d)' = 1
          /\ Used(d)' = Used(d)
        BY <1>0 DEF Seen, Came, Oldest, Used
    <2>2. /\ events'[d][e + 1] = bus[d][1]
          /\ \A i \in 1 .. e : events'[d][i] = events[d][i]
          /\ \A i \in 1 .. n1 : bus'[d][i] = bus[d][i + 1]
        BY <1>b, <1>e
    <2>3. ASSUME NEW i \in 1 .. e + n PROVE Update(d, i)' = Update(d, i)
        <3>1. /\ Update(d, i) = IF i <= e THEN events[d][i] ELSE bus[d][i - e]
              /\ Update(d, i)' = IF i <= e1 THEN events'[d][i] ELSE bus'[d][i - e1]
            BY <1>0, <2>1 DEF Update
        <3> HIDE DEF n, n1, e, e1
        <3>2. CASE i <= e
            BY <1>n, <2>2, <2>3, <3>1, <3>2
        <3>3. CASE i = e + 1
            <4>1. ~(i <= e) /\ i - e = 1 /\ i <= e1
                BY <1>n, <3>3
            <4> QED
                BY <2>2, <3>1, <3>3, <4>1
        <3>4. CASE i > e + 1
            <4>1. /\ ~(i <= e) /\ ~(i <= e1) /\ i - e1 \in 1 .. n1
                  /\ (i - e1) + 1 = i - e
                BY <1>n, <2>3, <3>4
            <4>2. bus'[d][i - e1] = bus[d][(i - e1) + 1]
                BY <2>2, <4>1
            <4> QED
                BY <3>1, <4>1, <4>2
        <3> QED
            BY <1>n, <2>3, <3>2, <3>3, <3>4
    <2>4. e1 + n1 = e + n
        <3> HIDE DEF n, n1, e, e1
        <3> QED
            BY <1>n
    <2> QED
        BY <2>1, <2>3, <2>4
<1> HIDE DEF n, n1, e, e1
<1>5. Accounts' /\ ObserverFits' /\ ReaderFits'
    BY <1>0, <1>1, <1>u DEF Accounts, AccountsOf, ObserverFits, ReaderFits
<1>v. Came(d) \in Nat /\ Oldest(d) \in Nat /\ Used(d) \in Nat
      /\ Oldest(d) <= Used(d) + 1
    BY Updates
<1>6. InOrder'
    <2> SUFFICES ASSUME ~observer[d].failed, NEW i \in Oldest(d) .. Came(d)
                 PROVE  /\ Update(d, i)' <= i + lost
                        /\ i <= Update(d, i)' + doubled
                        /\ Update(d, i)' <= sent[d]
                        /\ \A j \in Oldest(d) .. i - 1 :
                              Ordered(Update(d, j), Update(d, i))'
        BY <1>0, <1>1, <1>u DEF InOrder, InOrderOf
    <2>1. /\ Update(d, i) <= i + lost
          /\ i <= Update(d, i) + doubled
          /\ Update(d, i) <= sent[d]
          /\ \A j \in Oldest(d) .. i - 1 : Ordered(Update(d, j), Update(d, i))
        BY DEF InOrder, InOrderOf
    <2>2. ASSUME NEW j \in Oldest(d) .. i - 1
          PROVE  Ordered(Update(d, j), Update(d, i))'
        <3>1. j \in Oldest(d) .. Came(d)
            BY <1>v, <2>2
        <3> QED
            BY <1>0, <1>u, <2>1, <3>1 DEF Ordered
    <2> QED
        BY <1>u, <2>1, <2>2
<1>7. Recorded'
    <2> SUFFICES ASSUME NEW k \in 1 .. Len(latencies[d])
                 PROVE  /\ totalWarmup + k <= latencies[d][k] + doubled
                        /\ latencies[d][k] <= totalWarmup + k + reader.exceptions + lost
                        /\ latencies[d][k] <= sent[d]
                        /\ \A j \in 1 .. k - 1 :
                              Ordered(latencies[d][j], latencies[d][k])'
                        /\ ~observer[d].failed =>
                              \A i \in Used(d) + 1 .. Came(d) :
                                 Ordered(latencies[d][k], Update(d, i))'
        BY <1>0, <1>1, <1>u DEF Recorded, RecordedOf
    <2>1. /\ totalWarmup + k <= latencies[d][k] + doubled
          /\ latencies[d][k] <= totalWarmup + k + reader.exceptions + lost
          /\ latencies[d][k] <= sent[d]
          /\ \A j \in 1 .. k - 1 : Ordered(latencies[d][j], latencies[d][k])
          /\ ~observer[d].failed =>
                \A i \in Used(d) + 1 .. Came(d) : Ordered(latencies[d][k], Update(d, i))
        BY DEF Recorded, RecordedOf
    <2>2. ASSUME ~observer[d].failed, NEW i \in Used(d) + 1 .. Came(d)
          PROVE  Ordered(latencies[d][k], Update(d, i))'
        <3>1. i \in Oldest(d) .. Came(d)
            BY <1>v, <2>2
        <3> QED
            BY <1>0, <1>u, <2>1, <2>2, <3>1 DEF Ordered
    <2>3. ASSUME NEW j \in 1 .. k - 1 PROVE Ordered(latencies[d][j], latencies[d][k])'
        BY <1>0, <2>1, <2>3 DEF Ordered
    <2> QED
        BY <2>1, <2>2, <2>3
<1> QED
    BY <1>2, <1>3, <1>5, <1>6, <1>7

(* A writer of several maps writes no more to one than the readers expect. *)
LEMMA SentBounded ==
    ASSUME IInv, ~Single, NEW m \in Maps PROVE sent[m] <= totalExpected
<1>1. /\ writer \in WriterStates
      /\ sent[m] \in Nat /\ writer.map \in Nat /\ m \in Nat /\ m >= 1
    <2>1. writer \in WriterStates /\ sent \in [Maps -> Nat] /\ config.maps \in Nat
        BY ConfigFacts DEF IInv, Types
    <2>2. writer.map \in Maps
        BY <2>1
    <2> QED
        BY <2>1, <2>2 DEF Maps
<1>2. /\ totalWarmup \in Nat /\ config.writes \in Nat
      /\ totalExpected = totalWarmup + config.writes
    BY ConfigFacts DEF IInv
<1>3. CASE writer.pc \in {"setup", "ready"}
    BY <1>1, <1>2, <1>3 DEF IInv, WriterFits
<1>4. CASE writer.pc \in {"run", "finished"}
    <2>1. /\ writer.inInterval <= 1 /\ writer.written <= config.writes
          /\ writer.inInterval = 1 => writer.map = 1
          /\ writer.inInterval = 1 \/ writer.map > 1 => writer.written < config.writes
          /\ sent[m] <= totalWarmup + writer.written + writer.inInterval
                        + (IF m < writer.map THEN 1 ELSE 0)
        BY <1>4 DEF IInv, WriterFits
    <2> QED
        BY <1>1, <1>2, <2>1
<1> QED
    BY <1>1, <1>3, <1>4

(* The observer of one of several maps counts the update, or fails.        *)
LEMMA CountedKeeps == ASSUME IInv, NEW d \in Maps, Deliver(d), ~Single PROVE IInv'
<1> USE DEF IInv
<1>0. /\ UNCHANGED <<config, writer, sent, lost, doubled, reader, events>>
      /\ Maps' = Maps /\ Single' = Single /\ totalWarmup' = totalWarmup
      /\ totalExpected' = totalExpected
    BY ConfigStays DEF Deliver
<1>c. /\ totalWarmup \in Nat \ {0} /\ config.writes \in Nat
      /\ totalExpected = totalWarmup + config.writes
    BY ConfigFacts
<1>t. /\ bus \in [Maps -> Seq(Nat)] /\ latencies \in [Maps -> Seq(Nat)]
      /\ observer \in [Maps -> ObserverStates]
      /\ lost \in Nat /\ doubled \in Nat /\ sent \in [Maps -> Nat]
      /\ reader.exceptions \in Nat
    BY DEF Types
<1>b. /\ bus' \in [Maps -> Seq(Nat)] /\ bus[d] \in Seq(Nat)
      /\ Len(bus[d]) \in Nat \ {0}
      /\ \A m \in Maps : m # d => bus'[m] = bus[m]
      /\ Len(bus'[d]) = Len(bus[d]) - 1
      /\ Head(bus[d]) \in Nat /\ Head(bus[d]) = bus[d][1]
      /\ \A i \in 1 .. Len(bus'[d]) : bus'[d][i] = bus[d][i + 1]
    BY Taken
<1>3. WriterFits'
    BY <1>0 DEF WriterFits
<1>6. ReaderFits'
    BY <1>0 DEF ReaderFits
<1>m. ASSUME NEW m \in Maps, m # d, observer'[m] = observer[m], latencies'[m] = latencies[m]
      PROVE  AccountsOf(m)' /\ InOrderOf(m)' /\ RecordedOf(m)'
    <2>1. /\ Came(m)' = Came(m) /\ Oldest(m)' = Oldest(m) /\ Used(m)' = Used(m)
          /\ \A i : Update(m, i)' = Update(m, i)
        BY <1>0, <1>b, <1>m DEF Came, Oldest, Used, Update, Seen
    <2>2. AccountsOf(m) /\ InOrderOf(m) /\ RecordedOf(m)
        BY DEF Accounts, InOrder, Recorded
    <2>3. AccountsOf(m)'
        BY <1>0, <1>m, <2>1, <2>2 DEF AccountsOf
    <2>4. InOrderOf(m)'
        BY <1>0, <1>m, <2>1, <2>2 DEF InOrderOf, Ordered
    <2>5. RecordedOf(m)'
        BY <1>0, <1>m, <2>1, <2>2 DEF RecordedOf, Ordered
    <2> QED
        BY <2>3, <2>4, <2>5
<1> DEFINE o == observer[d].offset
           n == Len(bus[d])
           n1 == Len(bus'[d])
<1>n. n \in Nat \ {0} /\ n1 = n - 1 /\ o \in Nat
    BY <1>b, <1>t
<1>h. ASSUME observer'[d].failed, latencies'[d] = latencies[d]
      PROVE  AccountsOf(d)' /\ InOrderOf(d)' /\ RecordedOf(d)'
    <2>1. RecordedOf(d)
        BY DEF Recorded
    <2>2. RecordedOf(d)'
        BY <1>0, <1>h, <2>1 DEF RecordedOf, Ordered
    <2> QED
        BY <1>h, <2>2 DEF AccountsOf, InOrderOf
<1>f. CASE observer[d].failed
    <2>1. UNCHANGED <<observer, latencies>>
        BY <1>f DEF Deliver
    <2>3. Types'
        BY <1>0, <1>b, <2>1 DEF Types
    <2>5. ObserverFits'
        BY <1>0, <2>1 DEF ObserverFits
    <2>6. Accounts' /\ InOrder' /\ Recorded'
        BY <1>0, <1>f, <1>m, <1>h, <2>1 DEF Accounts, InOrder, Recorded
    <2> QED
        BY <1>3, <1>6, <2>3, <2>5, <2>6
<1>g. CASE ~observer[d].failed
    <2>1. onNext(d, Head(bus[d]))
        BY <1>g DEF Deliver
    <2>2. o + n <= sent[d] + doubled /\ sent[d] <= totalExpected /\ sent[d] \in Nat
        <3>1. AccountsOf(d) /\ Came(d) = o + n
            BY DEF Accounts, Came, Seen
        <3> QED
            BY <1>g, <1>t, <3>1, SentBounded DEF AccountsOf
    <2>o. /\ o >= totalExpected => observer[d].done
          /\ o <= totalExpected
          /\ Len(latencies[d]) = IF o <= totalWarmup THEN 0 ELSE o - totalWarmup
        BY DEF ObserverFits
    <2>3. CASE Measured(observer[d]) /\ PastTheEnd(observer[d])
        <3>1. observer' = [observer EXCEPT ![d].failed = TRUE] /\ UNCHANGED latencies
            BY <2>1, <2>3 DEF onNext
        <3>2. o >= totalWarmup /\ o - totalWarmup >= config.writes
            BY <2>3 DEF Measured, PastTheEnd
        <3>3. o >= totalExpected
            BY <1>c, <1>n, <3>2
        <3>4. doubled > 0 /\ observer[d].done
            <4>1. observer[d].done
                BY <2>o, <3>3
            <4>2. doubled > 0
                <5> HIDE DEF o, n, n1
                <5> QED
                    BY <1>n, <1>c, <1>t, <2>2, <3>3
            <4> QED
                BY <4>1, <4>2
        <3>5. observer' = [observer EXCEPT ![d] = [observer[d] EXCEPT !.failed = TRUE]]
            BY <3>1
        <3>6. /\ observer' \in [Maps -> ObserverStates]
              /\ observer'[d].failed /\ observer'[d].offset = o
              /\ observer'[d].done = observer[d].done
              /\ \A m \in Maps : m # d => observer'[m] = observer[m]
            BY <1>t, <3>5
        <3>7. Types'
            BY <1>0, <1>b, <3>1, <3>6 DEF Types
        <3>8. Accounts' /\ InOrder' /\ Recorded'
            BY <1>0, <1>m, <1>h, <3>1, <3>6 DEF Accounts, InOrder, Recorded
        <3>9. ObserverFits'
            <4> SUFFICES ASSUME NEW m \in Maps
                         PROVE  /\ observer'[m].failed => observer'[m].done /\ doubled > 0
                                /\ observer'[m].offset >= totalExpected => observer'[m].done
                                /\ observer'[m].offset <= totalExpected
                                /\ Len(latencies[m]) =
                                     IF observer'[m].offset <= totalWarmup THEN 0
                                     ELSE observer'[m].offset - totalWarmup
                BY <1>0, <3>1 DEF ObserverFits
            <4>1. CASE m = d
                BY <2>o, <3>4, <3>6, <4>1
            <4>2. CASE m # d
                BY <3>6, <4>2 DEF ObserverFits
            <4> QED
                BY <4>1, <4>2
        <3> QED
            BY <1>3, <1>6, <3>7, <3>8, <3>9
    <2>4. CASE ~(Measured(observer[d]) /\ PastTheEnd(observer[d]))
        <3>1. /\ observer' = [observer EXCEPT ![d] = Counted(observer[d])]
              /\ latencies' = IF Measured(observer[d])
                              THEN [latencies EXCEPT ![d] = Append(@, Head(bus[d]))]
                              ELSE latencies
            BY <2>1, <2>4 DEF onNext
        <3>2. /\ Measured(observer[d]) <=> o >= totalWarmup
              /\ ~(o >= totalWarmup /\ o - totalWarmup >= config.writes)
            BY <2>4 DEF Measured, PastTheEnd
        <3>3. /\ Counted(observer[d]) \in ObserverStates
              /\ Counted(observer[d]).offset = o + 1
              /\ o + 1 >= totalExpected => Counted(observer[d]).done
              /\ ~Counted(observer[d]).failed
            <4>1. /\ observer[d] \in ObserverStates
                  /\ o + 1 \in Nat
                BY <1>t, <1>n
            <4>2. /\ (observer[d].done \/ o + 1 >= totalExpected) \in BOOLEAN
                  /\ (observer[d].warmedUp \/ o + 1 >= totalWarmup) \in BOOLEAN
                OBVIOUS
            <4> HIDE DEF n, n1
            <4> QED
                BY <4>1, <4>2, Zenon DEF Counted
        <3>4. /\ observer' \in [Maps -> ObserverStates]
              /\ ~observer'[d].failed /\ observer'[d].offset = o + 1
              /\ o + 1 >= totalExpected => observer'[d].done
              /\ \A m \in Maps : m # d => observer'[m] = observer[m]
            BY <1>t, <3>1, <3>3
        <3>5. /\ latencies' \in [Maps -> Seq(Nat)]
              /\ \A m \in Maps : m # d => latencies'[m] = latencies[m]
              /\ o < totalWarmup => latencies'[d] = latencies[d]
              /\ o >= totalWarmup =>
                    /\ Len(latencies'[d]) = Len(latencies[d]) + 1
                    /\ latencies'[d][Len(latencies[d]) + 1] = bus[d][1]
                    /\ \A i \in 1 .. Len(latencies[d]) : latencies'[d][i] = latencies[d][i]
            <4>1. CASE o >= totalWarmup
                <5>1. latencies' = [latencies EXCEPT ![d] = Append(latencies[d], Head(bus[d]))]
                    BY <3>1, <3>2, <4>1
                <5>2. /\ latencies' \in [Maps -> Seq(Nat)]
                      /\ \A m \in Maps : m # d => latencies'[m] = latencies[m]
                      /\ Len(latencies'[d]) = Len(latencies[d]) + 1
                      /\ latencies'[d][Len(latencies[d]) + 1] = Head(bus[d])
                      /\ \A i \in 1 .. Len(latencies[d]) : latencies'[d][i] = latencies[d][i]
                    BY <1>t, <1>b, <5>1, OneMore
                <5> QED
                    BY <1>b, <1>c, <1>n, <4>1, <5>2
            <4>2. CASE ~(o >= totalWarmup)
                BY <1>t, <3>1, <3>2, <4>2
            <4> QED
                BY <4>1, <4>2
        <3> DEFINE l == Len(latencies[d])
                   l1 == Len(latencies'[d])
        <3>l. /\ l = IF o <= totalWarmup THEN 0 ELSE o - totalWarmup
              /\ o < totalWarmup => l1 = l
              /\ o >= totalWarmup => l1 = l + 1
              /\ l \in Nat /\ o < totalExpected
            <4>1. /\ l = IF o <= totalWarmup THEN 0 ELSE o - totalWarmup
                  /\ o < totalWarmup => l1 = l
                  /\ o >= totalWarmup => l1 = l + 1
                BY <2>o, <3>5
            <4> HIDE DEF o, n, n1, l, l1
            <4> QED
                BY <1>c, <1>n, <3>2, <4>1
        <3>7. Types'
            BY <1>0, <1>b, <3>4, <3>5 DEF Types
        <3>u. /\ Seen(d) = o /\ Came(d) = o + n /\ Oldest(d) = o + 1 /\ Used(d) = o
              /\ Seen(d)' = o + 1 /\ Came(d)' = Came(d) /\ Oldest(d)' = o + 2
              /\ Used(d)' = o + 1
              /\ Update(d, o + 1) = bus[d][1]
              /\ \A i \in o + 2 .. o + n : Update(d, i)' = Update(d, i)
            <4>1. /\ Seen(d) = o /\ Came(d) = o + n /\ Oldest(d) = o + 1 /\ Used(d) = o
                  /\ Seen(d)' = o + 1 /\ Came(d)' = (o + 1) + n1 /\ Oldest(d)' = (o + 1) + 1
                  /\ Used(d)' = o + 1
                BY <1>0, <3>4 DEF Seen, Came, Oldest, Used
            <4>2. /\ \A i : Update(d, i) = bus[d][i - o]
                  /\ \A i : Update(d, i)' = bus'[d][i - (o + 1)]
                BY <1>0, <4>1 DEF Update
            <4>3. \A i \in 1 .. n1 : bus'[d][i] = bus[d][i + 1]
                BY <1>b
            <4> HIDE DEF o, n, n1
            <4>4. (o + 1) + n1 = o + n /\ (o + 1) + 1 = o + 2 /\ (o + 1) - o = 1
                BY <1>n
            <4>5. ASSUME NEW i \in o + 2 .. o + n PROVE Update(d, i)' = Update(d, i)
                <5>1. i - (o + 1) \in 1 .. n1 /\ (i - (o + 1)) + 1 = i - o
                    BY <1>n, <4>5
                <5>2. bus'[d][i - (o + 1)] = bus[d][(i - (o + 1)) + 1]
                    BY <4>3, <5>1
                <5> QED
                    BY <4>2, <5>1, <5>2
            <4>6. Update(d, o + 1) = bus[d][1]
                BY <4>2, <4>4
            <4> QED
                BY <4>1, <4>4, <4>5, <4>6
        <3>v. /\ \A i \in o + 1 .. o + n : Update(d, i) \in Nat
              /\ \A i \in o + 1 .. o + n :
                    /\ Update(d, i) <= i + lost /\ i <= Update(d, i) + doubled
                    /\ Update(d, i) <= sent[d]
                    /\ \A j \in o + 1 .. i - 1 : Ordered(Update(d, j), Update(d, i))
            <4>1. InOrderOf(d) /\ \A i \in Oldest(d) .. Came(d) : Update(d, i) \in Nat
                BY Updates DEF InOrder
            <4> QED
                BY <1>g, <3>u, <4>1 DEF InOrderOf
        <3>8. Accounts'
            <4>1. AccountsOf(d)'
                BY <1>0, <1>g, <3>u DEF Accounts, AccountsOf
            <4> QED
                BY <1>0, <1>m, <3>4, <3>5, <4>1 DEF Accounts
        <3>9. ObserverFits'
            <4> SUFFICES ASSUME NEW m \in Maps
                         PROVE  /\ observer'[m].failed => observer'[m].done /\ doubled > 0
                                /\ observer'[m].offset >= totalExpected => observer'[m].done
                                /\ observer'[m].offset <= totalExpected
                                /\ Len(latencies'[m]) =
                                     IF observer'[m].offset <= totalWarmup THEN 0
                                     ELSE observer'[m].offset - totalWarmup
                BY <1>0 DEF ObserverFits
            <4>1. CASE m = d
                <5>1. /\ o + 1 <= totalExpected
                      /\ l1 = IF o + 1 <= totalWarmup THEN 0 ELSE o + 1 - totalWarmup
                    <6> HIDE DEF o, n, n1, l, l1
                    <6> QED
                        BY <1>c, <1>n, <3>l
                <5>2. /\ observer'[m].offset = o + 1 /\ ~observer'[m].failed
                      /\ o + 1 >= totalExpected => observer'[m].done
                      /\ Len(latencies'[m]) = l1
                    BY <3>4, <4>1
                <5> HIDE DEF o, n, n1, l, l1
                <5>3. Len(latencies'[m]) = IF observer'[m].offset <= totalWarmup THEN 0
                                           ELSE observer'[m].offset - totalWarmup
                    <6> DEFINE a == observer'[m].offset
                               b == Len(latencies'[m])
                    <6>1. a = o + 1 /\ b = l1
                        BY <5>2
                    <6> HIDE DEF a, b
                    <6>2. b = IF a <= totalWarmup THEN 0 ELSE a - totalWarmup
                        BY <1>c, <1>n, <5>1, <6>1
                    <6> QED
                        BY <6>2 DEF a, b
                <5>4. /\ observer'[m].offset >= totalExpected => observer'[m].done
                      /\ observer'[m].offset <= totalExpected
                    BY <5>1, <5>2
                <5> QED
                    BY <5>2, <5>3, <5>4, Zenon
            <4>2. CASE m # d
                BY <3>4, <3>5, <4>2 DEF ObserverFits
            <4> QED
                BY <4>1, <4>2
        <3>10. InOrder'
            <4>1. InOrderOf(d)'
                <5> SUFFICES ASSUME NEW i \in o + 2 .. o + n
                             PROVE  /\ Update(d, i)' <= i + lost
                                    /\ i <= Update(d, i)' + doubled
                                    /\ Update(d, i)' <= sent[d]
                                    /\ \A j \in o + 2 .. i - 1 :
                                          Ordered(Update(d, j), Update(d, i))'
                    BY <1>0, <3>u DEF InOrderOf
                <5>n. o \in Nat /\ n \in Nat
                    BY <1>n
                <5> HIDE DEF o, n, n1
                <5>1. i \in o + 1 .. o + n
                    BY <5>n
                <5>2. ASSUME NEW j \in o + 2 .. i - 1
                      PROVE  Ordered(Update(d, j), Update(d, i))'
                    <6>1. j \in o + 1 .. i - 1 /\ j \in o + 2 .. o + n
                        BY <5>n, <5>2
                    <6>2. Ordered(Update(d, j), Update(d, i))
                        BY <3>v, <5>1, <6>1
                    <6>3. Update(d, j)' = Update(d, j) /\ Update(d, i)' = Update(d, i)
                        BY <3>u, <6>1
                    <6> QED
                        BY <1>0, <6>2, <6>3 DEF Ordered
                <5> QED
                    BY <3>u, <3>v, <5>1, <5>2
            <4> QED
                BY <1>0, <1>m, <3>4, <3>5, <4>1 DEF InOrder
        <3>11. Recorded'
            <4> DEFINE x == latencies[d]
                       x1 == latencies'[d]
                       ex == reader.exceptions
            <4> SUFFICES ASSUME NEW k \in 1 .. l1
                         PROVE  /\ totalWarmup + k <= x1[k] + doubled
                                /\ x1[k] <= totalWarmup + k + ex + lost
                                /\ x1[k] <= sent[d]
                                /\ \A j \in 1 .. k - 1 : Ordered(x1[j], x1[k])
                                /\ \A i \in o + 2 .. o + n : Ordered(x1[k], Update(d, i))
                <5>1. RecordedOf(d)'
                    <6>1. UNCHANGED <<reader, lost, doubled, sent>> /\ totalWarmup' = totalWarmup
                        BY <1>0
                    <6>2. /\ (Used(d) + 1)' = (o + 1) + 1 /\ Came(d)' = o + n
                          /\ \A i \in o + 2 .. o + n : Update(d, i)' = Update(d, i)
                        BY <3>u
                    <6>3. (o + 1) + 1 = o + 2
                        BY <1>n
                    <6> QED
                        BY <6>1, <6>2, <6>3 DEF RecordedOf, Ordered
                <5> QED
                    BY <1>0, <1>m, <3>4, <3>5, <5>1 DEF Recorded
            <4>1. /\ ex \in Nat /\ \A q \in 1 .. l : x[q] \in Nat
                  /\ \A q \in 1 .. l : /\ totalWarmup + q <= x[q] + doubled
                                       /\ x[q] <= totalWarmup + q + ex + lost
                                       /\ x[q] <= sent[d]
                                       /\ \A j \in 1 .. q - 1 : Ordered(x[j], x[q])
                                       /\ \A i \in o + 1 .. o + n : Ordered(x[q], Update(d, i))
                <5>1. RecordedOf(d)
                    BY DEF Recorded
                <5>2. ex \in Nat /\ \A q \in 1 .. l : x[q] \in Nat
                    BY <1>t
                <5> QED
                    BY <1>g, <3>u, <5>1, <5>2 DEF RecordedOf
            <4>2. /\ \A q \in 1 .. l : x1[q] = x[q]
                  /\ o >= totalWarmup => x1[l + 1] = Update(d, o + 1)
                <5>1. CASE o >= totalWarmup
                    BY <3>5, <3>u, <5>1
                <5>2. CASE ~(o >= totalWarmup)
                    <6>1. o < totalWarmup
                        BY <1>c, <1>n, <5>2
                    <6> QED
                        BY <3>5, <5>2, <6>1
                <5> QED
                    BY <5>1, <5>2
            <4>n. o \in Nat /\ n \in Nat \ {0} /\ l \in Nat /\ totalWarmup \in Nat
                BY <1>n, <1>c, <3>l
            <4>3. \/ k \in 1 .. l
                  \/ k = l + 1 /\ o >= totalWarmup /\ o = totalWarmup + l
                <5> HIDE DEF o, n, n1, l, l1, x, x1, ex
                <5> QED
                    BY <1>c, <1>n, <3>l
            <4> HIDE DEF o, n, n1, l, l1, x, x1, ex
            <4>4. CASE k \in 1 .. l
                <5>1. x1[k] = x[k]
                    BY <4>2, <4>4
                <5>2. ASSUME NEW j \in 1 .. k - 1 PROVE Ordered(x1[j], x1[k])
                    <6>1. j \in 1 .. l
                        BY <4>n, <4>4, <5>2
                    <6> QED
                        BY <4>1, <4>2, <4>4, <5>1, <5>2, <6>1
                <5>3. ASSUME NEW i \in o + 2 .. o + n PROVE Ordered(x1[k], Update(d, i))
                    <6>1. i \in o + 1 .. o + n
                        BY <4>n, <5>3
                    <6> QED
                        BY <4>1, <4>4, <5>1, <6>1
                <5> QED
                    BY <4>1, <4>4, <5>1, <5>2, <5>3
            <4>5. CASE k = l + 1 /\ o >= totalWarmup /\ o = totalWarmup + l
                <5> DEFINE v == Update(d, o + 1)
                <5>0. o + 1 \in o + 1 .. o + n
                    BY <4>n
                <5>1. /\ x1[k] = v /\ v \in Nat
                      /\ v <= o + 1 + lost /\ o + 1 <= v + doubled /\ v <= sent[d]
                    BY <3>v, <4>2, <4>5, <5>0
                <5>2. ASSUME NEW j \in 1 .. k - 1 PROVE Ordered(x1[j], x1[k])
                    <6>1. j \in 1 .. l
                        BY <4>n, <4>5, <5>2
                    <6> QED
                        BY <4>1, <4>2, <5>0, <5>1, <6>1
                <5>3. ASSUME NEW i \in o + 2 .. o + n PROVE Ordered(x1[k], Update(d, i))
                    <6>1. i \in o + 1 .. o + n /\ o + 1 \in o + 1 .. i - 1
                        BY <4>n, <5>3
                    <6> QED
                        BY <3>v, <5>1, <6>1
                <5> HIDE DEF v
                <5>4. /\ totalWarmup + k <= x1[k] + doubled
                      /\ x1[k] <= totalWarmup + k + ex + lost
                    BY <1>t, <4>1, <4>n, <4>5, <5>1
                <5> QED
                    BY <5>1, <5>2, <5>3, <5>4
            <4> QED
                BY <4>3, <4>4, <4>5
        <3> QED
            BY <1>3, <1>6, <3>7, <3>8, <3>9, <3>10, <3>11
    <2> QED
        BY <2>3, <2>4
<1> QED
    BY <1>f, <1>g

-----------------------------------------------------------------------------
(* The steps of the reader that read nothing.                              *)
LEMMA ReaderWaitsKeeps ==
    ASSUME IInv, ReaderSetup \/ AwaitWarmup \/ AwaitFinished \/ ReaderEnd PROVE IInv'
<1> USE DEF IInv
<1>0. /\ UNCHANGED <<config, writer, sent, bus, lost, doubled, events, observer, latencies>>
      /\ Maps' = Maps /\ Single' = Single /\ totalWarmup' = totalWarmup
      /\ totalExpected' = totalExpected
    BY ConfigStays DEF ReaderSetup, AwaitWarmup, AwaitFinished, ReaderEnd, busVars
<1>1. PICK q \in {"setup", "ready", "finished"} :
         /\ reader' = [reader EXCEPT !.pc = q]
         /\ Single => \/ reader.pc = "waits" /\ q = "setup"
                      \/ /\ reader.pc = "run" /\ q = "finished"
                         /\ reader.totalRead = config.writes
    BY DEF ReaderSetup, AwaitWarmup, AwaitFinished, ReaderEnd
<1>2. reader \in ReaderStates
    BY DEF Types
<1>3. /\ reader' \in ReaderStates
      /\ reader'.pc = q /\ reader'.readOffset = reader.readOffset
      /\ reader'.totalRead = reader.totalRead /\ reader'.exceptions = reader.exceptions
    BY <1>1, <1>2
<1>4. Types'
    BY <1>0, <1>3 DEF Types
<1>5. Accounts' /\ ObserverFits' /\ InOrder' /\ Recorded'
    BY <1>0, <1>3, QuietKeeps
<1>6. WriterFits' /\ ReaderFits'
    BY <1>0, <1>1, <1>3 DEF WriterFits, ReaderFits
<1> QED
    BY <1>4, <1>5, <1>6

(* The barrier before the runs.                                            *)
LEMMA StartRunKeeps == ASSUME IInv, StartRun PROVE IInv'
<1> USE DEF IInv
<1>0. /\ UNCHANGED <<config, sent, bus, lost, doubled, events, observer, latencies>>
      /\ Maps' = Maps /\ Single' = Single /\ totalWarmup' = totalWarmup
      /\ totalExpected' = totalExpected
    BY ConfigStays DEF StartRun
<1>t. /\ reader \in ReaderStates
      /\ writer \in WriterStates
      /\ sent \in [Maps -> Nat]
    BY DEF Types
<1>1. /\ reader.pc = "ready" /\ reader' = [reader EXCEPT !.pc = "run"]
      /\ writer.pc = "ready" /\ writer' = [writer EXCEPT !.pc = "run"]
    BY DEF StartRun
<1>2. /\ reader' \in ReaderStates
      /\ reader'.pc = "run" /\ reader'.readOffset = reader.readOffset
      /\ reader'.totalRead = reader.totalRead /\ reader'.exceptions = reader.exceptions
    BY <1>t, <1>1
<1>3. /\ writer' \in WriterStates
      /\ writer'.pc = "run" /\ writer'.written = writer.written
      /\ writer'.inInterval = writer.inInterval /\ writer'.map = writer.map
    BY <1>t, <1>1
<1>4. Types'
    BY <1>0, <1>2, <1>3 DEF Types
<1>5. WriterFits'
    <2> SUFFICES ASSUME ~Single PROVE WriterFits'
        BY <1>0 DEF WriterFits
    <2>1. /\ writer.written = 0 /\ writer.inInterval = 0 /\ writer.map = 1
          /\ \A m \in Maps : sent[m] <= totalWarmup /\ sent[m] \in Nat /\ m \in Nat
          /\ config.writes \in Nat /\ totalWarmup \in Nat
        BY <1>1, <1>t, ConfigFacts DEF WriterFits
    <2> QED
        BY <1>0, <1>3, <2>1 DEF WriterFits
<1>6. Accounts' /\ ObserverFits' /\ InOrder' /\ Recorded'
    BY <1>0, <1>2, QuietKeeps
<1>7. ReaderFits'
    BY <1>0, <1>1, <1>2 DEF ReaderFits
<1> QED
    BY <1>4, <1>5, <1>6, <1>7

(* A read of the setup, with its timeout.                                  *)
LEMMA SetupReadKeeps == ASSUME IInv, SetupRead PROVE IInv'
<1> USE DEF IInv
<1>0. /\ UNCHANGED <<config, writer, sent, bus, lost, doubled, events, observer, latencies>>
      /\ Maps' = Maps /\ Single' = Single /\ totalWarmup' = totalWarmup
      /\ totalExpected' = totalExpected
    BY ConfigStays DEF SetupRead, busVars
<1>t. /\ reader \in ReaderStates
      /\ events \in [Maps -> Seq(Nat)] /\ 1 \in Maps
    BY ConfigFacts DEF Types
<1>1. /\ Single /\ reader.pc = "setup" /\ reader.totalRead = 0 /\ reader.exceptions = 0
      /\ totalWarmup \in Nat /\ config.writes \in Nat
      /\ Len(latencies[1]) = 0
    BY ConfigFacts DEF SetupRead, ReaderFits
<1>2. /\ reader' \in ReaderStates
      /\ reader'.totalRead = 0 /\ reader'.exceptions = 0
      /\ reader'.readOffset <= totalWarmup
      /\ reader'.pc \in {"setup", "setup_threw", "ready"}
      /\ reader'.pc = "ready" => reader'.readOffset = totalWarmup
    <2>1. CASE /\ reader.readOffset < totalWarmup
               /\ reader' = [reader EXCEPT !.readOffset = @ + 1]
        <3>1. reader.readOffset + 1 \in Nat /\ reader.readOffset + 1 <= totalWarmup
            BY <1>t, <1>1, <2>1
        <3>2. reader' \in ReaderStates
            BY <1>t, <2>1, <3>1
        <3>3. /\ reader'.pc = "setup" /\ reader'.readOffset = reader.readOffset + 1
              /\ reader'.totalRead = 0 /\ reader'.exceptions = 0
            BY <1>t, <1>1, <2>1
        <3> QED
            BY <1>t, <3>1, <3>2, <3>3
    <2>2. CASE /\ reader.readOffset < totalWarmup
               /\ reader' = [reader EXCEPT !.readOffset = @ + 1, !.pc = "setup_threw"]
        <3>1. reader.readOffset + 1 \in Nat /\ reader.readOffset + 1 <= totalWarmup
            BY <1>t, <1>1, <2>2
        <3>2. reader' \in ReaderStates
            BY <1>t, <2>2, <3>1
        <3>3. /\ reader'.pc = "setup_threw" /\ reader'.readOffset = reader.readOffset + 1
              /\ reader'.totalRead = 0 /\ reader'.exceptions = 0
            BY <1>t, <1>1, <2>2
        <3> QED
            BY <1>t, <3>1, <3>2, <3>3
    <2>3. CASE /\ reader.readOffset = totalWarmup
               /\ reader' = [reader EXCEPT !.pc = "ready"]
        <3>1. reader' \in ReaderStates
            BY <1>t, <2>3
        <3>2. /\ reader'.pc = "ready" /\ reader'.readOffset = totalWarmup
              /\ reader'.totalRead = 0 /\ reader'.exceptions = 0
            BY <1>t, <1>1, <2>3
        <3> QED
            BY <1>1, <3>1, <3>2
    <2> QED
        BY <2>1, <2>2, <2>3 DEF SetupRead
<1>4. Types'
    BY <1>0, <1>2 DEF Types
<1>5. WriterFits' /\ Accounts' /\ ObserverFits' /\ InOrder'
    BY <1>0, UpdatesStay DEF WriterFits, ObserverFits
<1>6. ReaderFits'
    <2>1. /\ Len(latencies'[1]) = 0 /\ 0 <= config.writes
          /\ reader'.pc = "ready" => reader'.readOffset = totalWarmup + 0 + 0
        BY <1>0, <1>1, <1>2
    <2> QED
        BY <1>0, <1>2, <2>1 DEF ReaderFits
<1>7. Recorded'
    <2>1. \A m \in Maps : m = 1
        BY <1>1, ConfigFacts DEF Maps
    <2>2. \A m \in Maps : Len(latencies'[m]) = 0
        BY <1>0, <1>1, <2>1
    <2> QED
        BY <1>0, <2>2 DEF Recorded, RecordedOf
<1> QED
    BY <1>4, <1>5, <1>6, <1>7

(* A read of the run, with its timeout.                                    *)
LEMMA RunReadKeeps == ASSUME IInv, RunRead PROVE IInv'
<1> USE DEF IInv
<1>0. /\ UNCHANGED <<config, writer, sent, bus, lost, doubled, events, observer>>
      /\ Maps' = Maps /\ Single' = Single /\ totalWarmup' = totalWarmup
      /\ totalExpected' = totalExpected
    BY ConfigStays DEF RunRead, busVars
<1>t. /\ reader \in ReaderStates
      /\ events \in [Maps -> Seq(Nat)] /\ latencies \in [Maps -> Seq(Nat)]
      /\ 1 \in Maps /\ totalWarmup \in Nat /\ config.writes \in Nat
    BY ConfigFacts DEF Types
<1> DEFINE e == Len(events[1])
           r == reader.readOffset
           t == reader.totalRead
           x == reader.exceptions
           v == events[1][r + 1]
           l == latencies[1]
           l1 == latencies'[1]
<1>1. /\ Single /\ reader.pc = "run" /\ t < config.writes
      /\ r = totalWarmup + t + x /\ Len(l) = t
      /\ r \in Nat /\ t \in Nat /\ x \in Nat /\ e \in Nat
      /\ \A m \in Maps : m = 1
    BY <1>t, ConfigFacts DEF RunRead, ReaderFits, Maps
<1>2. WriterFits' /\ Accounts' /\ InOrder'
    BY <1>0, UpdatesStay DEF WriterFits
<1>f. ~observer[1].failed
    BY <1>t, <1>1 DEF ObserverFits
<1>u. /\ Came(1) \in Nat /\ e <= Came(1) /\ Oldest(1) = 1 /\ Used(1) = r
      /\ Used(1)' = reader'.readOffset /\ Came(1)' = Came(1)
      /\ \A i : Update(1, i)' = Update(1, i)
      /\ \A i \in 1 .. Came(1) : Update(1, i) \in Nat
      /\ e > r => Update(1, r + 1) = v
    <2>1. /\ Came(1) \in Nat /\ Len(bus[1]) \in Nat /\ Came(1) = Seen(1) + Len(bus[1])
          /\ \A i \in Oldest(1) .. Came(1) : Update(1, i) \in Nat
        BY <1>t, Updates
    <2>2. Seen(1) = e /\ Oldest(1) = 1 /\ Used(1) = r /\ Used(1)' = reader'.readOffset
        BY <1>0, <1>1 DEF Seen, Oldest, Used
    <2>3. Came(1)' = Came(1) /\ \A i : Update(1, i)' = Update(1, i)
        BY <1>0, UpdatesStay
    <2>4. e > r => Update(1, r + 1) = v
        BY <1>1 DEF Update
    <2>5. e <= Came(1)
        <3>1. e \in Nat /\ Came(1) = e + Len(bus[1]) /\ Len(bus[1]) \in Nat
            BY <1>1, <2>1, <2>2
        <3> HIDE DEF e
        <3> QED
            BY <3>1
    <2> QED
        BY <2>1, <2>2, <2>3, <2>4, <2>5
<1>r. /\ \A q \in 1 .. t : l[q] \in Nat
      /\ \A q \in 1 .. t :
            /\ totalWarmup + q <= l[q] + doubled
            /\ l[q] <= totalWarmup + q + x + lost
            /\ l[q] <= sent[1]
            /\ \A j \in 1 .. q - 1 : Ordered(l[j], l[q])
            /\ \A i \in r + 1 .. Came(1) : Ordered(l[q], Update(1, i))
    <2>1. RecordedOf(1) /\ latencies[1] \in Seq(Nat)
        BY <1>t DEF Recorded
    <2>2. \A q \in 1 .. t : l[q] \in Nat
        BY <1>1, <2>1
    <2> QED
        BY <1>1, <1>f, <1>u, <2>1, <2>2 DEF RecordedOf
<1>i. \A i \in 1 .. Came(1) :
         /\ Update(1, i) <= i + lost /\ i <= Update(1, i) + doubled
         /\ Update(1, i) <= sent[1]
         /\ \A j \in 1 .. i - 1 : Ordered(Update(1, j), Update(1, i))
    <2>1. InOrderOf(1)
        BY <1>t DEF InOrder
    <2> QED
        BY <1>f, <1>u, <2>1 DEF InOrderOf
<1>w. lost \in Nat /\ doubled \in Nat
    BY DEF Types
<1>3. ObserverFits'
    BY <1>0, <1>1 DEF ObserverFits
<1>4. CASE /\ e > r
           /\ latencies' = [latencies EXCEPT ![1] = Append(latencies[1], v)]
           /\ reader' = [reader EXCEPT !.readOffset = r + 1, !.totalRead = t + 1]
    <2>1. v \in Nat
        <3>1. r + 1 \in 1 .. e
            BY <1>1, <1>4
        <3>2. \A i \in 1 .. Len(events[1]) : events[1][i] \in Nat
            BY <1>t
        <3> QED
            BY <3>1, <3>2
    <2>2. /\ latencies' \in [Maps -> Seq(Nat)]
          /\ Len(l1) = t + 1 /\ l1[t + 1] = v
          /\ \A i \in 1 .. t : l1[i] = l[i]
        <3> HIDE DEF v
        <3>1. /\ latencies' \in [Maps -> Seq(Nat)]
              /\ Len(latencies'[1]) = Len(latencies[1]) + 1
              /\ latencies'[1][Len(latencies[1]) + 1] = v
              /\ \A i \in 1 .. Len(latencies[1]) : latencies'[1][i] = latencies[1][i]
            BY <1>t, <1>4, <2>1, OneMore
        <3> QED
            BY <1>1, <3>1
    <2>3. /\ reader' \in ReaderStates
          /\ reader'.pc = "run" /\ reader'.readOffset = r + 1
          /\ reader'.totalRead = t + 1 /\ reader'.exceptions = x
        <3>1. /\ reader' = [reader EXCEPT !.readOffset = r + 1, !.totalRead = t + 1]
              /\ r + 1 \in Nat /\ t + 1 \in Nat
            BY <1>1, <1>4
        <3> HIDE DEF e, v, l, l1
        <3>2. reader' \in ReaderStates
            BY <1>t, <3>1
        <3>3. /\ reader'.pc = "run" /\ reader'.readOffset = r + 1
              /\ reader'.totalRead = t + 1 /\ reader'.exceptions = x
            BY <1>t, <1>1, <3>1
        <3> QED
            BY <3>2, <3>3
    <2>4. Types'
        BY <1>0, <2>2, <2>3 DEF Types
    <2>5. ReaderFits'
        <3>1. r + 1 = totalWarmup + (t + 1) + x /\ t + 1 <= config.writes
            <4>1. /\ t < config.writes /\ r = totalWarmup + t + x
                  /\ r \in Nat /\ t \in Nat /\ x \in Nat
                BY <1>1
            <4> HIDE DEF e, r, t, x, l
            <4> QED
                BY <1>t, <4>1
        <3> QED
            BY <1>0, <2>2, <2>3, <3>1 DEF ReaderFits
    <2>6. Recorded'
        <3> SUFFICES ASSUME NEW k \in 1 .. t + 1
                     PROVE  /\ totalWarmup + k <= l1[k] + doubled
                            /\ l1[k] <= totalWarmup + k + x + lost
                            /\ l1[k] <= sent[1]
                            /\ \A j \in 1 .. k - 1 : Ordered(l1[j], l1[k])
                            /\ \A i \in r + 2 .. Came(1) : Ordered(l1[k], Update(1, i))
            <4>1. (r + 1) + 1 = r + 2
                BY <1>1
            <4>2. RecordedOf(1)'
                <5>1. /\ UNCHANGED <<lost, doubled, sent>> /\ totalWarmup' = totalWarmup
                      /\ Len(latencies'[1]) = t + 1 /\ reader'.exceptions = x
                      /\ (Used(1) + 1)' = r + 2 /\ Came(1)' = Came(1)
                      /\ \A i : Update(1, i)' = Update(1, i)
                    BY <1>0, <1>u, <2>2, <2>3, <4>1
                <5> HIDE DEF e, r, t, x, v, l
                <5> QED
                    BY <5>1 DEF RecordedOf, Ordered
            <4> QED
                BY <1>0, <1>1, <4>2 DEF Recorded
        <3>1. /\ r + 1 \in 1 .. Came(1) /\ v = Update(1, r + 1)
            <4>1. r \in Nat /\ e \in Nat /\ e > r /\ e <= Came(1) /\ Came(1) \in Nat
                BY <1>1, <1>4, <1>u
            <4>2. v = Update(1, r + 1)
                BY <1>4, <1>u
            <4> HIDE DEF r, e, v
            <4> QED
                BY <4>1, <4>2
        <3>2. /\ v <= r + 1 + lost /\ r + 1 <= v + doubled /\ v <= sent[1]
              /\ \A i \in 1 .. Came(1) : i > r + 1 => Ordered(v, Update(1, i))
            <4>1. ASSUME NEW i \in 1 .. Came(1), i > r + 1 PROVE Ordered(v, Update(1, i))
                <5>1. r + 1 \in 1 .. i - 1
                    BY <1>1, <1>u, <4>1
                <5> QED
                    BY <1>i, <3>1, <5>1
            <4> QED
                BY <1>i, <3>1, <4>1
        <3>3. /\ \A q \in 1 .. t : l1[q] = l[q]
              /\ l1[t + 1] = v
              /\ r \in Nat /\ t \in Nat /\ x \in Nat /\ r = totalWarmup + t + x
            BY <1>1, <2>2
        <3> HIDE DEF e, r, t, x, v, l, l1
        <3>4. CASE k \in 1 .. t
            <4>1. l1[k] = l[k]
                BY <3>3, <3>4
            <4>2. ASSUME NEW j \in 1 .. k - 1 PROVE Ordered(l1[j], l1[k])
                <5>1. j \in 1 .. t
                    BY <3>3, <3>4, <4>2
                <5> QED
                    BY <1>r, <3>3, <3>4, <4>1, <4>2, <5>1
            <4>3. ASSUME NEW i \in r + 2 .. Came(1) PROVE Ordered(l1[k], Update(1, i))
                <5>1. i \in r + 1 .. Came(1)
                    BY <1>u, <3>3, <4>3
                <5> QED
                    BY <1>r, <3>4, <4>1, <5>1
            <4> QED
                BY <1>r, <3>4, <4>1, <4>2, <4>3
        <3>5. CASE k = t + 1
            <4>1. l1[k] = v
                BY <3>3, <3>5
            <4>2. ASSUME NEW j \in 1 .. k - 1 PROVE Ordered(l1[j], l1[k])
                <5>1. j \in 1 .. t /\ r + 1 \in r + 1 .. Came(1)
                    BY <1>u, <3>1, <3>3, <3>5, <4>2
                <5> QED
                    BY <1>r, <3>1, <3>3, <4>1, <5>1
            <4>3. ASSUME NEW i \in r + 2 .. Came(1) PROVE Ordered(l1[k], Update(1, i))
                <5>1. i \in 1 .. Came(1) /\ i > r + 1
                    BY <1>u, <3>3, <4>3
                <5> QED
                    BY <3>2, <4>1, <5>1
            <4>4. /\ totalWarmup + k <= l1[k] + doubled
                  /\ l1[k] <= totalWarmup + k + x + lost
                <5>1. v \in Nat
                    BY <2>1
                <5> QED
                    BY <1>t, <1>w, <3>2, <3>3, <3>5, <4>1, <5>1
            <4> QED
                BY <3>2, <4>1, <4>2, <4>3, <4>4
        <3> QED
            BY <3>3, <3>4, <3>5
    <2> QED
        BY <1>2, <1>3, <2>4, <2>5, <2>6
<1>5. CASE /\ UNCHANGED latencies
           /\ \E pc \in {"threw", "run"} :
                 reader' = [reader EXCEPT !.readOffset = r + 1, !.exceptions = x + 1,
                                          !.pc = pc]
    <2>1. /\ reader' \in ReaderStates
          /\ reader'.pc \in {"threw", "run"} /\ reader'.readOffset = r + 1
          /\ reader'.totalRead = t /\ reader'.exceptions = x + 1
        <3>1. PICK pc \in {"threw", "run"} :
                 reader' = [reader EXCEPT !.readOffset = r + 1, !.exceptions = x + 1,
                                          !.pc = pc]
            BY <1>5
        <3>2. r + 1 \in Nat /\ x + 1 \in Nat
            BY <1>1
        <3> HIDE DEF e, v, l, l1
        <3>3. reader' \in ReaderStates
            BY <1>t, <3>1, <3>2
        <3>4. /\ reader'.pc = pc /\ reader'.readOffset = r + 1
              /\ reader'.totalRead = t /\ reader'.exceptions = x + 1
            BY <1>t, <3>1
        <3> QED
            BY <3>3, <3>4
    <2>2. Types'
        BY <1>0, <1>5, <2>1 DEF Types
    <2>3. ReaderFits'
        <3>1. r + 1 = totalWarmup + t + (x + 1) /\ t <= config.writes
            <4> HIDE DEF e, r, t, x, l
            <4> QED
                BY <1>t, <1>1
        <3>2. Len(latencies'[1]) = t
            BY <1>1, <1>5
        <3> QED
            BY <1>0, <2>1, <3>1, <3>2 DEF ReaderFits
    <2>4. Recorded'
        <3>0. /\ r \in Nat /\ t \in Nat /\ x \in Nat /\ Len(l) = t
            BY <1>1
        <3>1. ASSUME NEW k \in 1 .. t
              PROVE  /\ l[k] <= totalWarmup + k + (x + 1) + lost
                     /\ \A i \in (r + 1) + 1 .. Came(1) : Ordered(l[k], Update(1, i))
            <4>1. l[k] \in Nat /\ l[k] <= totalWarmup + k + x + lost
                BY <1>r
            <4>2. ASSUME NEW i \in (r + 1) + 1 .. Came(1)
                  PROVE  Ordered(l[k], Update(1, i))
                <5>1. i \in r + 1 .. Came(1)
                    BY <1>u, <3>0, <4>2
                <5> QED
                    BY <1>r, <3>1, <5>1
            <4> HIDE DEF e, r, t, x, l
            <4> QED
                BY <1>t, <1>w, <3>0, <4>1, <4>2
        <3>2. RecordedOf(1)'
            BY <1>0, <1>5, <1>u, <1>r, <2>1, <3>0, <3>1 DEF RecordedOf, Ordered
        <3> QED
            BY <1>0, <1>1, <3>2 DEF Recorded
    <2> QED
        BY <1>2, <1>3, <2>2, <2>3, <2>4
<1> QED
    BY <1>4, <1>5 DEF RunRead, Available

-----------------------------------------------------------------------------
(* The invariant holds.                                                    *)
LEMMA InvariantHolds == Spec => []IInv
<1>1. IInv /\ [Next]_vars => IInv'
    <2> SUFFICES ASSUME IInv, [Next]_vars PROVE IInv'
        OBVIOUS
    <2>1. CASE Writer
        BY <2>1, WriterSetupKeeps, WriteEntryKeeps, EndIntervalKeeps DEF Writer
    <2>2. CASE Reader
        BY <2>2, ReaderWaitsKeeps, StartRunKeeps, SetupReadKeeps, RunReadKeeps DEF Reader
    <2>3. CASE \E m \in Maps : Deliver(m)
        BY <2>3, KeptKeeps, CountedKeeps
    <2>4. CASE UNCHANGED vars
        <3>1. Accounts' /\ ObserverFits' /\ InOrder' /\ Recorded'
            BY <2>4, QuietKeeps DEF vars
        <3> QED
            BY <2>4, <3>1, ConfigStays DEF vars, IInv, Types, WriterFits, ReaderFits
    <2> QED
        BY <2>1, <2>2, <2>3, <2>4 DEF Next
<1> QED
    BY <1>1, InitIInv, PTL DEF Spec

(* Whatever the benchmark and whatever the bus loses or doubles, the       *)
(* latencies that ReaderNode.run and ArpMergedMapObserver record are those *)
(* of the writes of the run, one after the other, off by no more than the  *)
(* timeouts and the faults of the bus.                                     *)
THEOREM LatenciesAreOfTheRun == Spec => []MeasuresTheRun
<1>1. IInv => MeasuresTheRun
    <2> SUFFICES ASSUME IInv, NEW m \in Maps, NEW k \in 1 .. Len(latencies[m])
                 PROVE  /\ latencies[m][k] \in totalWarmup + k - doubled ..
                                         totalWarmup + k + lost + reader.exceptions
                        /\ k > 1 => /\ latencies[m][k - 1] <= latencies[m][k]
                                    /\ doubled = 0 => latencies[m][k - 1] < latencies[m][k]
        BY DEF MeasuresTheRun
    <2>1. /\ totalWarmup + k <= latencies[m][k] + doubled
          /\ latencies[m][k] <= totalWarmup + k + reader.exceptions + lost
          /\ \A j \in 1 .. k - 1 : Ordered(latencies[m][j], latencies[m][k])
        BY DEF IInv, Recorded, RecordedOf
    <2>2. /\ latencies[m][k] \in Nat /\ k \in Nat /\ totalWarmup \in Nat
          /\ reader.exceptions \in Nat /\ lost \in Nat /\ doubled \in Nat
        <3>1. totalWarmup \in Nat
            BY ConfigFacts DEF IInv
        <3>2. latencies[m] \in Seq(Nat) /\ reader \in ReaderStates
              /\ lost \in Nat /\ doubled \in Nat
            BY DEF IInv, Types
        <3> QED
            BY <3>1, <3>2
    <2>3. k > 1 => /\ latencies[m][k - 1] <= latencies[m][k]
                   /\ doubled = 0 => latencies[m][k - 1] < latencies[m][k]
        <3>1. k > 1 => k - 1 \in 1 .. k - 1
            BY <2>2
        <3> QED
            BY <2>1, <3>1 DEF Ordered
    <2>4. latencies[m][k] \in totalWarmup + k - doubled ..
                               totalWarmup + k + lost + reader.exceptions
        BY <2>1, <2>2
    <2> QED
        BY <2>3, <2>4
<1> QED
    BY <1>1, InvariantHolds, PTL

(* Whatever the benchmark, no more latencies are recorded than there is    *)
(* room for, and an observer fails only on a doubled update, after the     *)
(* reader was told that it is done.                                        *)
THEOREM ObserversFailLate == Spec => []SurplusAfterDone
<1>1. IInv => SurplusAfterDone
    <2> SUFFICES ASSUME IInv, NEW m \in Maps
                 PROVE  /\ Len(latencies[m]) <= config.writes
                        /\ observer[m].failed => observer[m].done /\ doubled > 0
        BY DEF SurplusAfterDone
    <2>1. observer[m].failed => observer[m].done /\ doubled > 0
        BY DEF IInv, ObserverFits
    <2> DEFINE l == Len(latencies[m])
    <2>2. l \in Nat /\ observer[m].offset \in Nat /\ totalWarmup \in Nat
          /\ config.writes \in Nat /\ totalExpected = totalWarmup + config.writes
        <3>1. /\ totalWarmup \in Nat /\ config.writes \in Nat
              /\ totalExpected = totalWarmup + config.writes
            BY ConfigFacts DEF IInv
        <3>2. latencies \in [Maps -> Seq(Nat)] /\ observer \in [Maps -> ObserverStates]
            BY DEF IInv, Types
        <3> QED
            BY <3>1, <3>2
    <2>3. CASE Single
        <3>1. m = 1
            BY <2>3, ConfigFacts DEF IInv, Maps
        <3> QED
            BY <2>1, <2>3, <3>1 DEF IInv, ReaderFits
    <2>4. CASE ~Single
        <3>1. /\ observer[m].offset <= totalExpected
              /\ l = IF observer[m].offset <= totalWarmup THEN 0
                     ELSE observer[m].offset - totalWarmup
            BY <2>4 DEF IInv, ObserverFits
        <3> HIDE DEF l
        <3>2. l <= config.writes
            BY <2>2, <3>1
        <3> QED
            BY <2>1, <3>2 DEF l
    <2> QED
        BY <2>1, <2>3, <2>4
<1> QED
    BY <1>1, InvariantHolds, PTL
=============================================================================
