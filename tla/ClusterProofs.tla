--------------------------- MODULE ClusterProofs ---------------------------
(***************************************************************************)
(* Proofs about the participants of a merged map, for every set of keys,   *)
(* owners and values, every ordering of the values, and any number of      *)
(* messages, compactions, lost sends, shutdowns and crashes: what a        *)
(* replica holds of the topic, what it exposes of what it holds, and what  *)
(* it never goes back to.                                                  *)
(***************************************************************************)
EXTENDS MergedMapCluster, WinnerTheorems, SequenceTheorems, NaturalsInduction

-----------------------------------------------------------------------------
(* The inductive invariant.                                                *)

Opening == {"down", "creating", "connecting", "failed"}
Open    == {"consuming", "closing", "closed"}

\* The types of the state that the proofs speak about, and the offsets lie in
\* the topic.
TypeOK ==
  /\ log \in Seq(Messages \cup {Compacted})
  /\ bus \in [Owners -> Opening \cup Open]
  /\ mapped \in [Owners -> BOOLEAN]
  /\ committed \in [Owners -> Nat]
  /\ position \in [Owners -> Nat]
  /\ joined \in [Owners -> Nat]
  /\ \A o \in Owners : committed[o] <= Len(log) /\ position[o] <= Len(log)
  /\ sending \in [Owners -> Seq(Messages)]
  /\ inbox \in [Owners -> Seq(Messages)]
  /\ intent \in [Owners -> Winners]
  /\ clock \in [Owners -> Values \cup {Null}]
  /\ crashes \in Nat /\ lost \in Nat
  /\ cache \in [Owners -> Caches]
  /\ winners \in [Owners -> Winners]

\* A bus whose map has not subscribed to it has given the map nothing.
NothingBeforeMapped ==
  \A o \in Owners :
    /\ bus[o] \in Opening => ~mapped[o]
    /\ ~mapped[o] => inbox[o] = <<>> /\ cache[o] = EmptyMap /\ winners[o] = EmptyMap
    /\ mapped[o] => joined[o] <= position[o]

\* A producer sends the opinions of its own owner.
SendsOwnOpinions ==
  \A o \in Owners : \A i \in 1..Len(sending[o]) : sending[o][i].owner = o

\* An entry of the topic, or of a queue, is a message on this key of this owner.
IsAbout(c, k, o) == c # Compacted /\ c.key = k /\ c.owner = o

\* Whoever reads these entries in order, and starts from the opinion `first',
\* ends with the opinion `last'.
Ends(entries, k, o, first, last) ==
  \/ /\ \A i \in 1..Len(entries) : ~IsAbout(entries[i], k, o)
     /\ last = first
  \/ \E i \in 1..Len(entries) :
       /\ IsAbout(entries[i], k, o)
       /\ \A j \in i + 1 .. Len(entries) : ~IsAbout(entries[j], k, o)
       /\ last = entries[i].value

\* The opinion a replica is to hold when it has come to the end of the topic.
SinceJoined(r, k, o) ==
  IF \E i \in OffsetsOf(k, o) : i > joined[r] THEN Latest(k, o) ELSE Null

\* A replica whose consumer has no message of the owner on the key ahead of it
\* ends, when it has handled its inbox, with the opinion it is to hold.
InboxLeadsToTopic ==
  \A r \in Owners : mapped[r] => \A k \in Keys, o \in Owners :
    (\A i \in OffsetsOf(k, o) : i <= position[r])
      => Ends(inbox[r], k, o, Held(r, k, o), SinceJoined(r, k, o))

\* The opinion the application of an owner last asked for.
Asked(o, k) == IF k \in DOMAIN intent[o] THEN intent[o][k] ELSE Null

\* Up to the first loss, the topic and the queue of the producer end with what
\* the application last asked for.
SendingLeadsToIntent ==
  lost = 0 /\ crashes = 0 =>
    \A o \in Owners, k \in Keys :
      Ends(sending[o], k, o, Latest(k, o), Asked(o, k))

\* The barriers, up to the first crash: nobody publishes before all have opened
\* the map, so that everybody starts at the beginning of the topic.
AllJoinAtStart ==
  Barriered /\ crashes = 0 =>
    /\ \A o \in Owners : joined[o] = 0
    /\ (\E o \in Owners : ~mapped[o]) =>
         log = <<>> /\ \A o \in Owners : sending[o] = <<>>

\* The value y does not go back behind x.
NotBehind(y, x) == x # Null /\ y # Null => crStrategy(y, x) >= 0

\* The opinions of an owner, on whatever key, keep their order in the topic,
TopicOrdered(o) ==
  \A i, j \in 1..Len(log) :
    /\ log[i] # Compacted /\ log[i].owner = o
    /\ log[j] # Compacted /\ log[j].owner = o
    /\ i < j
    => NotBehind(log[j].value, log[i].value)

\* in the queue of its producer,
QueueOrdered(o) ==
  \A i, j \in 1..Len(sending[o]) :
    i < j => NotBehind(sending[o][j].value, sending[o][i].value)

\* from the topic to the queue,
QueueAheadOfTopic(o) ==
  \A i \in 1..Len(sending[o]) : \A j \in 1..Len(log) :
    log[j] # Compacted /\ log[j].owner = o
      => NotBehind(sending[o][i].value, log[j].value)

\* from the queue to the clock,
ClockAheadOfQueue(o) ==
  \A i \in 1..Len(sending[o]) :
    sending[o][i].value # Null
      => clock[o] # Null /\ NotBehind(clock[o], sending[o][i].value)

\* and from the topic to the clock.
ClockAheadOfTopic(o) ==
  \A j \in 1..Len(log) :
    log[j] # Compacted /\ log[j].owner = o /\ log[j].value # Null
      => clock[o] # Null /\ NotBehind(clock[o], log[j].value)

\* The opinions of an owner keep their order all the way from its clock through
\* its producer and the topic...
OrderedInTopic ==
  \A o \in Owners : /\ TopicOrdered(o) /\ QueueOrdered(o) /\ QueueAheadOfTopic(o)
                    /\ ClockAheadOfQueue(o) /\ ClockAheadOfTopic(o)

\* Nothing of the owner that is still to come to the replica is behind v.
AheadOf(r, o, v) ==
  /\ \A j \in position[r] + 1 .. Len(log) :
       log[j] # Compacted /\ log[j].owner = o => NotBehind(log[j].value, v)
  /\ \A j \in 1..Len(sending[o]) : NotBehind(sending[o][j].value, v)
  /\ v # Null => clock[o] # Null /\ NotBehind(clock[o], v)

\* What a replica has in its inbox of an owner,
InboxOrdered(r, o) ==
  \A i \in 1..Len(inbox[r]) : inbox[r][i].owner = o =>
    /\ AheadOf(r, o, inbox[r][i].value)
    /\ \A j \in 1..Len(inbox[r]) : inbox[r][j].owner = o /\ i < j
         => NotBehind(inbox[r][j].value, inbox[r][i].value)

\* and in its cache, is in order.
CacheOrdered(r, o) ==
  \A k \in Keys :
    /\ AheadOf(r, o, Held(r, k, o))
    /\ \A j \in 1..Len(inbox[r]) : inbox[r][j].owner = o
         => NotBehind(inbox[r][j].value, Held(r, k, o))

\* ...to the inbox and the cache of a replica.
OrderedAtReplica == \A r, o \in Owners : InboxOrdered(r, o) /\ CacheOrdered(r, o)

-----------------------------------------------------------------------------
(* Reading entries in order.                                               *)

\* An entry on a key of an owner is a message.
LEMMA AboutIsMessage ==
  ASSUME NEW c \in Messages \cup {Compacted}, NEW k, NEW o, IsAbout(c, k, o)
  PROVE  c \in Messages
BY DEF IsAbout

\* Nothing is read from an empty queue.
LEMMA EndsOfNothing ==
  ASSUME NEW k, NEW o, NEW first, NEW last
  PROVE  Ends(<<>>, k, o, first, last) <=> last = first
BY DEF Ends

\* A new entry is the last one read.
LEMMA EndsAppend ==
  ASSUME NEW T, NEW s \in Seq(T), NEW m \in T, NEW k, NEW o, NEW first, NEW last,
         Ends(s, k, o, first, last)
  PROVE  Ends(Append(s, m), k, o, first,
              IF IsAbout(m, k, o) THEN m.value ELSE last)
<1> DEFINE t == Append(s, m)
<1>1. Len(t) = Len(s) + 1 /\ t[Len(s) + 1] = m /\ Len(s) \in Nat
  OBVIOUS
<1>2. \A i \in 1..Len(s) : t[i] = s[i]
  OBVIOUS
<1> HIDE DEF t
<1>3. CASE IsAbout(m, k, o)
  <2>1. Len(s) + 1 \in 1..Len(t) /\ \A j \in Len(s) + 2 .. Len(t) : FALSE
    BY <1>1
  <2>2. /\ IsAbout(t[Len(s) + 1], k, o)
        /\ \A j \in (Len(s) + 1) + 1 .. Len(t) : ~IsAbout(t[j], k, o)
    BY <1>1, <1>3, <2>1
  <2>3. Ends(t, k, o, first, m.value)
    BY <1>1, <2>1, <2>2 DEF Ends
  <2> QED
    BY <1>3, <2>3 DEF t
<1>4. CASE ~IsAbout(m, k, o)
  <2>1. ASSUME \A i \in 1..Len(s) : ~IsAbout(s[i], k, o), last = first
        PROVE  Ends(t, k, o, first, last)
    <3>1. \A i \in 1..Len(t) : ~IsAbout(t[i], k, o)
      BY <1>1, <1>2, <1>4, <2>1
    <3> QED
      BY <2>1, <3>1 DEF Ends
  <2>2. ASSUME NEW i \in 1..Len(s), IsAbout(s[i], k, o),
               \A j \in i + 1 .. Len(s) : ~IsAbout(s[j], k, o),
               last = s[i].value
        PROVE  Ends(t, k, o, first, last)
    <3>1. \A j \in i + 1 .. Len(t) : ~IsAbout(t[j], k, o)
      <4> SUFFICES ASSUME NEW j \in i + 1 .. Len(t) PROVE ~IsAbout(t[j], k, o)
        OBVIOUS
      <4>1. CASE j = Len(s) + 1
        BY <1>1, <1>4, <4>1
      <4>2. CASE j # Len(s) + 1
        <5>1. j \in i + 1 .. Len(s) /\ j \in 1..Len(s)
          BY <1>1, <4>2
        <5> QED
          BY <1>2, <2>2, <5>1
      <4> QED
        BY <4>1, <4>2
    <3>2. i \in 1..Len(t) /\ t[i] = s[i]
      BY <1>1, <1>2
    <3> QED
      BY <2>2, <3>1, <3>2 DEF Ends
  <2>3. Ends(t, k, o, first, last)
    BY <2>1, <2>2 DEF Ends
  <2> QED
    BY <1>4, <2>3 DEF t
<1> QED
  BY <1>3, <1>4

\* When the oldest entry has been handled, the others lead to the same end.
LEMMA EndsTail ==
  ASSUME NEW T, NEW s \in Seq(T), s # <<>>, NEW k, NEW o, NEW first, NEW last,
         Ends(s, k, o, first, last)
  PROVE  Ends(Tail(s), k, o,
              IF IsAbout(Head(s), k, o) THEN Head(s).value ELSE first, last)
<1> DEFINE t == Tail(s)
           n == IF IsAbout(Head(s), k, o) THEN Head(s).value ELSE first
<1>1. Len(s) \in Nat /\ Len(s) >= 1 /\ Head(s) = s[1] /\ Len(t) = Len(s) - 1
  BY EmptySeq
<1>2. \A i \in 1..Len(t) : t[i] = s[i + 1]
  OBVIOUS
<1> HIDE DEF t
<1>3. CASE (\A i \in 1..Len(s) : ~IsAbout(s[i], k, o)) /\ last = first
  <2>1. \A i \in 1..Len(t) : ~IsAbout(t[i], k, o)
    <3> SUFFICES ASSUME NEW i \in 1..Len(t) PROVE ~IsAbout(t[i], k, o)
      OBVIOUS
    <3>1. i + 1 \in 1..Len(s)
      BY <1>1
    <3> QED
      BY <1>2, <1>3, <3>1
  <2>2. ~IsAbout(Head(s), k, o)
    BY <1>1, <1>3
  <2> QED
    BY <1>3, <2>1, <2>2 DEF Ends, t
<1>4. ASSUME NEW i \in 1..Len(s), IsAbout(s[i], k, o),
             \A j \in i + 1 .. Len(s) : ~IsAbout(s[j], k, o),
             last = s[i].value
      PROVE  Ends(t, k, o, n, last)
  <2>1. CASE i = 1
    <3>1. \A j \in 1..Len(t) : ~IsAbout(t[j], k, o)
      <4> SUFFICES ASSUME NEW j \in 1..Len(t) PROVE ~IsAbout(t[j], k, o)
        OBVIOUS
      <4>1. j + 1 \in i + 1 .. Len(s)
        BY <1>1, <2>1
      <4> QED
        BY <1>2, <1>4, <4>1
    <3>2. last = n
      BY <1>1, <1>4, <2>1
    <3> QED
      BY <3>1, <3>2 DEF Ends
  <2>2. CASE i # 1
    <3>1. i - 1 \in 1..Len(t) /\ t[i - 1] = s[i]
      <4>1. i - 1 \in 1..Len(t) /\ (i - 1) + 1 = i
        BY <1>1, <2>2
      <4> QED
        BY <1>2, <4>1
    <3>2. \A j \in (i - 1) + 1 .. Len(t) : ~IsAbout(t[j], k, o)
      <4> SUFFICES ASSUME NEW j \in (i - 1) + 1 .. Len(t) PROVE ~IsAbout(t[j], k, o)
        OBVIOUS
      <4>1. j + 1 \in i + 1 .. Len(s) /\ j \in 1..Len(t)
        BY <1>1, <2>2
      <4> QED
        BY <1>2, <1>4, <4>1
    <3> QED
      BY <1>4, <3>1, <3>2 DEF Ends
  <2> QED
    BY <2>1, <2>2
<1> QED
  BY <1>3, <1>4 DEF Ends, t

-----------------------------------------------------------------------------
(* The topic.                                                              *)

\* A non-empty set of offsets has a last one.
LEMMA LastOffset ==
  ASSUME NEW n \in Nat, NEW S \in SUBSET (1..n), S # {}
  PROVE  \E i \in S : \A j \in S : j <= i
<1> DEFINE R == {d \in Nat : n - d \in S}
           Less == OpToRel(<, Nat)
<1>1. \A x, y \in Nat : <<y, x>> \in Less <=> y < x
  BY DEF OpToRel
<1>2. IsWellFoundedOn(Less, Nat)
  BY NatLessThanWellFounded
<1>3. R # {}
  <2>1. PICK i \in S : TRUE
    OBVIOUS
  <2>2. n - i \in Nat /\ n - (n - i) = i
    BY <2>1
  <2> QED
    BY <2>1, <2>2
<1> HIDE DEF Less
<1>4. PICK d \in R : \A e \in R : ~(<<e, d>> \in Less)
  BY <1>2, <1>3, WFMin
<1>5. ASSUME NEW j \in S PROVE j <= n - d
  <2>1. n - j \in Nat /\ n - (n - j) = j /\ d \in Nat
    BY <1>4
  <2>2. n - j \in R
    BY <2>1
  <2>3. ~(n - j < d)
    BY <1>1, <1>4, <2>1, <2>2
  <2> QED
    BY <2>1, <2>3
<1>6. n - d \in S
  BY <1>4
<1> QED
  BY <1>5, <1>6

\* The offsets of the messages on a key of an owner.
LEMMA OffsetsAbout ==
  ASSUME NEW k, NEW o
  PROVE  OffsetsOf(k, o) = {i \in 1..Len(log) : IsAbout(log[i], k, o)}
BY DEF OffsetsOf, IsAbout

\* The latest opinion in the topic is the value at the last offset.
LEMMA LatestIsLast ==
  ASSUME NEW k, NEW o, NEW i \in OffsetsOf(k, o),
         \A j \in OffsetsOf(k, o) : j <= i
  PROVE  Latest(k, o) = log[i].value
<1>1. \A a \in OffsetsOf(k, o) : (\A j \in OffsetsOf(k, o) : j <= a) => a = i
  BY DEF OffsetsOf
<1> QED
  BY <1>1 DEF Latest

\* The latest opinion is what a reader of the whole topic ends with.
LEMMA LatestEnds ==
  ASSUME NEW k, NEW o, log \in Seq(Messages \cup {Compacted})
  PROVE  Ends(log, k, o, Null, Latest(k, o))
<1>1. CASE OffsetsOf(k, o) = {}
  BY <1>1, OffsetsAbout DEF Ends, Latest
<1>2. CASE OffsetsOf(k, o) # {}
  <2>1. Len(log) \in Nat /\ OffsetsOf(k, o) \in SUBSET (1..Len(log))
    BY DEF OffsetsOf
  <2>2. PICK i \in OffsetsOf(k, o) : \A j \in OffsetsOf(k, o) : j <= i
    BY <1>2, <2>1, LastOffset
  <2>3. i \in 1..Len(log) /\ IsAbout(log[i], k, o)
    BY <2>2, OffsetsAbout
  <2>4. \A j \in i + 1 .. Len(log) : ~IsAbout(log[j], k, o)
    <3> SUFFICES ASSUME NEW j \in i + 1 .. Len(log), IsAbout(log[j], k, o)
                 PROVE  FALSE
      OBVIOUS
    <3>1. j \in 1..Len(log) /\ ~(j <= i)
      BY <2>3
    <3> QED
      BY <2>2, <3>1, OffsetsAbout
  <2>5. Latest(k, o) = log[i].value
    BY <2>2, LatestIsLast
  <2> QED
    BY <2>3, <2>4, <2>5 DEF Ends
<1> QED
  BY <1>1, <1>2

\* What the brokers append becomes the latest opinion of its owner on its key,
\* and changes no other.
LEMMA LatestAfterAppend ==
  ASSUME NEW k, NEW o, log \in Seq(Messages \cup {Compacted}),
         NEW m \in Messages, log' = Append(log, m)
  PROVE  /\ OffsetsOf(k, o)' = IF IsAbout(m, k, o)
                               THEN OffsetsOf(k, o) \cup {Len(log) + 1}
                               ELSE OffsetsOf(k, o)
         /\ Latest(k, o)' = IF IsAbout(m, k, o) THEN m.value ELSE Latest(k, o)
<1>1. /\ Len(log) \in Nat /\ Len(log') = Len(log) + 1 /\ log'[Len(log) + 1] = m
      /\ \A i \in 1..Len(log) : log'[i] = log[i]
  OBVIOUS
<1>2. OffsetsOf(k, o)' = {i \in 1..Len(log') : IsAbout(log'[i], k, o)}
  BY DEF OffsetsOf, IsAbout
<1>3. OffsetsOf(k, o)' = IF IsAbout(m, k, o)
                         THEN OffsetsOf(k, o) \cup {Len(log) + 1}
                         ELSE OffsetsOf(k, o)
  BY <1>1, <1>2, OffsetsAbout
<1>4. CASE IsAbout(m, k, o)
  <2>1. /\ Len(log) + 1 \in OffsetsOf(k, o)'
        /\ \A j \in OffsetsOf(k, o)' : j <= Len(log) + 1
    BY <1>1, <1>2, <1>4
  <2>2. \A a \in OffsetsOf(k, o)' :
          (\A j \in OffsetsOf(k, o)' : j <= a) => a = Len(log) + 1
    BY <1>1, <1>2, <2>1
  <2> QED
    BY <1>1, <1>3, <1>4, <2>1, <2>2 DEF Latest
<1>5. CASE ~IsAbout(m, k, o)
  <2>1. OffsetsOf(k, o)' = OffsetsOf(k, o)
    BY <1>3, <1>5
  <2>2. CASE OffsetsOf(k, o) = {}
    BY <1>5, <2>1, <2>2 DEF Latest
  <2>3. CASE OffsetsOf(k, o) # {}
    <3>1. OffsetsOf(k, o) \in SUBSET (1..Len(log))
      BY DEF OffsetsOf
    <3>2. PICK i \in OffsetsOf(k, o) : \A j \in OffsetsOf(k, o) : j <= i
      BY <1>1, <2>3, <3>1, LastOffset
    <3>3. \A a \in OffsetsOf(k, o) : (\A j \in OffsetsOf(k, o) : j <= a) => a = i
      BY <3>1, <3>2
    <3>4. log'[i] = log[i]
      BY <1>1, <3>1
    <3>5. Latest(k, o)' = log'[i].value
      BY <2>1, <2>3, <3>2, <3>3 DEF Latest
    <3>6. Latest(k, o) = log[i].value
      BY <3>2, LatestIsLast
    <3> QED
      BY <1>3, <1>5, <3>4, <3>5, <3>6
  <2> QED
    BY <2>2, <2>3
<1> QED
  BY <1>3, <1>4, <1>5

\* Compaction takes no last message away: the offsets of a key and an owner reach
\* as far as before, and their latest opinion stays.
LEMMA LatestAfterCompaction ==
  ASSUME NEW k, NEW o, log \in Seq(Messages \cup {Compacted}),
         NEW i \in DOMAIN log, compact(i)
  PROVE  /\ OffsetsOf(k, o)' \subseteq OffsetsOf(k, o)
         /\ \A n \in Nat : (\E j \in OffsetsOf(k, o)' : j > n)
                             <=> (\E j \in OffsetsOf(k, o) : j > n)
         /\ Latest(k, o)' = Latest(k, o)
<1>1. /\ Len(log) \in Nat /\ i \in 1..Len(log) /\ DOMAIN log = 1..Len(log)
      /\ log' = [log EXCEPT ![i] = Compacted]
  BY DEF compact
<1>2. /\ Len(log') = Len(log) /\ log'[i] = Compacted
      /\ \A j \in 1..Len(log) \ {i} : log'[j] = log[j]
  BY <1>1
<1>3. OffsetsOf(k, o)' = OffsetsOf(k, o) \ {i}
  <2>1. OffsetsOf(k, o)' = {j \in 1..Len(log') : IsAbout(log'[j], k, o)}
    BY DEF OffsetsOf, IsAbout
  <2>2. ~IsAbout(log'[i], k, o)
    BY <1>2 DEF IsAbout
  <2> QED
    BY <1>1, <1>2, <2>1, <2>2, OffsetsAbout
<1>4. i \in OffsetsOf(k, o) => \E j \in OffsetsOf(k, o) : j > i
  <2> SUFFICES ASSUME i \in OffsetsOf(k, o) PROVE \E j \in OffsetsOf(k, o) : j > i
    OBVIOUS
  <2>1. PICK j \in i + 1 .. Len(log) : log[j] # Compacted /\ SameKafkaKey(log[i], log[j])
    BY DEF compact
  <2>2. j \in 1..Len(log) /\ j > i
    BY <1>1, <2>1
  <2>3. IsAbout(log[j], k, o)
    BY <2>1 DEF OffsetsOf, SameKafkaKey, IsAbout
  <2> QED
    BY <2>2, <2>3, OffsetsAbout
<1>5. OffsetsOf(k, o) \in SUBSET (1..Len(log))
  BY DEF OffsetsOf
<1>6. CASE OffsetsOf(k, o) = {}
  <2>1. OffsetsOf(k, o)' = {}
    BY <1>3, <1>6
  <2> QED
    BY <1>6, <2>1 DEF Latest
<1>7. CASE OffsetsOf(k, o) # {}
  <2>1. PICK a \in OffsetsOf(k, o) : \A j \in OffsetsOf(k, o) : j <= a
    BY <1>1, <1>5, <1>7, LastOffset
  <2>2. a # i /\ a \in 1..Len(log)
    BY <1>1, <1>4, <1>5, <2>1
  <2>3. a \in OffsetsOf(k, o)' /\ \A j \in OffsetsOf(k, o)' : j <= a
    BY <1>3, <2>1, <2>2
  <2>4. \A b \in OffsetsOf(k, o)' : (\A j \in OffsetsOf(k, o)' : j <= b) => b = a
    BY <1>3, <1>5, <2>2, <2>3
  <2>5. Latest(k, o)' = log'[a].value
    BY <2>3, <2>4 DEF Latest
  <2>6. Latest(k, o)' = Latest(k, o)
    BY <1>2, <2>1, <2>2, <2>5, LatestIsLast
  <2>7. ASSUME NEW n \in Nat, NEW j \in OffsetsOf(k, o), j > n
        PROVE  \E b \in OffsetsOf(k, o)' : b > n
    <3>1. a > n
      BY <1>5, <2>1, <2>2, <2>7
    <3> QED
      BY <2>3, <3>1
  <2> QED
    BY <1>3, <2>6, <2>7
<1> QED
  BY <1>6, <1>7

-----------------------------------------------------------------------------
(* A handler, as a function of the replica it meets.                       *)

\* The opinion of an owner on a key in a cache.
OpinionIn(c, k, o) ==
  IF o \in DOMAIN OpinionsOn(c, k) THEN OpinionsOn(c, k)[o] ELSE Null

\* What a replica holds is what its cache holds.
LEMMA HeldInCache ==
  ASSUME NEW r, NEW k, NEW o
  PROVE  Held(r, k, o) = OpinionIn(cache[r], k, o)
BY DEF Held, OpinionIn

\* A cache holds values.
LEMMA OpinionInType ==
  ASSUME NEW c \in Caches, NEW k \in Keys, NEW o
  PROVE  OpinionIn(c, k, o) \in Values \cup {Null}
<1>1. OpinionsOn(c, k) \in Opinions
  BY OpinionsOnType
<1>2. \A x \in DOMAIN OpinionsOn(c, k) : OpinionsOn(c, k)[x] \in Values
  BY <1>1, MapOfElim DEF Opinions
<1> QED
  BY <1>2 DEF OpinionIn

\* An empty cache holds nothing.
LEMMA NothingInEmptyCache ==
  ASSUME NEW k, NEW o
  PROVE  OpinionIn(EmptyMap, k, o) = Null
<1>1. DOMAIN EmptyMap = {}
  BY DEF EmptyMap
<1> QED
  BY <1>1 DEF OpinionIn, OpinionsOn

\* The winners of an empty cache.
LEMMA NothingResolved ==
  Resolved(EmptyMap) = EmptyMap
<1>1. DOMAIN EmptyMap = {}
  BY DEF EmptyMap
<1>2. Opinioned(EmptyMap) = {}
  BY <1>1 DEF Opinioned, OpinionsOn
<1> QED
  BY <1>2 DEF Resolved, EmptyMap

\* onOpinionAddition records the opinion and touches no other.
LEMMA AfterAddition ==
  ASSUME NEW c \in Caches, NEW w, NEW m \in Messages, m.value # Null
  PROVE  /\ Addition(c, w, m).cache \in Caches
         /\ \A k \in Keys, o \in Owners :
              OpinionIn(Addition(c, w, m).cache, k, o) =
                IF k = m.key /\ o = m.owner THEN m.value ELSE OpinionIn(c, k, o)
<1> DEFINE d == WithOpinion(c, m.key, m.value, m.owner)
           op == OpinionsOn(c, m.key)
<1>1. m.key \in Keys /\ m.value \in Values /\ m.owner \in Owners
  BY DEF Messages
<1>2. Addition(c, w, m).cache = d
  BY DEF Addition
<1>3. /\ d \in Caches
      /\ OpinionsOn(d, m.key) = Put(op, m.owner, m.value)
      /\ \A x \in Keys \ {m.key} : OpinionsOn(d, x) = OpinionsOn(c, x)
  BY <1>1, WithOpinionCache
<1>4. op \in Opinions
  BY <1>1, OpinionsOnType
<1>5. /\ DOMAIN Put(op, m.owner, m.value) = DOMAIN op \cup {m.owner}
      /\ Put(op, m.owner, m.value)[m.owner] = m.value
      /\ \A x \in DOMAIN op \ {m.owner} : Put(op, m.owner, m.value)[x] = op[x]
  BY DEF Put
<1> HIDE DEF d
<1>6. ASSUME NEW k \in Keys, NEW o \in Owners
      PROVE  OpinionIn(d, k, o) =
               IF k = m.key /\ o = m.owner THEN m.value ELSE OpinionIn(c, k, o)
  <2>1. CASE k # m.key
    BY <1>3, <2>1 DEF OpinionIn
  <2>2. CASE k = m.key
    BY <1>3, <1>5, <2>2 DEF OpinionIn
  <2> QED
    BY <2>1, <2>2
<1> QED
  BY <1>2, <1>3, <1>6

\* onOpinionRemoval forgets the opinion and touches no other.
LEMMA AfterRemoval ==
  ASSUME NEW c \in Caches, NEW w, NEW m \in Messages
  PROVE  /\ Removal(c, w, m).cache \in Caches
         /\ \A k \in Keys, o \in Owners :
              OpinionIn(Removal(c, w, m).cache, k, o) =
                IF k = m.key /\ o = m.owner THEN Null ELSE OpinionIn(c, k, o)
<1>1. m.key \in Keys /\ m.owner \in Owners
  BY DEF Messages
<1>2. CASE m.key \notin DOMAIN c
  <2>1. Removal(c, w, m).cache = c
    BY <1>2 DEF Removal
  <2>2. \A o : OpinionIn(c, m.key, o) = Null
    BY <1>2 DEF OpinionIn, OpinionsOn, EmptyMap
  <2> QED
    BY <2>1, <2>2
<1>3. CASE m.key \in DOMAIN c
  <2> DEFINE d == WithoutOpinion(c, m.key, m.owner)
             op == c[m.key]
  <2>1. Removal(c, w, m).cache = d
    BY <1>3 DEF Removal
  <2>2. /\ d \in Caches
        /\ OpinionsOn(c, m.key) = op
        /\ OpinionsOn(d, m.key) = Drop(op, m.owner)
        /\ \A x \in Keys \ {m.key} : OpinionsOn(d, x) = OpinionsOn(c, x)
    BY <1>1, <1>3, WithoutOpinionCache
  <2>3. /\ DOMAIN Drop(op, m.owner) = DOMAIN op \ {m.owner}
        /\ \A x \in DOMAIN op \ {m.owner} : Drop(op, m.owner)[x] = op[x]
    BY DEF Drop
  <2> HIDE DEF d
  <2>4. ASSUME NEW k \in Keys, NEW o \in Owners
        PROVE  OpinionIn(d, k, o) =
                 IF k = m.key /\ o = m.owner THEN Null ELSE OpinionIn(c, k, o)
    <3>1. CASE k # m.key
      BY <2>2, <3>1 DEF OpinionIn
    <3>2. CASE k = m.key
      BY <2>2, <2>3, <3>2 DEF OpinionIn
    <3> QED
      BY <3>1, <3>2
  <2> QED
    BY <2>1, <2>2, <2>4
<1> QED
  BY <1>2, <1>3

\* When the winners are resolved and the added opinion does not go back behind
\* the one its owner had, onOpinionAddition leaves the winners resolved.
LEMMA AdditionResolves ==
  ASSUME NEW c \in Caches, NEW m \in Messages, m.value # Null,
         NotBehind(m.value, OpinionIn(c, m.key, m.owner))
  PROVE  LET a == Addition(c, Resolved(c), m) IN a.winners = Resolved(a.cache)
<1> DEFINE d == WithOpinion(c, m.key, m.value, m.owner)
           op == OpinionsOn(c, m.key)
           new == Put(op, m.owner, m.value)
           w == IF AdditionWins(c, m.key, m.value, m.owner)
                THEN Put(Resolved(c), m.key, m.value) ELSE Resolved(c)
<1>1. m.key \in Keys /\ m.value \in Values /\ m.owner \in Owners
  BY DEF Messages
<1>2. Addition(c, Resolved(c), m).cache = d /\ Addition(c, Resolved(c), m).winners = w
  BY DEF Addition
<1>3. /\ OpinionsOn(d, m.key) = new
      /\ \A x \in Keys \ {m.key} : OpinionsOn(d, x) = OpinionsOn(c, x)
      /\ Opinioned(d) = Opinioned(c) \cup {m.key}
  BY <1>1, WithOpinionCache
<1>4. op \in Opinions
  BY <1>1, OpinionsOnType
<1>5. AdditionWins(c, m.key, m.value, m.owner) <=> winningPair(new) = <<m.owner, m.value>>
  BY <1>3 DEF AdditionWins
<1>6. CASE winningPair(new) = <<m.owner, m.value>>
  <2>1. w = Put(Resolved(c), m.key, m.value) /\ winningPair(new)[2] = m.value
    BY <1>5, <1>6
  <2>2. w = [x \in Opinioned(c) \cup {m.key} |->
               IF x = m.key THEN m.value ELSE winningPair(OpinionsOn(c, x))[2]]
    BY <2>1 DEF Put, Resolved
  <2>3. \A x \in Opinioned(d) : winningPair(OpinionsOn(d, x))[2] =
          IF x = m.key THEN m.value ELSE winningPair(OpinionsOn(c, x))[2]
    BY <1>3, <2>1 DEF Opinioned
  <2> HIDE DEF d, w
  <2>4. w = Resolved(d)
    BY <1>3, <2>2, <2>3 DEF Resolved
  <2> QED
    BY <1>2, <2>4
<1>7. CASE winningPair(new) # <<m.owner, m.value>>
  <2>1. w = Resolved(c)
    BY <1>5, <1>7
  <2>2. m.owner \in DOMAIN op => crStrategy(m.value, op[m.owner]) >= 0
    <3> SUFFICES ASSUME m.owner \in DOMAIN op PROVE crStrategy(m.value, op[m.owner]) >= 0
      OBVIOUS
    <3>1. op[m.owner] \in Values
      BY <1>4, MapOfElim DEF Opinions
    <3> QED
      BY <1>1, <3>1, NullAssumption DEF NotBehind, OpinionIn
  <2>3. winningPair(new) = winningPair(op)
    BY <1>1, <1>4, <1>7, <2>2, MonotoneLosingAddition
  <2>4. m.key \in Opinioned(c)
    <3>1. winningOwner(new) \in DOMAIN op
      BY <1>1, <1>4, <1>7, LosingAddition
    <3> QED
      BY <1>1, <3>1 DEF Opinioned
  <2>5. Opinioned(d) = Opinioned(c)
    BY <1>3, <2>4
  <2>6. \A x \in Opinioned(c) :
          winningPair(OpinionsOn(d, x))[2] = winningPair(OpinionsOn(c, x))[2]
    BY <1>3, <2>3 DEF Opinioned
  <2> HIDE DEF d, w
  <2>7. w = Resolved(d)
    BY <2>1, <2>5, <2>6 DEF Resolved
  <2> QED
    BY <1>2, <2>7
<1> QED
  BY <1>6, <1>7

\* onOpinionRemoval leaves resolved winners resolved.
LEMMA RemovalResolves ==
  ASSUME NEW c \in Caches, NEW m \in Messages
  PROVE  LET a == Removal(c, Resolved(c), m) IN a.winners = Resolved(a.cache)
<1>1. m.key \in Keys /\ m.owner \in Owners
  BY DEF Messages
<1>2. CASE m.key \notin DOMAIN c
  BY <1>2 DEF Removal
<1>3. CASE m.key \in DOMAIN c
  <2> DEFINE d == WithoutOpinion(c, m.key, m.owner)
             op == c[m.key]
             new == Drop(op, m.owner)
             nv == winningPair(new)[2]
             w == IF RemovalChangesWinner(c, m.key, m.owner)
                  THEN PutOrRemove(Resolved(c), m.key, nv) ELSE Resolved(c)
  <2>1. Removal(c, Resolved(c), m).cache = d /\ Removal(c, Resolved(c), m).winners = w
    BY <1>3 DEF Removal
  <2>2. /\ OpinionsOn(c, m.key) = op
        /\ OpinionsOn(d, m.key) = new
        /\ new \in Opinions
        /\ \A x \in Keys \ {m.key} : OpinionsOn(d, x) = OpinionsOn(c, x)
        /\ Opinioned(d) = IF DOMAIN new = {} THEN Opinioned(c) \ {m.key}
                                             ELSE Opinioned(c)
    BY <1>1, <1>3, WithoutOpinionCache
  <2>3. op \in Opinions
    BY <1>1, <2>2, OpinionsOnType
  <2>4. /\ nv = Null <=> DOMAIN new = {}
        /\ winningPair(op)[2] = Null <=> DOMAIN op = {}
    BY <2>2, <2>3, WinningValue
  <2>5. RemovalChangesWinner(c, m.key, m.owner) <=> winningPair(op) # winningPair(new)
    BY DEF RemovalChangesWinner
  <2>6. (m.key \in Opinioned(c) <=> DOMAIN op # {}) /\ (DOMAIN new # {} => DOMAIN op # {})
    BY <1>1, <2>2 DEF Opinioned, Drop
  <2>7. \A x \in Opinioned(d) \ {m.key} :
          winningPair(OpinionsOn(d, x))[2] = winningPair(OpinionsOn(c, x))[2]
    BY <2>2 DEF Opinioned
  <2> HIDE DEF d, w, nv
  <2>8. CASE winningPair(op) = winningPair(new)
    <3>1. w = Resolved(c)
      BY <2>5, <2>8 DEF w
    <3>2. DOMAIN op = {} <=> DOMAIN new = {}
      BY <2>4, <2>8 DEF nv
    <3>3. Opinioned(d) = Opinioned(c)
      BY <2>2, <2>6, <3>2
    <3>4. \A x \in Opinioned(c) :
            winningPair(OpinionsOn(d, x))[2] = winningPair(OpinionsOn(c, x))[2]
      BY <2>2, <2>7, <2>8, <3>3
    <3>5. w = Resolved(d)
      BY <3>1, <3>3, <3>4 DEF Resolved
    <3> QED
      BY <2>1, <3>5
  <2>9. CASE winningPair(op) # winningPair(new)
    <3>1. w = PutOrRemove(Resolved(c), m.key, nv)
      BY <2>5, <2>9 DEF w
    <3>2. CASE DOMAIN new = {}
      <4>1. w = [x \in Opinioned(c) \ {m.key} |-> winningPair(OpinionsOn(c, x))[2]]
        BY <2>4, <3>1, <3>2 DEF PutOrRemove, Drop, Resolved
      <4>2. Opinioned(d) = Opinioned(c) \ {m.key}
        BY <2>2, <3>2
      <4>3. w = Resolved(d)
        BY <2>7, <4>1, <4>2 DEF Resolved
      <4> QED
        BY <2>1, <4>3
    <3>3. CASE DOMAIN new # {}
      <4>1. m.key \in Opinioned(c) /\ Opinioned(d) = Opinioned(c)
        BY <2>2, <2>6, <3>3
      <4>2. w = Put(Resolved(c), m.key, nv)
        BY <2>4, <3>1, <3>3 DEF PutOrRemove
      <4>3. w = [x \in Opinioned(c) |->
                   IF x = m.key THEN nv ELSE winningPair(OpinionsOn(c, x))[2]]
        BY <4>1, <4>2 DEF Put, Resolved
      <4>4. \A x \in Opinioned(c) : winningPair(OpinionsOn(d, x))[2] =
              IF x = m.key THEN nv ELSE winningPair(OpinionsOn(c, x))[2]
        BY <2>2, <2>7, <4>1 DEF nv
      <4>5. w = Resolved(d)
        BY <4>1, <4>3, <4>4 DEF Resolved
      <4> QED
        BY <2>1, <4>5
    <3> QED
      BY <3>2, <3>3
  <2> QED
    BY <2>8, <2>9
<1> QED
  BY <1>2, <1>3

\* Caches that hold the same opinions resolve to the same winners.
LEMMA SameOpinionsSameWinners ==
  ASSUME NEW c \in Caches, NEW d \in Caches,
         \A k \in Keys, o \in Owners : OpinionIn(c, k, o) = OpinionIn(d, k, o)
  PROVE  Resolved(c) = Resolved(d)
<1>1. ASSUME NEW k \in Keys
      PROVE  OpinionsOn(c, k) = OpinionsOn(d, k)
  <2>1. OpinionsOn(c, k) \in Opinions /\ OpinionsOn(d, k) \in Opinions
    BY OpinionsOnType
  <2>2. /\ DOMAIN OpinionsOn(c, k) \subseteq Owners
        /\ DOMAIN OpinionsOn(d, k) \subseteq Owners
        /\ \A x \in DOMAIN OpinionsOn(c, k) : OpinionsOn(c, k)[x] # Null
        /\ \A x \in DOMAIN OpinionsOn(d, k) : OpinionsOn(d, k)[x] # Null
    BY <2>1, MapOfElim, NullAssumption DEF Opinions
  <2>3. \A o \in Owners : OpinionIn(c, k, o) = OpinionIn(d, k, o)
    OBVIOUS
  <2>4. DOMAIN OpinionsOn(c, k) = DOMAIN OpinionsOn(d, k)
    BY <2>2, <2>3 DEF OpinionIn
  <2>5. \A x \in DOMAIN OpinionsOn(c, k) : OpinionsOn(c, k)[x] = OpinionsOn(d, k)[x]
    BY <2>2, <2>3, <2>4 DEF OpinionIn
  <2> QED
    BY <2>1, <2>4, <2>5, MapEqual DEF Opinions
<1>2. Opinioned(c) = Opinioned(d)
  BY <1>1 DEF Opinioned
<1>3. \A k \in Opinioned(c) : OpinionsOn(c, k) = OpinionsOn(d, k)
  BY <1>1 DEF Opinioned
<1> QED
  BY <1>2, <1>3 DEF Resolved

-----------------------------------------------------------------------------
(* Types.                                                                  *)

\* The invariant that needs no assumption on the clocks and the barriers.
BaseInv == TypeOK /\ NothingBeforeMapped /\ SendsOwnOpinions

\* The steps that leave everything alone but the state of the buses, what they
\* have committed and the counters of the bounds.
BusOnly(o) ==
  topicExists(o) \/ createTopic(o) \/ autoCommit(o) \/ shutdown(o) \/ consumerShutdown(o)

\* What onNext does to the queue of the producer.
LEMMA Publishing ==
  ASSUME NEW o \in Owners, NEW k \in Keys, NEW v \in Values \cup {Null}, onNext(o, k, v)
  PROVE  \E m \in Messages :
           /\ m.key = k /\ m.value = v /\ m.owner = o
           /\ \/ v = Null /\ ~CanEncodeNull /\ sending' = sending
              \/ ~(v = Null /\ ~CanEncodeNull)
                 /\ sending' = [sending EXCEPT ![o] = Append(@, m)]
<1> DEFINE m == [key |-> k, value |-> v, owner |-> o]
<1>1. m \in Messages /\ m.key = k /\ m.value = v /\ m.owner = o
  BY DEF Messages
<1>2. \/ v = Null /\ ~CanEncodeNull /\ sending' = sending
      \/ ~(v = Null /\ ~CanEncodeNull) /\ sending' = [sending EXCEPT ![o] = Append(@, m)]
  BY Zenon DEF onNext
<1> HIDE DEF m
<1> QED
  BY <1>1, <1>2

\* The step of a handler.
LEMMA HandlerStep ==
  ASSUME TypeOK, NEW r \in Owners, onNewOpinion(r)
  PROVE  LET m == Head(inbox[r]) IN
         /\ m \in Messages
         /\ inbox' = [inbox EXCEPT ![r] = Tail(@)]
         /\ \E c \in Caches :
              /\ cache' = [cache EXCEPT ![r] = c]
              /\ \A k \in Keys, o \in Owners : OpinionIn(c, k, o) =
                   IF k = m.key /\ o = m.owner THEN m.value
                                               ELSE OpinionIn(cache[r], k, o)
<1> DEFINE m == Head(inbox[r])
           after == IF m.value = Null THEN Removal(cache[r], winners[r], m)
                                      ELSE Addition(cache[r], winners[r], m)
<1>1. inbox[r] \in Seq(Messages) /\ inbox[r] # <<>> /\ cache[r] \in Caches
  BY DEF TypeOK, onNewOpinion
<1>2. m \in Messages
  BY <1>1
<1>3. cache' = [cache EXCEPT ![r] = after.cache] /\ inbox' = [inbox EXCEPT ![r] = Tail(@)]
  BY DEF onNewOpinion
<1> HIDE DEF m
<1>4. after.cache \in Caches /\ \A k \in Keys, o \in Owners :
        OpinionIn(after.cache, k, o) =
          IF k = m.key /\ o = m.owner THEN m.value ELSE OpinionIn(cache[r], k, o)
  <2>1. CASE m.value = Null
    BY <1>1, <1>2, <2>1, AfterRemoval
  <2>2. CASE m.value # Null
    BY <1>1, <1>2, <2>2, AfterAddition
  <2> QED
    BY <2>1, <2>2
<1> HIDE DEF after
<1> QED
  BY <1>2, <1>3, <1>4 DEF m

\* A handler keeps the winners a map of winners.
LEMMA HandlerWinners ==
  ASSUME TypeOK, NEW r \in Owners, onNewOpinion(r)
  PROVE  winners' \in [Owners -> Winners]
<1> DEFINE m == Head(inbox[r])
           c == cache[r]
           w == winners[r]
           after == IF m.value = Null THEN Removal(c, w, m) ELSE Addition(c, w, m)
<1>1. c \in Caches /\ w \in Winners /\ m \in Messages
  BY HandlerStep DEF TypeOK
<1>2. winners' = [winners EXCEPT ![r] = after.winners]
  BY DEF onNewOpinion
<1> HIDE DEF m, c, w
<1>3. m.key \in Keys /\ m.owner \in Owners /\ m.value \in Values \cup {Null}
  BY <1>1 DEF Messages
<1>4. after.winners \in Winners
  <2>1. CASE m.value # Null
    <3>1. Put(w, m.key, m.value) \in Winners
      BY <1>1, <1>3, <2>1, PutMap DEF Winners
    <3> QED
      BY <1>1, <2>1, <3>1 DEF Addition
  <2>2. CASE m.value = Null /\ m.key \in DOMAIN c
    <3> DEFINE nv == winningPair(Drop(c[m.key], m.owner))[2]
    <3>1. Drop(c[m.key], m.owner) \in Opinions
      BY <1>1, <1>3, <2>2, WithoutOpinionCache
    <3>2. nv \in Values \cup {Null}
      BY <3>1, WinningValue
    <3>3. PutOrRemove(w, m.key, nv) \in Winners
      BY <1>1, <1>3, <3>2, PutOrRemoveMap
    <3>4. after.winners \in {w, PutOrRemove(w, m.key, nv)}
      BY <2>2 DEF Removal
    <3> QED
      BY <1>1, <3>3, <3>4
  <2>3. CASE m.value = Null /\ m.key \notin DOMAIN c
    BY <1>1, <2>3 DEF Removal
  <2> QED
    BY <2>1, <2>2, <2>3
<1> QED
  BY <1>2, <1>4 DEF TypeOK

\* The base invariant holds at the start.
LEMMA BaseInit == Init => BaseInv
<1> SUFFICES ASSUME Init PROVE BaseInv
  OBVIOUS
<1>1. EmptyMap \in Caches /\ EmptyMap \in Winners
  BY EmptyMapType DEF Caches, Winners
<1>2. TypeOK
  BY <1>1 DEF Init, BusInit, TypeOK, Opening
<1>3. NothingBeforeMapped /\ SendsOwnOpinions
  BY DEF Init, BusInit, NothingBeforeMapped, SendsOwnOpinions
<1> QED
  BY <1>2, <1>3 DEF BaseInv

\* Every step keeps the types, and the offsets in the topic.
LEMMA TypeStep ==
  ASSUME BaseInv, [Next]_vars
  PROVE  TypeOK'
<1> USE DEF BaseInv, asked, counters, mapVars
<1>1. ASSUME NEW o \in Owners, BusOnly(o), UNCHANGED mapVars
      PROVE  TypeOK'
  <2>1. CASE topicExists(o)
    BY <1>1, <2>1 DEF topicExists, TypeOK, Opening
  <2>2. CASE createTopic(o)
    BY <1>1, <2>2 DEF createTopic, TypeOK, Opening, Open
  <2>3. CASE autoCommit(o)
    BY <1>1, <2>3 DEF autoCommit, TypeOK
  <2>4. CASE shutdown(o)
    BY <1>1, <2>4 DEF shutdown, TypeOK, Open
  <2>5. CASE consumerShutdown(o)
    BY <1>1, <2>5 DEF consumerShutdown, TypeOK, Open
  <2> QED
    BY <1>1, <2>1, <2>2, <2>3, <2>4, <2>5 DEF BusOnly
<1>2. ASSUME NEW o \in Owners, connect(o), UNCHANGED mapVars
      PROVE  TypeOK'
  BY <1>2 DEF connect, TypeOK, Open
<1>3. ASSUME NEW o \in Owners, subscribeMap(o), UNCHANGED mapVars
      PROVE  TypeOK'
  BY <1>3 DEF subscribeMap, TypeOK
<1>4. ASSUME NEW o \in Owners, consume(o), UNCHANGED mapVars
      PROVE  TypeOK'
  <2>1. position[o] + 1 \in 1..Len(log) /\ position[o] + 1 <= Len(log)
    BY <1>4 DEF consume, TypeOK
  <2>2. log[position[o] + 1] # Compacted => log[position[o] + 1] \in Messages
    BY <2>1 DEF TypeOK
  <2>3. inbox' \in [Owners -> Seq(Messages)]
    BY <1>4, <2>2 DEF consume, TypeOK
  <2> QED
    BY <1>4, <2>1, <2>3 DEF consume, TypeOK
<1>5. ASSUME NEW o \in Owners, NEW k \in Keys, NEW v \in Values \cup {Null},
             onNext(o, k, v), UNCHANGED mapVars
      PROVE  TypeOK'
  <2>1. intent' \in [Owners -> Winners]
    <3>1. PutOrRemove(intent[o], k, v) \in Winners
      BY PutOrRemoveMap DEF TypeOK
    <3> QED
      BY <1>5, <3>1 DEF onNext, TypeOK
  <2>2. PICK m \in Messages :
          sending' = sending \/ sending' = [sending EXCEPT ![o] = Append(@, m)]
    BY <1>5, Publishing
  <2>3. sending' \in [Owners -> Seq(Messages)]
    <3>1. sending \in [Owners -> Seq(Messages)] /\ Append(sending[o], m) \in Seq(Messages)
      BY DEF TypeOK
    <3> QED
      BY <2>2, <3>1
  <2>4. bus' \in [Owners -> Opening \cup Open]
    <3>1. bus \in [Owners -> Opening \cup Open] /\ "closing" \in Open
      BY DEF TypeOK, Open
    <3>2. bus' = bus \/ bus' = [bus EXCEPT ![o] = "closing"]
      BY <1>5 DEF onNext
    <3> QED
      BY <3>1, <3>2
  <2> QED
    BY <1>5, <2>1, <2>3, <2>4 DEF onNext, TypeOK
<1>6. ASSUME NEW o \in Owners, deliver(o), UNCHANGED mapVars
      PROVE  TypeOK'
  <2>1. Head(sending[o]) \in Messages /\ Tail(sending[o]) \in Seq(Messages)
    BY <1>6 DEF deliver, TypeOK
  <2>2. log' \in Seq(Messages \cup {Compacted}) /\ Len(log') = Len(log) + 1
        /\ Len(log) \in Nat
    BY <1>6, <2>1 DEF deliver, TypeOK
  <2>3. \A p \in Owners : committed[p] <= Len(log') /\ position[p] <= Len(log')
    BY <2>2 DEF TypeOK
  <2> QED
    BY <1>6, <2>1, <2>2, <2>3 DEF deliver, TypeOK
<1>7. ASSUME NEW o \in Owners, sendFails(o), UNCHANGED mapVars
      PROVE  TypeOK'
  BY <1>7 DEF sendFails, TypeOK
<1>8. ASSUME NEW i \in DOMAIN log, compact(i), UNCHANGED mapVars
      PROVE  TypeOK'
  <2>1. log' \in Seq(Messages \cup {Compacted}) /\ Len(log') = Len(log)
    BY <1>8 DEF compact, TypeOK
  <2> QED
    BY <1>8, <2>1 DEF compact, TypeOK
<1>9. ASSUME NEW o \in Owners, onNewOpinion(o)
      PROVE  TypeOK'
  <2>1. /\ inbox' = [inbox EXCEPT ![o] = Tail(@)]
        /\ \E c \in Caches : cache' = [cache EXCEPT ![o] = c]
    BY <1>9, HandlerStep
  <2>2. cache' \in [Owners -> Caches]
    BY <2>1 DEF TypeOK
  <2>3. Tail(inbox[o]) \in Seq(Messages)
    BY <1>9 DEF onNewOpinion, TypeOK
  <2>4. winners' \in [Owners -> Winners]
    BY <1>9, HandlerWinners
  <2> QED
    BY <1>9, <2>1, <2>2, <2>3, <2>4 DEF onNewOpinion, TypeOK
<1>10. ASSUME NEW o \in Owners, processDies(o)
       PROVE  TypeOK'
  <2>1. EmptyMap \in Caches /\ EmptyMap \in Winners
    BY EmptyMapType DEF Caches, Winners
  <2> QED
    BY <1>10, <2>1 DEF processDies, crash, TypeOK, Opening
<1>11. CASE UNCHANGED vars
  BY <1>11 DEF vars, busVars, TypeOK
<1> QED
  BY <1>1, <1>2, <1>3, <1>4, <1>5, <1>6, <1>7, <1>8, <1>9, <1>10, <1>11
     DEF Next, BusStep, BusOnly

\* Every step keeps the rest of the base invariant.
LEMMA BaseStep ==
  ASSUME BaseInv, [Next]_vars
  PROVE  BaseInv'
<1> USE DEF BaseInv, asked, counters, mapVars
<1>1. TypeOK'
  BY TypeStep
<1> SUFFICES NothingBeforeMapped' /\ SendsOwnOpinions'
  BY <1>1
<1>2. ASSUME NEW o \in Owners, BusOnly(o), UNCHANGED mapVars
      PROVE  NothingBeforeMapped' /\ SendsOwnOpinions'
  <2>1. NothingBeforeMapped'
    BY <1>2 DEF BusOnly, topicExists, createTopic, autoCommit, shutdown,
                consumerShutdown, TypeOK, NothingBeforeMapped, Opening, Open
  <2>2. UNCHANGED sending
    BY <1>2 DEF BusOnly, topicExists, createTopic, autoCommit, shutdown, consumerShutdown
  <2> QED
    BY <2>1, <2>2 DEF SendsOwnOpinions
<1>3. ASSUME NEW o \in Owners, connect(o), UNCHANGED mapVars
      PROVE  NothingBeforeMapped' /\ SendsOwnOpinions'
  BY <1>3 DEF connect, TypeOK, NothingBeforeMapped, SendsOwnOpinions, Opening, Open
<1>4. ASSUME NEW o \in Owners, subscribeMap(o), UNCHANGED mapVars
      PROVE  NothingBeforeMapped' /\ SendsOwnOpinions'
  BY <1>4 DEF subscribeMap, TypeOK, NothingBeforeMapped, SendsOwnOpinions, Opening, Open
<1>5. ASSUME NEW o \in Owners, consume(o), UNCHANGED mapVars
      PROVE  NothingBeforeMapped' /\ SendsOwnOpinions'
  BY <1>5 DEF consume, TypeOK, NothingBeforeMapped, SendsOwnOpinions
<1>6. ASSUME NEW o \in Owners, NEW k \in Keys, NEW v \in Values \cup {Null},
             onNext(o, k, v), UNCHANGED mapVars
      PROVE  NothingBeforeMapped' /\ SendsOwnOpinions'
  <2>1. NothingBeforeMapped'
    BY <1>6 DEF onNext, TypeOK, NothingBeforeMapped, Opening, Open
  <2>2. PICK m \in Messages :
          /\ m.owner = o
          /\ sending' = sending \/ sending' = [sending EXCEPT ![o] = Append(@, m)]
    BY <1>6, Publishing
  <2>3. SendsOwnOpinions'
    <3>1. sending \in [Owners -> Seq(Messages)]
      BY DEF TypeOK
    <3>2. \A i \in 1..Len(Append(sending[o], m)) : Append(sending[o], m)[i].owner = o
      BY <2>2, <3>1 DEF SendsOwnOpinions
    <3>3. ASSUME NEW p \in Owners
          PROVE  \/ sending'[p] = sending[p]
                 \/ p = o /\ sending'[p] = Append(sending[o], m)
      BY <2>2, <3>1
    <3>4. ASSUME NEW p \in Owners, NEW i \in 1..Len(sending'[p])
          PROVE  sending'[p][i].owner = p
      BY <3>2, <3>3 DEF SendsOwnOpinions
    <3> QED
      BY <3>4 DEF SendsOwnOpinions
  <2> QED
    BY <2>1, <2>3
<1>7. ASSUME NEW o \in Owners, deliver(o) \/ sendFails(o), UNCHANGED mapVars
      PROVE  NothingBeforeMapped' /\ SendsOwnOpinions'
  <2>1. sending[o] # <<>> /\ sending' = [sending EXCEPT ![o] = Tail(@)]
    BY <1>7 DEF deliver, sendFails
  <2>2. SendsOwnOpinions'
    BY <2>1 DEF TypeOK, SendsOwnOpinions
  <2>3. NothingBeforeMapped'
    BY <1>7 DEF deliver, sendFails, NothingBeforeMapped
  <2> QED
    BY <2>2, <2>3
<1>8. ASSUME NEW i \in DOMAIN log, compact(i), UNCHANGED mapVars
      PROVE  NothingBeforeMapped' /\ SendsOwnOpinions'
  BY <1>8 DEF compact, NothingBeforeMapped, SendsOwnOpinions
<1>9. ASSUME NEW o \in Owners, onNewOpinion(o)
      PROVE  NothingBeforeMapped' /\ SendsOwnOpinions'
  <2>1. mapped[o]
    BY <1>9 DEF onNewOpinion, TypeOK, NothingBeforeMapped
  <2>2. \A p \in Owners \ {o} :
          inbox'[p] = inbox[p] /\ cache'[p] = cache[p] /\ winners'[p] = winners[p]
    BY <1>9 DEF onNewOpinion, TypeOK
  <2> QED
    BY <1>9, <2>1, <2>2 DEF onNewOpinion, NothingBeforeMapped, SendsOwnOpinions
<1>10. ASSUME NEW o \in Owners, processDies(o)
       PROVE  NothingBeforeMapped' /\ SendsOwnOpinions'
  BY <1>10 DEF processDies, crash, TypeOK, NothingBeforeMapped, SendsOwnOpinions, Opening
<1>11. CASE UNCHANGED vars
  BY <1>11 DEF vars, busVars, NothingBeforeMapped, SendsOwnOpinions
<1> QED
  BY <1>2, <1>3, <1>4, <1>5, <1>6, <1>7, <1>8, <1>9, <1>10, <1>11
     DEF Next, BusStep, BusOnly

-----------------------------------------------------------------------------
(* What a replica holds.                                                   *)

\* InboxLeadsToTopic is about the topic, the consumers and the replicas only.
LEMMA InboxUntouched ==
  ASSUME InboxLeadsToTopic,
         UNCHANGED <<log, mapped, joined, position, inbox, cache>>
  PROVE  InboxLeadsToTopic'
<1>1. \A k, o : OffsetsOf(k, o)' = OffsetsOf(k, o) /\ Latest(k, o)' = Latest(k, o)
  BY DEF OffsetsOf, Latest
<1>2. \A r, k, o : Held(r, k, o)' = Held(r, k, o)
                   /\ SinceJoined(r, k, o)' = SinceJoined(r, k, o)
  BY <1>1 DEF Held, SinceJoined
<1> QED
  BY <1>1, <1>2 DEF InboxLeadsToTopic

\* A map that subscribes has missed what is behind its consumer, and its inbox
\* and its cache are empty.
LEMMA InboxSubscribe ==
  ASSUME BaseInv, InboxLeadsToTopic, NEW p \in Owners, subscribeMap(p), UNCHANGED mapVars
  PROVE  InboxLeadsToTopic'
<1> SUFFICES ASSUME NEW r \in Owners, mapped'[r], NEW k \in Keys, NEW o \in Owners,
                    \A i \in OffsetsOf(k, o)' : i <= position'[r]
             PROVE  Ends(inbox[r], k, o, Held(r, k, o), SinceJoined(r, k, o)')
  BY DEF InboxLeadsToTopic, subscribeMap, mapVars, Held
<1>1. OffsetsOf(k, o)' = OffsetsOf(k, o) /\ Latest(k, o)' = Latest(k, o)
  BY DEF subscribeMap, OffsetsOf, Latest
<1>2. \A i \in OffsetsOf(k, o) : i <= position[r]
  BY <1>1 DEF subscribeMap
<1>3. CASE r # p
  <2>1. mapped[r] /\ joined'[r] = joined[r]
    BY <1>3 DEF subscribeMap, BaseInv, TypeOK
  <2>2. SinceJoined(r, k, o)' = SinceJoined(r, k, o)
    BY <1>1, <2>1 DEF SinceJoined
  <2> QED
    BY <1>2, <2>1, <2>2 DEF InboxLeadsToTopic
<1>4. CASE r = p
  <2>1. inbox[r] = <<>> /\ cache[r] = EmptyMap /\ joined'[r] = position[r]
        /\ position[r] \in Nat
    BY <1>4 DEF subscribeMap, BaseInv, TypeOK, NothingBeforeMapped
  <2>2. Held(r, k, o) = Null
    BY <2>1, HeldInCache, NothingInEmptyCache
  <2>3. \A i \in OffsetsOf(k, o)' : ~(i > joined'[r])
    BY <1>1, <1>2, <2>1 DEF OffsetsOf
  <2>4. SinceJoined(r, k, o)' = Null
    BY <2>3 DEF SinceJoined
  <2> QED
    BY <2>1, <2>2, <2>4, EndsOfNothing
<1> QED
  BY <1>3, <1>4

\* A message that the consumer hands over is the last one in the inbox.
LEMMA InboxConsume ==
  ASSUME BaseInv, InboxLeadsToTopic, NEW p \in Owners, consume(p), UNCHANGED mapVars
  PROVE  InboxLeadsToTopic'
<1> SUFFICES ASSUME NEW r \in Owners, mapped[r], NEW k \in Keys, NEW o \in Owners,
                    \A i \in OffsetsOf(k, o) : i <= position'[r]
             PROVE  Ends(inbox'[r], k, o, Held(r, k, o), SinceJoined(r, k, o))
  <2>1. UNCHANGED <<log, mapped, joined, cache>>
    BY DEF consume, mapVars
  <2>2. \A k, o : OffsetsOf(k, o)' = OffsetsOf(k, o) /\ Latest(k, o)' = Latest(k, o)
    BY <2>1 DEF OffsetsOf, Latest
  <2>3. \A r, k, o : Held(r, k, o)' = Held(r, k, o)
                     /\ SinceJoined(r, k, o)' = SinceJoined(r, k, o)
    BY <2>1, <2>2 DEF Held, SinceJoined
  <2> QED
    BY <2>1, <2>2, <2>3 DEF InboxLeadsToTopic
<1>1. CASE r # p
  <2>1. position'[r] = position[r] /\ inbox'[r] = inbox[r]
    BY <1>1 DEF consume, BaseInv, TypeOK
  <2> QED
    BY <2>1 DEF InboxLeadsToTopic
<1>2. CASE r = p
  <2> DEFINE n == position[r] + 1
             c == log[n]
  <2>1. /\ position[r] \in Nat /\ Len(log) \in Nat /\ n \in 1..Len(log)
        /\ position'[r] = n /\ inbox[r] \in Seq(Messages)
        /\ c \in Messages \cup {Compacted} /\ joined[r] \in Nat /\ joined[r] < n
    <3>1. /\ position \in [Owners -> Nat] /\ joined \in [Owners -> Nat]
          /\ inbox \in [Owners -> Seq(Messages)]
          /\ log \in Seq(Messages \cup {Compacted})
          /\ joined[r] <= position[r]
      BY <1>2 DEF consume, BaseInv, TypeOK, NothingBeforeMapped
    <3>2. position[r] < Len(log) /\ position' = [position EXCEPT ![r] = n]
      BY <1>2 DEF consume
    <3> QED
      BY <3>1, <3>2
  <2>2. inbox'[r] = IF c # Compacted THEN Append(inbox[r], c) ELSE inbox[r]
    BY <1>2 DEF consume, BaseInv, TypeOK
  <2>3. n \in OffsetsOf(k, o) <=> IsAbout(c, k, o)
    BY <2>1, OffsetsAbout
  <2>4. OffsetsOf(k, o) \in SUBSET (1..Len(log))
    BY DEF OffsetsOf
  <2> HIDE DEF c, n
  <2>5. CASE IsAbout(c, k, o)
    <3>1. SinceJoined(r, k, o) = c.value
      <4>1. n \in OffsetsOf(k, o) /\ \A j \in OffsetsOf(k, o) : j <= n
        BY <2>1, <2>3, <2>5
      <4>2. Latest(k, o) = c.value
        BY <4>1, LatestIsLast DEF c
      <4>3. n > joined[r]
        BY <2>1
      <4> QED
        BY <4>1, <4>2, <4>3 DEF SinceJoined
    <3>2. inbox'[r] = Append(inbox[r], c) /\ c \in Messages
      BY <2>1, <2>2, <2>5 DEF IsAbout
    <3>3. /\ Len(inbox'[r]) = Len(inbox[r]) + 1 /\ Len(inbox[r]) \in Nat
          /\ inbox'[r][Len(inbox[r]) + 1] = c
      BY <2>1, <3>2
    <3>4. /\ Len(inbox[r]) + 1 \in 1..Len(inbox'[r])
          /\ \A j \in (Len(inbox[r]) + 1) + 1 .. Len(inbox'[r]) : FALSE
      BY <3>3
    <3> QED
      BY <2>5, <3>1, <3>3, <3>4 DEF Ends
  <2>6. CASE ~IsAbout(c, k, o)
    <3>1. \A i \in OffsetsOf(k, o) : i <= position[r]
      BY <2>1, <2>3, <2>4, <2>6 DEF n
    <3>2. Ends(inbox[r], k, o, Held(r, k, o), SinceJoined(r, k, o))
      BY <3>1 DEF InboxLeadsToTopic
    <3>3. CASE c = Compacted
      BY <2>2, <3>2, <3>3
    <3>4. CASE c # Compacted
      BY <2>1, <2>2, <2>6, <3>2, <3>4, EndsAppend
    <3> QED
      BY <3>3, <3>4
  <2> QED
    BY <2>5, <2>6
<1> QED
  BY <1>1, <1>2

\* A message the brokers append lies ahead of every consumer.
LEMMA InboxDeliver ==
  ASSUME BaseInv, InboxLeadsToTopic, NEW p \in Owners, deliver(p), UNCHANGED mapVars
  PROVE  InboxLeadsToTopic'
<1> DEFINE m == Head(sending[p])
<1>1. m \in Messages /\ log' = Append(log, m) /\ log \in Seq(Messages \cup {Compacted})
  BY DEF deliver, BaseInv, TypeOK
<1> HIDE DEF m
<1> SUFFICES ASSUME NEW r \in Owners, mapped[r], NEW k \in Keys, NEW o \in Owners,
                    \A i \in OffsetsOf(k, o)' : i <= position[r]
             PROVE  Ends(inbox[r], k, o, Held(r, k, o), SinceJoined(r, k, o)')
  BY DEF InboxLeadsToTopic, deliver, mapVars, Held
<1>2. /\ OffsetsOf(k, o)' = IF IsAbout(m, k, o)
                            THEN OffsetsOf(k, o) \cup {Len(log) + 1}
                            ELSE OffsetsOf(k, o)
      /\ Latest(k, o)' = IF IsAbout(m, k, o) THEN m.value ELSE Latest(k, o)
  BY <1>1, LatestAfterAppend
<1>3. position[r] \in Nat /\ position[r] <= Len(log) /\ Len(log) \in Nat
  BY DEF BaseInv, TypeOK
<1>4. ~IsAbout(m, k, o)
  <2> SUFFICES ASSUME IsAbout(m, k, o) PROVE FALSE
    OBVIOUS
  <2>1. Len(log) + 1 \in OffsetsOf(k, o)'
    BY <1>2
  <2>2. Len(log) + 1 <= position[r]
    BY <2>1
  <2> QED
    BY <1>3, <2>2
<1>5. OffsetsOf(k, o)' = OffsetsOf(k, o) /\ Latest(k, o)' = Latest(k, o) /\ joined' = joined
  BY <1>2, <1>4 DEF deliver
<1>6. SinceJoined(r, k, o)' = SinceJoined(r, k, o)
  BY <1>5 DEF SinceJoined
<1> QED
  BY <1>5, <1>6 DEF InboxLeadsToTopic

\* Compaction takes no last message away.
LEMMA InboxCompact ==
  ASSUME BaseInv, InboxLeadsToTopic, NEW a \in DOMAIN log, compact(a), UNCHANGED mapVars
  PROVE  InboxLeadsToTopic'
<1> SUFFICES ASSUME NEW r \in Owners, mapped[r], NEW k \in Keys, NEW o \in Owners,
                    \A i \in OffsetsOf(k, o)' : i <= position[r]
             PROVE  Ends(inbox[r], k, o, Held(r, k, o), SinceJoined(r, k, o)')
  BY DEF InboxLeadsToTopic, compact, mapVars, Held
<1>1. /\ OffsetsOf(k, o)' \subseteq OffsetsOf(k, o)
      /\ \A n \in Nat : (\E j \in OffsetsOf(k, o)' : j > n)
                          <=> (\E j \in OffsetsOf(k, o) : j > n)
      /\ Latest(k, o)' = Latest(k, o)
  BY LatestAfterCompaction DEF BaseInv, TypeOK
<1>2. position[r] \in Nat /\ joined[r] \in Nat /\ joined' = joined
  BY DEF BaseInv, TypeOK, compact
<1>3. OffsetsOf(k, o) \subseteq Nat
  BY DEF OffsetsOf
<1>4. \A i \in OffsetsOf(k, o) : i <= position[r]
  <2> SUFFICES ASSUME \E i \in OffsetsOf(k, o) : i > position[r] PROVE FALSE
    BY <1>2, <1>3
  <2>1. PICK j \in OffsetsOf(k, o)' : j > position[r]
    BY <1>1, <1>2
  <2> QED
    BY <1>1, <1>2, <1>3, <2>1
<1>5. SinceJoined(r, k, o)' = SinceJoined(r, k, o)
  BY <1>1, <1>2 DEF SinceJoined
<1> QED
  BY <1>4, <1>5 DEF InboxLeadsToTopic

\* Handling the oldest message leads on to the same end.
LEMMA InboxHandle ==
  ASSUME BaseInv, InboxLeadsToTopic, NEW p \in Owners, onNewOpinion(p)
  PROVE  InboxLeadsToTopic'
<1> DEFINE m == Head(inbox[p])
<1>1. PICK c \in Caches :
        /\ cache' = [cache EXCEPT ![p] = c]
        /\ \A k \in Keys, o \in Owners : OpinionIn(c, k, o) =
             IF k = m.key /\ o = m.owner THEN m.value ELSE OpinionIn(cache[p], k, o)
  BY HandlerStep DEF BaseInv
<1>2. m \in Messages /\ inbox' = [inbox EXCEPT ![p] = Tail(@)]
  BY HandlerStep DEF BaseInv
<1>3. inbox[p] \in Seq(Messages) /\ inbox[p] # <<>>
  BY DEF BaseInv, TypeOK, onNewOpinion
<1> SUFFICES ASSUME NEW r \in Owners, mapped[r], NEW k \in Keys, NEW o \in Owners,
                    \A i \in OffsetsOf(k, o) : i <= position[r]
             PROVE  Ends(inbox'[r], k, o, Held(r, k, o)', SinceJoined(r, k, o))
  <2>1. UNCHANGED <<log, mapped, joined, position>>
    BY DEF onNewOpinion
  <2>2. \A k, o : OffsetsOf(k, o)' = OffsetsOf(k, o) /\ Latest(k, o)' = Latest(k, o)
    BY <2>1 DEF OffsetsOf, Latest
  <2>3. \A r, k, o : SinceJoined(r, k, o)' = SinceJoined(r, k, o)
    BY <2>1, <2>2 DEF SinceJoined
  <2> QED
    BY <2>1, <2>2, <2>3 DEF InboxLeadsToTopic
<1>4. Ends(inbox[r], k, o, Held(r, k, o), SinceJoined(r, k, o))
  BY DEF InboxLeadsToTopic
<1>5. CASE r # p
  <2>1. inbox'[r] = inbox[r] /\ cache'[r] = cache[r]
    BY <1>1, <1>2, <1>5 DEF BaseInv, TypeOK
  <2>2. Held(r, k, o)' = Held(r, k, o)
    BY <2>1 DEF Held
  <2> QED
    BY <1>4, <2>1, <2>2
<1>6. CASE r = p
  <2>1. inbox'[r] = Tail(inbox[r]) /\ cache'[r] = c
    BY <1>1, <1>2, <1>6 DEF BaseInv, TypeOK
  <2>2. Held(r, k, o)' = OpinionIn(c, k, o)
    BY <2>1 DEF Held, OpinionIn
  <2>3. IsAbout(m, k, o) <=> k = m.key /\ o = m.owner
    BY <1>2, CompactedAssumption DEF IsAbout
  <2>4. Held(r, k, o)' = IF IsAbout(m, k, o) THEN m.value ELSE Held(r, k, o)
    BY <1>1, <1>6, <2>2, <2>3, HeldInCache
  <2> QED
    BY <1>3, <1>4, <1>6, <2>1, <2>4, EndsTail
<1> QED
  BY <1>5, <1>6

\* Every step keeps InboxLeadsToTopic.
LEMMA InboxStep ==
  ASSUME BaseInv, InboxLeadsToTopic, [Next]_vars
  PROVE  InboxLeadsToTopic'
<1> USE DEF mapVars
<1>1. ASSUME NEW o \in Owners, BusOnly(o) \/ sendFails(o), UNCHANGED mapVars
      PROVE  InboxLeadsToTopic'
  <2>1. UNCHANGED <<log, mapped, joined, position, inbox, cache>>
    BY <1>1 DEF BusOnly, topicExists, createTopic, autoCommit, shutdown,
                consumerShutdown, sendFails
  <2> QED
    BY <2>1, InboxUntouched
<1>2. ASSUME NEW o \in Owners, NEW k \in Keys, NEW v \in Values \cup {Null},
             onNext(o, k, v), UNCHANGED mapVars
      PROVE  InboxLeadsToTopic'
  <2>1. UNCHANGED <<log, mapped, joined, position, inbox, cache>>
    BY <1>2 DEF onNext
  <2> QED
    BY <2>1, InboxUntouched
<1>3. ASSUME NEW p \in Owners, connect(p), UNCHANGED mapVars
      PROVE  InboxLeadsToTopic'
  <2>1. ~mapped[p] /\ UNCHANGED <<log, mapped, joined, inbox, cache>>
    BY <1>3 DEF connect, BaseInv, NothingBeforeMapped, Opening
  <2>2. \A r \in Owners \ {p} : position'[r] = position[r]
    BY <1>3 DEF connect, BaseInv, TypeOK
  <2>3. \A k, o : OffsetsOf(k, o)' = OffsetsOf(k, o) /\ Latest(k, o)' = Latest(k, o)
    BY <2>1 DEF OffsetsOf, Latest
  <2>4. \A r, k, o : Held(r, k, o)' = Held(r, k, o)
                     /\ SinceJoined(r, k, o)' = SinceJoined(r, k, o)
    BY <2>1, <2>3 DEF Held, SinceJoined
  <2> QED
    BY <2>1, <2>2, <2>3, <2>4 DEF InboxLeadsToTopic
<1>4. ASSUME NEW p \in Owners, processDies(p)
      PROVE  InboxLeadsToTopic'
  <2>1. UNCHANGED <<log, joined, position>>
    BY <1>4 DEF processDies, crash
  <2>2. ~mapped'[p] /\ \A r \in Owners \ {p} :
          mapped'[r] = mapped[r] /\ inbox'[r] = inbox[r] /\ cache'[r] = cache[r]
    BY <1>4 DEF processDies, crash, BaseInv, TypeOK
  <2>3. \A k, o : OffsetsOf(k, o)' = OffsetsOf(k, o) /\ Latest(k, o)' = Latest(k, o)
    BY <2>1 DEF OffsetsOf, Latest
  <2>4. \A r \in Owners \ {p} : \A k, o : Held(r, k, o)' = Held(r, k, o)
    BY <2>2 DEF Held
  <2>5. \A r, k, o : SinceJoined(r, k, o)' = SinceJoined(r, k, o)
    BY <2>1, <2>3 DEF SinceJoined
  <2> QED
    BY <2>1, <2>2, <2>3, <2>4, <2>5 DEF InboxLeadsToTopic
<1>5. CASE UNCHANGED vars
  BY <1>5, InboxUntouched DEF vars, busVars
<1> QED
  BY <1>1, <1>2, <1>3, <1>4, <1>5, InboxSubscribe, InboxConsume, InboxDeliver,
     InboxCompact, InboxHandle DEF Next, BusStep, BusOnly

\* Whatever crashes, restarts, early messages and compactions there were, the
\* inbox of a replica leads it to the topic since it joined.
THEOREM InboxCorrect == Spec => [](BaseInv /\ InboxLeadsToTopic)
<1>1. Init => BaseInv /\ InboxLeadsToTopic
  <2> SUFFICES ASSUME Init PROVE InboxLeadsToTopic
    BY BaseInit
  <2> QED
    BY DEF Init, BusInit, InboxLeadsToTopic
<1>2. BaseInv /\ InboxLeadsToTopic /\ [Next]_vars => (BaseInv /\ InboxLeadsToTopic)'
  BY BaseStep, InboxStep
<1> QED
  BY <1>1, <1>2, PTL DEF Spec

\* HoldsSinceJoined: a replica that has come to the end of the topic holds the
\* latest opinion of every owner on every key, unless it lies behind the position
\* at which the map joined the bus (KafkaBus' consumer, MergedMap's handlers).
THEOREM HoldsTopicSinceJoined == Spec => []HoldsSinceJoined
<1>1. BaseInv /\ InboxLeadsToTopic => HoldsSinceJoined
  <2> SUFFICES ASSUME BaseInv, InboxLeadsToTopic, NEW r \in Owners, CaughtUp(r),
                      NEW k \in Keys, NEW o \in Owners
               PROVE  Held(r, k, o) = SinceJoined(r, k, o)
    BY DEF HoldsSinceJoined, SinceJoined
  <2>1. mapped[r] /\ inbox[r] = <<>> /\ position[r] = Len(log)
    BY DEF CaughtUp
  <2>2. \A i \in OffsetsOf(k, o) : i <= position[r]
    BY <2>1 DEF OffsetsOf, BaseInv, TypeOK
  <2>3. Ends(<<>>, k, o, Held(r, k, o), SinceJoined(r, k, o))
    BY <2>1, <2>2 DEF InboxLeadsToTopic
  <2> QED
    BY <2>3, EndsOfNothing
<1> QED
  BY <1>1, InboxCorrect, PTL

-----------------------------------------------------------------------------
(* What the barriers add.                                                  *)

\* Every step keeps AllJoinAtStart.
LEMMA JoinStep ==
  ASSUME BaseInv, AllJoinAtStart, [Next]_vars
  PROVE  AllJoinAtStart'
<1> SUFFICES ASSUME Barriered, crashes' = 0 PROVE AllJoinAtStart'
  BY DEF AllJoinAtStart
<1> USE DEF mapVars, counters, asked
<1> DEFINE Late == \E o \in Owners : ~mapped[o]
           Nothing == log = <<>> /\ \A o \in Owners : sending[o] = <<>>
<1>1. ASSUME NEW p \in Owners, processDies(p) PROVE FALSE
  BY <1>1 DEF processDies, crash, BaseInv, TypeOK
<1>2. ASSUME crashes = 0
      PROVE  (\A o \in Owners : joined[o] = 0) /\ (Late => Nothing)
  BY <1>2 DEF AllJoinAtStart
<1>3. ASSUME UNCHANGED <<log, mapped, joined, sending, crashes>>
      PROVE  AllJoinAtStart'
  BY <1>3 DEF AllJoinAtStart
<1>4. ASSUME NEW p \in Owners, subscribeMap(p)
      PROVE  AllJoinAtStart'
  <2>1. crashes = 0 /\ ~mapped[p] /\ joined' = [joined EXCEPT ![p] = position[p]]
        /\ mapped' = [mapped EXCEPT ![p] = TRUE] /\ UNCHANGED <<log, sending>>
    BY <1>4 DEF subscribeMap
  <2>2. log = <<>> /\ \A o \in Owners : sending[o] = <<>> /\ joined[o] = 0
    BY <1>2, <2>1
  <2>3. position[p] = 0
    BY <2>2 DEF BaseInv, TypeOK
  <2>4. \A o \in Owners : joined'[o] = 0
    BY <2>1, <2>2, <2>3 DEF BaseInv, TypeOK
  <2> QED
    BY <2>1, <2>2, <2>4 DEF AllJoinAtStart
<1>5. ASSUME NEW p \in Owners, NEW k \in Keys, NEW v \in Values \cup {Null},
             onNext(p, k, v)
      PROVE  AllJoinAtStart'
  <2>1. crashes = 0 /\ joined' = joined /\ mapped' = mapped /\ \A o \in Owners : mapped[o]
    BY <1>5 DEF onNext
  <2> QED
    BY <1>2, <2>1 DEF AllJoinAtStart
<1>6. ASSUME NEW p \in Owners, deliver(p) \/ sendFails(p)
      PROVE  AllJoinAtStart'
  <2>1. crashes = 0 /\ joined' = joined /\ mapped' = mapped /\ sending[p] # <<>>
    BY <1>6 DEF deliver, sendFails
  <2> QED
    BY <1>2, <2>1 DEF AllJoinAtStart
<1>7. ASSUME NEW i \in DOMAIN log, compact(i)
      PROVE  AllJoinAtStart'
  <2>1. crashes = 0 /\ joined' = joined /\ mapped' = mapped /\ sending' = sending
    BY <1>7 DEF compact
  <2>2. log # <<>>
    BY <1>7
  <2> QED
    BY <1>2, <2>1, <2>2 DEF AllJoinAtStart
<1>8. ASSUME NEW o \in Owners, BusOnly(o) \/ connect(o) \/ consume(o) \/ onNewOpinion(o)
      PROVE  AllJoinAtStart'
  <2>1. UNCHANGED <<log, mapped, joined, sending, crashes>>
    BY <1>8 DEF BusOnly, topicExists, createTopic, autoCommit, shutdown,
                consumerShutdown, connect, consume, onNewOpinion
  <2> QED
    BY <1>3, <2>1
<1>9. CASE UNCHANGED vars
  BY <1>3, <1>9 DEF vars, busVars
<1> QED
  BY <1>1, <1>4, <1>5, <1>6, <1>7, <1>8, <1>9 DEF Next, BusStep, BusOnly

\* With the barriers, up to the first crash, every map joins at the beginning of
\* the topic.
LEMMA JoinCorrect == Spec => []AllJoinAtStart
<1>1. Init => AllJoinAtStart
  BY DEF Init, BusInit, AllJoinAtStart
<1>2. BaseInv /\ AllJoinAtStart /\ [Next]_vars => AllJoinAtStart'
  BY JoinStep
<1> QED
  BY <1>1, <1>2, InboxCorrect, PTL DEF Spec

\* At a replica that joined at the beginning of the topic, all of it counts.
LEMMA AllSinceStart ==
  ASSUME NEW r \in Owners, joined[r] = 0, NEW k \in Keys, NEW o \in Owners
  PROVE  SinceJoined(r, k, o) = Latest(k, o)
<1>1. \A i \in OffsetsOf(k, o) : i > joined[r]
  BY DEF OffsetsOf
<1>2. CASE OffsetsOf(k, o) = {}
  BY <1>2 DEF SinceJoined, Latest
<1>3. CASE OffsetsOf(k, o) # {}
  BY <1>1, <1>3 DEF SinceJoined
<1> QED
  BY <1>2, <1>3

\* ReadsAllMessages: when the processes meet at the barriers of MergedMapTestBench
\* and none is killed, a replica that has come to the end of the topic, compacted
\* or not, holds exactly the latest opinion of every owner on every key.
THEOREM ReadsWholeTopic ==
  ASSUME Barriered, MaxCrashes = 0
  PROVE  Spec => []ReadsAllMessages
<1> DEFINE NoCrash == crashes = 0
<1>1. Init => NoCrash
  BY DEF Init, BusInit
<1>2. NoCrash /\ [Next]_vars => NoCrash'
  <2> SUFFICES ASSUME NoCrash, [Next]_vars PROVE NoCrash'
    OBVIOUS
  <2>1. ASSUME NEW o \in Owners, processDies(o) PROVE FALSE
    BY <2>1 DEF processDies, crash
  <2>2. ASSUME NEW o \in Owners, BusStep(o) PROVE NoCrash'
    BY <2>2 DEF BusStep, topicExists, createTopic, connect, subscribeMap, consume,
                autoCommit, onNext, deliver, sendFails, shutdown, consumerShutdown,
                counters
  <2>3. ASSUME NEW i \in DOMAIN log, compact(i) PROVE NoCrash'
    BY <2>3 DEF compact, counters
  <2>4. ASSUME NEW o \in Owners, onNewOpinion(o) PROVE NoCrash'
    BY <2>4 DEF onNewOpinion, counters
  <2>5. CASE UNCHANGED vars
    BY <2>5 DEF vars, busVars, counters
  <2> QED
    BY <2>1, <2>2, <2>3, <2>4, <2>5 DEF Next
<1>3. NoCrash /\ AllJoinAtStart /\ HoldsSinceJoined => ReadsAllMessages
  <2> SUFFICES ASSUME NoCrash, AllJoinAtStart, HoldsSinceJoined,
                      NEW r \in Owners, CaughtUp(r), NEW k \in Keys, NEW o \in Owners
               PROVE  Held(r, k, o) = Latest(k, o)
    BY DEF ReadsAllMessages
  <2>1. joined[r] = 0
    BY DEF AllJoinAtStart
  <2>2. Held(r, k, o) = SinceJoined(r, k, o)
    BY DEF HoldsSinceJoined, SinceJoined
  <2> QED
    BY <2>1, <2>2, AllSinceStart
<1> QED
  BY <1>1, <1>2, <1>3, JoinCorrect, HoldsTopicSinceJoined, PTL DEF Spec

-----------------------------------------------------------------------------
(* The last word of an owner.                                              *)

\* What an application asks for is what its intent says next.
LEMMA AskedAfter ==
  ASSUME TypeOK, NEW p \in Owners, NEW a \in Keys, NEW v \in Values \cup {Null},
         onNext(p, a, v), NEW o \in Owners, NEW k \in Keys
  PROVE  Asked(o, k)' = IF o = p /\ k = a THEN v ELSE Asked(o, k)
<1>1. intent' = [intent EXCEPT ![p] = PutOrRemove(@, a, v)] /\ intent \in [Owners -> Winners]
  BY DEF onNext, TypeOK
<1>2. CASE o # p
  BY <1>1, <1>2 DEF Asked
<1>3. CASE o = p
  <2>1. intent'[o] = PutOrRemove(intent[o], a, v)
    BY <1>1, <1>3
  <2>2. CASE v = Null
    <3>1. intent'[o] = Drop(intent[o], a)
      BY <2>1, <2>2 DEF PutOrRemove
    <3> QED
      BY <1>3, <2>2, <3>1 DEF Asked, Drop
  <2>3. CASE v # Null
    <3>1. intent'[o] = Put(intent[o], a, v)
      BY <2>1, <2>3 DEF PutOrRemove
    <3> QED
      BY <1>3, <2>3, <3>1 DEF Asked, Put
  <2> QED
    BY <2>2, <2>3
<1> QED
  BY <1>2, <1>3

\* SendingLeadsToIntent is about the topic, the producers and the intents only.
LEMMA SendingUntouched ==
  ASSUME SendingLeadsToIntent, UNCHANGED <<log, sending, intent, lost, crashes>>
  PROVE  SendingLeadsToIntent'
<1>1. \A k, o : Latest(k, o)' = Latest(k, o)
  BY DEF OffsetsOf, Latest
<1>2. \A k, o : Asked(o, k)' = Asked(o, k)
  BY DEF Asked
<1> QED
  BY <1>1, <1>2 DEF SendingLeadsToIntent

\* Every step keeps SendingLeadsToIntent, when a remove can be encoded.
LEMMA SendingStep ==
  ASSUME CanEncodeNull, BaseInv, SendingLeadsToIntent, [Next]_vars
  PROVE  SendingLeadsToIntent'
<1> SUFFICES ASSUME lost' = 0, crashes' = 0 PROVE SendingLeadsToIntent'
  BY DEF SendingLeadsToIntent
<1> USE DEF mapVars, counters, asked
<1>1. ASSUME NEW p \in Owners, processDies(p) \/ sendFails(p) PROVE FALSE
  BY <1>1 DEF processDies, crash, sendFails, BaseInv, TypeOK
<1>2. ASSUME NEW o \in Owners,
             \/ BusOnly(o) \/ connect(o) \/ subscribeMap(o) \/ consume(o)
             \/ onNewOpinion(o)
      PROVE  SendingLeadsToIntent'
  <2>1. UNCHANGED <<log, sending, intent, lost, crashes>>
    BY <1>2 DEF BusOnly, topicExists, createTopic, autoCommit, shutdown,
                consumerShutdown, connect, subscribeMap, consume, onNewOpinion
  <2> QED
    BY <2>1, SendingUntouched
<1>3. ASSUME NEW p \in Owners, NEW a \in Keys, NEW v \in Values \cup {Null},
             onNext(p, a, v)
      PROVE  SendingLeadsToIntent'
  <2>1. UNCHANGED <<log, lost, crashes>>
    BY <1>3 DEF onNext
  <2>2. PICK m \in Messages :
          /\ m.key = a /\ m.value = v /\ m.owner = p
          /\ sending' = [sending EXCEPT ![p] = Append(@, m)]
    BY <1>3, Publishing
  <2> SUFFICES ASSUME NEW o \in Owners, NEW k \in Keys
               PROVE  Ends(sending'[o], k, o, Latest(k, o)', Asked(o, k)')
    BY DEF SendingLeadsToIntent
  <2>3. Latest(k, o)' = Latest(k, o)
    BY <2>1 DEF Latest, OffsetsOf
  <2>4. Asked(o, k)' = IF o = p /\ k = a THEN v ELSE Asked(o, k)
    BY <1>3, AskedAfter DEF BaseInv
  <2>5. Ends(sending[o], k, o, Latest(k, o), Asked(o, k))
    BY <2>1 DEF SendingLeadsToIntent
  <2>6. sending \in [Owners -> Seq(Messages)]
    BY DEF BaseInv, TypeOK
  <2>7. CASE o # p
    <3>1. sending'[o] = sending[o]
      BY <2>2, <2>6, <2>7
    <3> QED
      BY <2>3, <2>4, <2>5, <2>7, <3>1
  <2>8. CASE o = p
    <3>1. sending'[o] = Append(sending[o], m)
      BY <2>2, <2>6, <2>8
    <3>2. IsAbout(m, k, o) <=> k = a
      BY <2>2, <2>8, CompactedAssumption DEF IsAbout
    <3>3. Ends(Append(sending[o], m), k, o, Latest(k, o),
               IF IsAbout(m, k, o) THEN m.value ELSE Asked(o, k))
      BY <2>5, <2>6, EndsAppend
    <3>4. Asked(o, k)' = IF IsAbout(m, k, o) THEN m.value ELSE Asked(o, k)
      BY <2>2, <2>4, <2>8, <3>2
    <3> QED
      BY <2>3, <3>1, <3>3, <3>4
  <2> QED
    BY <2>7, <2>8
<1>4. ASSUME NEW p \in Owners, deliver(p)
      PROVE  SendingLeadsToIntent'
  <2> DEFINE m == Head(sending[p])
  <2>1. UNCHANGED <<lost, crashes, intent>>
    BY <1>4 DEF deliver
  <2>2. /\ sending[p] \in Seq(Messages) /\ sending[p] # <<>>
        /\ m \in Messages /\ m = sending[p][1] /\ m.owner = p
    BY <1>4 DEF deliver, BaseInv, TypeOK, SendsOwnOpinions
  <2>3. /\ log' = Append(log, m) /\ log \in Seq(Messages \cup {Compacted})
        /\ sending' = [sending EXCEPT ![p] = Tail(@)]
        /\ sending \in [Owners -> Seq(Messages)]
    BY <1>4 DEF deliver, BaseInv, TypeOK
  <2> HIDE DEF m
  <2> SUFFICES ASSUME NEW o \in Owners, NEW k \in Keys
               PROVE  Ends(sending'[o], k, o, Latest(k, o)', Asked(o, k))
    BY <2>1 DEF SendingLeadsToIntent, Asked
  <2>4. Latest(k, o)' = IF IsAbout(m, k, o) THEN m.value ELSE Latest(k, o)
    BY <2>2, <2>3, LatestAfterAppend
  <2>5. Ends(sending[o], k, o, Latest(k, o), Asked(o, k))
    BY <2>1 DEF SendingLeadsToIntent
  <2>6. CASE o # p
    <3>1. sending'[o] = sending[o] /\ ~IsAbout(m, k, o)
      BY <2>2, <2>3, <2>6 DEF IsAbout
    <3> QED
      BY <2>4, <2>5, <3>1
  <2>7. CASE o = p
    <3>1. sending'[o] = Tail(sending[o])
      BY <2>3, <2>7
    <3> QED
      BY <2>2, <2>4, <2>5, <2>7, <3>1, EndsTail DEF m
  <2> QED
    BY <2>6, <2>7
<1>5. ASSUME NEW i \in DOMAIN log, compact(i)
      PROVE  SendingLeadsToIntent'
  <2>1. UNCHANGED <<lost, crashes, intent, sending>>
    BY <1>5 DEF compact
  <2>2. \A k \in Keys, o \in Owners : Latest(k, o)' = Latest(k, o)
    BY <1>5, LatestAfterCompaction DEF BaseInv, TypeOK
  <2>3. \A k, o : Asked(o, k)' = Asked(o, k)
    BY <2>1 DEF Asked
  <2> QED
    BY <2>1, <2>2, <2>3 DEF SendingLeadsToIntent
<1>6. CASE UNCHANGED vars
  BY <1>6, SendingUntouched DEF vars, busVars
<1> QED
  BY <1>1, <1>2, <1>3, <1>4, <1>5, <1>6 DEF Next, BusStep, BusOnly

\* LastWordHolds: when the processes meet at the barriers and the serializer of
\* the map encodes null, then until a send fails or a process is killed a replica
\* with nothing under way to it holds what each owner last asked for; a put took
\* effect, and so did a remove.
THEOREM LastWordReachesReplicas ==
  ASSUME Barriered, CanEncodeNull
  PROVE  Spec => []LastWordHolds
<1>1. Init => SendingLeadsToIntent
  <2> SUFFICES ASSUME Init, NEW o \in Owners, NEW k \in Keys
               PROVE  Ends(sending[o], k, o, Latest(k, o), Asked(o, k))
    BY DEF SendingLeadsToIntent
  <2>1. sending[o] = <<>> /\ log = <<>> /\ intent[o] = EmptyMap
    BY DEF Init, BusInit
  <2>2. Latest(k, o) = Null
    BY <2>1 DEF Latest, OffsetsOf
  <2>3. Asked(o, k) = Null
    BY <2>1 DEF Asked, EmptyMap
  <2> QED
    BY <2>1, <2>2, <2>3, EndsOfNothing
<1>2. BaseInv /\ SendingLeadsToIntent /\ [Next]_vars => SendingLeadsToIntent'
  BY SendingStep
<1>3. AllJoinAtStart /\ HoldsSinceJoined /\ SendingLeadsToIntent => LastWordHolds
  <2> SUFFICES ASSUME AllJoinAtStart, HoldsSinceJoined, SendingLeadsToIntent,
                      lost = 0, crashes = 0, NEW o \in Owners, NEW r \in Owners,
                      Quiet(o, r), NEW k \in Keys
               PROVE  Held(r, k, o) = Asked(o, k)
    BY DEF LastWordHolds, Asked
  <2>1. joined[r] = 0 /\ sending[o] = <<>> /\ CaughtUp(r)
    BY DEF AllJoinAtStart, Quiet
  <2>2. Held(r, k, o) = SinceJoined(r, k, o)
    BY <2>1 DEF HoldsSinceJoined, SinceJoined
  <2>3. Held(r, k, o) = Latest(k, o)
    BY <2>1, <2>2, AllSinceStart
  <2>4. Ends(<<>>, k, o, Latest(k, o), Asked(o, k))
    BY <2>1 DEF SendingLeadsToIntent
  <2> QED
    BY <2>3, <2>4, EndsOfNothing
<1> QED
  BY <1>1, <1>2, <1>3, InboxCorrect, JoinCorrect, HoldsTopicSinceJoined, PTL DEF Spec

-----------------------------------------------------------------------------
(* The order of an owner's opinions.                                       *)

\* Opinions that do not go back, one after the other, do not go back at all.
LEMMA NotBehindTransitive ==
  ASSUME NEW x \in Values \cup {Null}, NEW y \in Values, NEW z \in Values \cup {Null},
         NotBehind(y, x), NotBehind(z, y)
  PROVE  NotBehind(z, x)
<1> SUFFICES ASSUME x # Null, z # Null PROVE crStrategy(z, x) >= 0
  BY DEF NotBehind
<1>1. x \in Values /\ z \in Values /\ y # Null
  BY NullAssumption
<1>2. crStrategy(y, x) >= 0 /\ crStrategy(z, y) >= 0
  BY <1>1 DEF NotBehind
<1> QED
  BY <1>1, <1>2, OrderingAssumption

\* An opinion does not go back behind itself.
LEMMA NotBehindItself ==
  ASSUME NEW x \in Values \cup {Null}
  PROVE  NotBehind(x, x)
BY OrderingReflexive DEF NotBehind

\* With a clock that never goes back, what an owner puts is ahead of whatever its
\* clock is ahead of.
LEMMA PutsAhead ==
  ASSUME Monotone, TypeOK, NEW o \in Owners, NEW k \in Keys, NEW v \in Values \cup {Null},
         onNext(o, k, v), NEW x \in Values \cup {Null},
         x # Null => clock[o] # Null /\ NotBehind(clock[o], x)
  PROVE  /\ NotBehind(v, x)
         /\ x # Null => clock'[o] # Null /\ NotBehind(clock'[o], x)
         /\ clock'[o] = IF v = Null THEN clock[o] ELSE v
<1>1. clock'[o] = IF v = Null THEN clock[o] ELSE v
  BY DEF onNext, TypeOK
<1>2. NotBehind(v, x)
  <2> SUFFICES ASSUME x # Null, v # Null PROVE NotBehind(v, x)
    BY DEF NotBehind
  <2>1. clock[o] \in Values /\ NotBehind(clock[o], x)
    BY DEF TypeOK
  <2>2. NotBehind(v, clock[o])
    BY DEF NotBehind, onNext
  <2> QED
    BY <2>1, <2>2, NotBehindTransitive
<1> QED
  BY <1>1, <1>2

\* An entry of the topic that is not compacted is a message, and so is an entry of
\* a queue.
LEMMA EntriesAreMessages ==
  ASSUME TypeOK
  PROVE  /\ Len(log) \in Nat
         /\ \A j \in 1..Len(log) : log[j] # Compacted =>
              log[j] \in Messages /\ log[j].value \in Values \cup {Null}
         /\ \A o \in Owners : Len(sending[o]) \in Nat /\ \A j \in 1..Len(sending[o]) :
              sending[o][j] \in Messages /\ sending[o][j].value \in Values \cup {Null}
         /\ \A o \in Owners : Len(inbox[o]) \in Nat /\ \A j \in 1..Len(inbox[o]) :
              inbox[o][j] \in Messages /\ inbox[o][j].value \in Values \cup {Null}
<1>1. \A m \in Messages : m.value \in Values \cup {Null}
  BY DEF Messages
<1> QED
  BY <1>1 DEF TypeOK

\* onNext appends to the queue what its clock allows.
LEMMA OrderOnNext ==
  ASSUME Monotone, BaseInv, OrderedInTopic, NEW p \in Owners, NEW k \in Keys,
         NEW v \in Values \cup {Null}, onNext(p, k, v)
  PROVE  OrderedInTopic'
<1>1. PICK m \in Messages :
        /\ m.value = v
        /\ sending' = sending \/ sending' = [sending EXCEPT ![p] = Append(@, m)]
  BY Publishing
<1>2. /\ log' = log /\ sending \in [Owners -> Seq(Messages)]
      /\ \A o \in Owners \ {p} : clock'[o] = clock[o]
  BY DEF onNext, BaseInv, TypeOK
<1>3. \A o \in Owners \ {p} : sending'[o] = sending[o]
  BY <1>1, <1>2
<1>4. sending'[p] = sending[p] \/ sending'[p] = Append(sending[p], m)
  BY <1>1, <1>2
<1>5. \A i \in 1..Len(sending'[p]) :
        \/ i \in 1..Len(sending[p]) /\ sending'[p][i] = sending[p][i]
        \/ i = Len(sending[p]) + 1 /\ sending'[p][i].value = v
  <2>1. CASE sending'[p] = sending[p]
    BY <2>1
  <2>2. CASE sending'[p] = Append(sending[p], m)
    BY <1>1, <1>2, <2>2
  <2> QED
    BY <1>4, <2>1, <2>2
<1>6. TypeOK
  BY DEF BaseInv
<1>7. clock'[p] = IF v = Null THEN clock[p] ELSE v
  BY DEF onNext, BaseInv, TypeOK
<1>8. \A x \in Values \cup {Null} :
        (x # Null => clock[p] # Null /\ NotBehind(clock[p], x))
          => /\ NotBehind(v, x)
             /\ x # Null => clock'[p] # Null /\ NotBehind(clock'[p], x)
  BY <1>6, PutsAhead
<1>9. v # Null => clock'[p] # Null /\ NotBehind(clock'[p], v)
  BY <1>7, NotBehindItself
<1> SUFFICES ASSUME NEW o \in Owners
             PROVE  (/\ TopicOrdered(o) /\ QueueOrdered(o) /\ QueueAheadOfTopic(o)
                     /\ ClockAheadOfQueue(o) /\ ClockAheadOfTopic(o))'
  BY DEF OrderedInTopic
<1>10. /\ TopicOrdered(o) /\ QueueOrdered(o) /\ QueueAheadOfTopic(o)
       /\ ClockAheadOfQueue(o) /\ ClockAheadOfTopic(o)
  BY DEF OrderedInTopic
<1>11. TopicOrdered(o)'
  BY <1>2, <1>10 DEF TopicOrdered
<1>12. CASE o # p
  BY <1>2, <1>3, <1>10, <1>11, <1>12
     DEF QueueOrdered, QueueAheadOfTopic, ClockAheadOfQueue, ClockAheadOfTopic
<1>13. CASE o = p
  <2>1. /\ \A i \in 1..Len(sending[p]) : sending[p][i].value \in Values \cup {Null}
        /\ \A j \in 1..Len(log) : log[j] # Compacted => log[j].value \in Values \cup {Null}
        /\ Len(sending[p]) \in Nat
    BY <1>6, EntriesAreMessages
  <2>2. \A i \in 1..Len(sending[p]) :
          /\ NotBehind(v, sending[p][i].value)
          /\ sending[p][i].value # Null
               => clock'[p] # Null /\ NotBehind(clock'[p], sending[p][i].value)
    BY <1>8, <1>10, <1>13, <2>1 DEF ClockAheadOfQueue
  <2>3. \A j \in 1..Len(log) : log[j] # Compacted /\ log[j].owner = p =>
          /\ NotBehind(v, log[j].value)
          /\ log[j].value # Null
               => clock'[p] # Null /\ NotBehind(clock'[p], log[j].value)
    BY <1>8, <1>10, <1>13, <2>1 DEF ClockAheadOfTopic
  <2>4. QueueOrdered(o)'
    <3> SUFFICES ASSUME NEW i \in 1..Len(sending'[p]), NEW j \in 1..Len(sending'[p]), i < j
                 PROVE  NotBehind(sending'[p][j].value, sending'[p][i].value)
      BY <1>13 DEF QueueOrdered
    <3>1. i \in 1..Len(sending[p]) /\ sending'[p][i] = sending[p][i]
      BY <1>5, <2>1
    <3>2. CASE j \in 1..Len(sending[p]) /\ sending'[p][j] = sending[p][j]
      BY <1>10, <1>13, <3>1, <3>2 DEF QueueOrdered
    <3>3. CASE sending'[p][j].value = v
      BY <2>2, <3>1, <3>3
    <3> QED
      BY <1>5, <3>2, <3>3
  <2>5. QueueAheadOfTopic(o)'
    <3> SUFFICES ASSUME NEW i \in 1..Len(sending'[p]), NEW j \in 1..Len(log),
                        log[j] # Compacted, log[j].owner = p
                 PROVE  NotBehind(sending'[p][i].value, log[j].value)
      BY <1>2, <1>13 DEF QueueAheadOfTopic
    <3>1. CASE i \in 1..Len(sending[p]) /\ sending'[p][i] = sending[p][i]
      BY <1>10, <1>13, <3>1 DEF QueueAheadOfTopic
    <3>2. CASE sending'[p][i].value = v
      BY <2>3, <3>2
    <3> QED
      BY <1>5, <3>1, <3>2
  <2>6. ClockAheadOfQueue(o)'
    <3> SUFFICES ASSUME NEW i \in 1..Len(sending'[p]), sending'[p][i].value # Null
                 PROVE  clock'[p] # Null /\ NotBehind(clock'[p], sending'[p][i].value)
      BY <1>13 DEF ClockAheadOfQueue
    <3>1. CASE i \in 1..Len(sending[p]) /\ sending'[p][i] = sending[p][i]
      BY <2>2, <3>1
    <3>2. CASE sending'[p][i].value = v
      BY <1>9, <3>2
    <3> QED
      BY <1>5, <3>1, <3>2
  <2>7. ClockAheadOfTopic(o)'
    BY <1>2, <1>13, <2>3 DEF ClockAheadOfTopic
  <2> QED
    BY <1>11, <2>4, <2>5, <2>6, <2>7
<1> QED
  BY <1>12, <1>13

\* What is delivered is the oldest of the queue, and ahead of the topic.
LEMMA OrderDeliver ==
  ASSUME BaseInv, OrderedInTopic, NEW p \in Owners, deliver(p)
  PROVE  OrderedInTopic'
<1> DEFINE m == Head(sending[p])
           n == Len(log) + 1
<1>1. /\ sending \in [Owners -> Seq(Messages)] /\ sending[p] # <<>>
      /\ sending' = [sending EXCEPT ![p] = Tail(@)]
      /\ clock' = clock /\ log' = Append(log, m)
      /\ log \in Seq(Messages \cup {Compacted})
  BY DEF deliver, BaseInv, TypeOK, asked
<1>2. /\ Len(sending[p]) \in Nat /\ 1 \in 1..Len(sending[p]) /\ m = sending[p][1]
      /\ m \in Messages /\ m.owner = p
  BY <1>1 DEF BaseInv, SendsOwnOpinions
<1>3. /\ Len(log) \in Nat /\ Len(log') = n /\ log'[n] = m
      /\ \A j \in 1..Len(log) : log'[j] = log[j]
  BY <1>1, <1>2
<1>4. \A j \in 1..Len(log') : j \in 1..Len(log) \/ j = n
  BY <1>3
<1>5. \A i \in 1..Len(sending'[p]) :
        /\ i + 1 \in 1..Len(sending[p])
        /\ sending'[p][i] = sending[p][i + 1]
  BY <1>1, <1>2
<1>6. \A o \in Owners \ {p} : sending'[o] = sending[o]
  BY <1>1
<1> HIDE DEF m, n
<1> SUFFICES ASSUME NEW o \in Owners
             PROVE  (/\ TopicOrdered(o) /\ QueueOrdered(o) /\ QueueAheadOfTopic(o)
                     /\ ClockAheadOfQueue(o) /\ ClockAheadOfTopic(o))'
  BY DEF OrderedInTopic
<1>7. /\ TopicOrdered(o) /\ QueueOrdered(o) /\ QueueAheadOfTopic(o)
      /\ ClockAheadOfQueue(o) /\ ClockAheadOfTopic(o)
  BY DEF OrderedInTopic
<1>8. TopicOrdered(o)'
  <2> SUFFICES ASSUME NEW i \in 1..Len(log'), NEW j \in 1..Len(log'), i < j,
                      log'[i] # Compacted, log'[i].owner = o,
                      log'[j] # Compacted, log'[j].owner = o
               PROVE  NotBehind(log'[j].value, log'[i].value)
    BY DEF TopicOrdered
  <2>1. i \in 1..Len(log) /\ log'[i] = log[i]
    BY <1>3, <1>4 DEF n
  <2>2. CASE j \in 1..Len(log)
    BY <1>3, <1>7, <2>1, <2>2 DEF TopicOrdered
  <2>3. CASE j = n
    <3>1. o = p
      BY <1>2, <1>3, <2>3
    <3>2. NotBehind(sending[p][1].value, log[i].value)
      BY <1>2, <1>7, <2>1, <3>1 DEF QueueAheadOfTopic
    <3> QED
      BY <1>2, <1>3, <2>1, <2>3, <3>2
  <2> QED
    BY <1>4, <2>2, <2>3
<1>9. CASE o # p
  <2>1. log'[n].owner # o
    BY <1>2, <1>3, <1>9
  <2>2. QueueOrdered(o)' /\ ClockAheadOfQueue(o)'
    BY <1>1, <1>6, <1>7, <1>9 DEF QueueOrdered, ClockAheadOfQueue
  <2>3. QueueAheadOfTopic(o)'
    BY <1>3, <1>4, <1>6, <1>7, <1>9, <2>1 DEF QueueAheadOfTopic
  <2>4. ClockAheadOfTopic(o)'
    BY <1>1, <1>3, <1>4, <1>7, <2>1 DEF ClockAheadOfTopic
  <2> QED
    BY <1>8, <2>2, <2>3, <2>4
<1>10. CASE o = p
  <2>1. QueueOrdered(o)'
    <3> SUFFICES ASSUME NEW i \in 1..Len(sending'[p]), NEW j \in 1..Len(sending'[p]), i < j
                 PROVE  NotBehind(sending'[p][j].value, sending'[p][i].value)
      BY <1>10 DEF QueueOrdered
    <3>1. i + 1 < j + 1
      OBVIOUS
    <3> QED
      BY <1>5, <1>7, <1>10, <3>1 DEF QueueOrdered
  <2>2. ClockAheadOfQueue(o)'
    BY <1>1, <1>5, <1>7, <1>10 DEF ClockAheadOfQueue
  <2>3. QueueAheadOfTopic(o)'
    <3> SUFFICES ASSUME NEW i \in 1..Len(sending'[p]), NEW j \in 1..Len(log'),
                        log'[j] # Compacted, log'[j].owner = p
                 PROVE  NotBehind(sending'[p][i].value, log'[j].value)
      BY <1>10 DEF QueueAheadOfTopic
    <3>1. CASE j \in 1..Len(log)
      BY <1>3, <1>5, <1>7, <1>10, <3>1 DEF QueueAheadOfTopic
    <3>2. CASE j = n
      <4>1. /\ 1 < i + 1 /\ i + 1 \in 1..Len(sending[p]) /\ 1 \in 1..Len(sending[p])
            /\ sending'[p][i] = sending[p][i + 1]
        BY <1>2, <1>5
      <4>2. NotBehind(sending[p][i + 1].value, sending[p][1].value)
        BY <1>7, <1>10, <4>1 DEF QueueOrdered
      <4> QED
        BY <1>2, <1>3, <3>2, <4>1, <4>2
    <3> QED
      BY <1>4, <3>1, <3>2
  <2>4. ClockAheadOfTopic(o)'
    <3> SUFFICES ASSUME NEW j \in 1..Len(log'), log'[j] # Compacted,
                        log'[j].owner = p, log'[j].value # Null
                 PROVE  clock[p] # Null /\ NotBehind(clock[p], log'[j].value)
      BY <1>1, <1>10 DEF ClockAheadOfTopic
    <3>1. CASE j \in 1..Len(log)
      BY <1>3, <1>7, <1>10, <3>1 DEF ClockAheadOfTopic
    <3>2. CASE j = n
      BY <1>2, <1>3, <1>7, <1>10, <3>2 DEF ClockAheadOfQueue
    <3> QED
      BY <1>4, <3>1, <3>2
  <2> QED
    BY <1>8, <2>1, <2>2, <2>3, <2>4
<1> QED
  BY <1>9, <1>10

\* OrderedInTopic is about the topic, the queues and the clocks only, and asks
\* nothing of entries that are not there.
LEMMA OrderOfFewer ==
  ASSUME BaseInv, OrderedInTopic, clock' = clock,
         Len(log') <= Len(log), Len(log') \in Nat,
         \A j \in 1..Len(log') : log'[j] = Compacted \/ log'[j] = log[j],
         NEW d \in [Owners -> Nat],
         \A o \in Owners : \A i \in 1..Len(sending'[o]) :
           i + d[o] \in 1..Len(sending[o]) /\ sending'[o][i] = sending[o][i + d[o]]
  PROVE  OrderedInTopic'
<1> SUFFICES ASSUME NEW o \in Owners
             PROVE  (/\ TopicOrdered(o) /\ QueueOrdered(o) /\ QueueAheadOfTopic(o)
                     /\ ClockAheadOfQueue(o) /\ ClockAheadOfTopic(o))'
  BY DEF OrderedInTopic
<1>1. /\ TopicOrdered(o) /\ QueueOrdered(o) /\ QueueAheadOfTopic(o)
      /\ ClockAheadOfQueue(o) /\ ClockAheadOfTopic(o)
  BY DEF OrderedInTopic
<1>2. Len(log) \in Nat /\ \A j \in 1..Len(log') : j \in 1..Len(log)
  BY EntriesAreMessages DEF BaseInv
<1>3. \A j \in 1..Len(log') : log'[j] # Compacted => log'[j] = log[j]
  OBVIOUS
<1>4. TopicOrdered(o)'
  BY <1>1, <1>2, <1>3 DEF TopicOrdered
<1>5. \A i \in 1..Len(sending'[o]) :
        i + d[o] \in 1..Len(sending[o]) /\ sending'[o][i] = sending[o][i + d[o]]
  OBVIOUS
<1>6. QueueOrdered(o)'
  <2> SUFFICES ASSUME NEW i \in 1..Len(sending'[o]), NEW j \in 1..Len(sending'[o]), i < j
               PROVE  NotBehind(sending'[o][j].value, sending'[o][i].value)
    BY DEF QueueOrdered
  <2>1. i + d[o] < j + d[o]
    OBVIOUS
  <2> QED
    BY <1>1, <1>5, <2>1 DEF QueueOrdered
<1>7. QueueAheadOfTopic(o)'
  <2> SUFFICES ASSUME NEW i \in 1..Len(sending'[o]), NEW j \in 1..Len(log'),
                      log'[j] # Compacted, log'[j].owner = o
               PROVE  NotBehind(sending'[o][i].value, log'[j].value)
    BY DEF QueueAheadOfTopic
  <2>1. j \in 1..Len(log) /\ log'[j] = log[j]
    BY <1>2, <1>3
  <2>2. i + d[o] \in 1..Len(sending[o]) /\ sending'[o][i] = sending[o][i + d[o]]
    BY <1>5
  <2>3. NotBehind(sending[o][i + d[o]].value, log[j].value)
    BY <1>1, <2>1, <2>2 DEF QueueAheadOfTopic
  <2> QED
    BY <2>1, <2>2, <2>3
<1>8. ClockAheadOfQueue(o)'
  BY <1>1, <1>5 DEF ClockAheadOfQueue
<1>9. ClockAheadOfTopic(o)'
  BY <1>1, <1>2, <1>3 DEF ClockAheadOfTopic
<1> QED
  BY <1>4, <1>6, <1>7, <1>8, <1>9

\* Every step keeps the order in the topic, when the clocks never go back.
LEMMA OrderStep ==
  ASSUME Monotone, BaseInv, OrderedInTopic, [Next]_vars
  PROVE  OrderedInTopic'
<1> USE DEF asked
<1>1. ASSUME UNCHANGED <<log, sending, clock>>
      PROVE  OrderedInTopic'
  BY <1>1 DEF OrderedInTopic, TopicOrdered, QueueOrdered, QueueAheadOfTopic,
              ClockAheadOfQueue, ClockAheadOfTopic
<1>2. ASSUME NEW o \in Owners,
             \/ BusOnly(o) \/ connect(o) \/ subscribeMap(o) \/ consume(o)
             \/ onNewOpinion(o)
      PROVE  OrderedInTopic'
  <2>1. UNCHANGED <<log, sending, clock>>
    BY <1>2 DEF BusOnly, topicExists, createTopic, autoCommit, shutdown,
                consumerShutdown, connect, subscribeMap, consume, onNewOpinion
  <2> QED
    BY <1>1, <2>1
<1>3. sending \in [Owners -> Seq(Messages)] /\ log \in Seq(Messages \cup {Compacted})
      /\ Len(log) \in Nat
  BY DEF BaseInv, TypeOK
<1>4. ASSUME NEW p \in Owners, sendFails(p)
      PROVE  OrderedInTopic'
  <2>1. /\ UNCHANGED <<log, clock>> /\ sending[p] # <<>>
        /\ sending' = [sending EXCEPT ![p] = Tail(@)]
    BY <1>4 DEF sendFails
  <2> DEFINE d == [o \in Owners |-> IF o = p THEN 1 ELSE 0]
  <2>2. d \in [Owners -> Nat]
    OBVIOUS
  <2>3. ASSUME NEW o \in Owners, NEW i \in 1..Len(sending'[o])
        PROVE  i + d[o] \in 1..Len(sending[o]) /\ sending'[o][i] = sending[o][i + d[o]]
    <3>1. CASE o = p
      BY <1>3, <2>1, <3>1
    <3>2. CASE o # p
      BY <1>3, <2>1, <3>2
    <3> QED
      BY <3>1, <3>2
  <2>4. /\ clock' = clock /\ Len(log') <= Len(log) /\ Len(log') \in Nat
        /\ \A j \in 1..Len(log') : log'[j] = Compacted \/ log'[j] = log[j]
    BY <1>3, <2>1
  <2> HIDE DEF d
  <2> QED
    BY <2>2, <2>3, <2>4, OrderOfFewer
<1>5. ASSUME NEW p \in Owners, processDies(p)
      PROVE  OrderedInTopic'
  <2>1. UNCHANGED <<log, clock>> /\ sending' = [sending EXCEPT ![p] = <<>>]
    BY <1>5 DEF processDies, crash
  <2> DEFINE d == [o \in Owners |-> 0]
  <2>2. d \in [Owners -> Nat]
    OBVIOUS
  <2>3. ASSUME NEW o \in Owners, NEW i \in 1..Len(sending'[o])
        PROVE  i + d[o] \in 1..Len(sending[o]) /\ sending'[o][i] = sending[o][i + d[o]]
    <3>1. CASE o = p
      BY <1>3, <2>1, <3>1
    <3>2. CASE o # p
      BY <1>3, <2>1, <3>2
    <3> QED
      BY <3>1, <3>2
  <2>4. /\ clock' = clock /\ Len(log') <= Len(log) /\ Len(log') \in Nat
        /\ \A j \in 1..Len(log') : log'[j] = Compacted \/ log'[j] = log[j]
    BY <1>3, <2>1
  <2> HIDE DEF d
  <2> QED
    BY <2>2, <2>3, <2>4, OrderOfFewer
<1>6. ASSUME NEW a \in DOMAIN log, compact(a)
      PROVE  OrderedInTopic'
  <2>1. UNCHANGED <<sending, clock>> /\ log' = [log EXCEPT ![a] = Compacted]
    BY <1>6 DEF compact
  <2>2. Len(log') = Len(log) /\ \A j \in 1..Len(log') : log'[j] = Compacted \/ log'[j] = log[j]
    BY <1>3, <2>1
  <2> DEFINE d == [o \in Owners |-> 0]
  <2>3. d \in [Owners -> Nat]
    OBVIOUS
  <2>4. ASSUME NEW o \in Owners, NEW i \in 1..Len(sending'[o])
        PROVE  i + d[o] \in 1..Len(sending[o]) /\ sending'[o][i] = sending[o][i + d[o]]
    BY <1>3, <2>1
  <2> HIDE DEF d
  <2> QED
    BY <1>3, <2>1, <2>2, <2>3, <2>4, OrderOfFewer
<1>7. CASE UNCHANGED vars
  BY <1>1, <1>7 DEF vars, busVars
<1> QED
  BY <1>2, <1>4, <1>5, <1>6, <1>7, OrderOnNext, OrderDeliver DEF Next, BusStep, BusOnly

-----------------------------------------------------------------------------
(* The order at a replica.                                                 *)

\* Whatever comes later is ahead of what was removed.
LEMMA AheadOfNull ==
  ASSUME NEW r, NEW o
  PROVE  AheadOf(r, o, Null) /\ \A y : NotBehind(y, Null)
BY DEF AheadOf, NotBehind

\* What is ahead of an opinion stays ahead of it, in every step but the one in
\* which the consumer starts again.
LEMMA AheadStep ==
  ASSUME Monotone, BaseInv, [Next]_vars, NEW r \in Owners, NEW o \in Owners,
         NEW x \in Values \cup {Null}, AheadOf(r, o, x), ~connect(r)
  PROVE  AheadOf(r, o, x)'
<1> USE DEF asked
<1>1. ASSUME UNCHANGED <<log, sending, clock>>, position'[r] = position[r]
      PROVE  AheadOf(r, o, x)'
  BY <1>1 DEF AheadOf
<1>2. ASSUME NEW p \in Owners,
             \/ BusOnly(p) \/ subscribeMap(p) \/ onNewOpinion(p)
             \/ connect(p) \/ consume(p)
      PROVE  AheadOf(r, o, x)'
  <2>1. UNCHANGED <<log, sending, clock>>
    BY <1>2 DEF BusOnly, topicExists, createTopic, autoCommit, shutdown,
                consumerShutdown, connect, subscribeMap, consume, onNewOpinion
  <2>2. CASE BusOnly(p) \/ subscribeMap(p) \/ onNewOpinion(p)
    <3>1. position' = position
      BY <2>2 DEF BusOnly, topicExists, createTopic, autoCommit, shutdown,
                  consumerShutdown, subscribeMap, onNewOpinion
    <3> QED
      BY <1>1, <2>1, <3>1
  <2>3. CASE connect(p)
    <3>1. position'[r] = position[r]
      BY <2>3 DEF connect, BaseInv, TypeOK
    <3> QED
      BY <1>1, <2>1, <3>1
  <2>4. CASE consume(p)
    <3>1. /\ position[r] \in Nat /\ position'[r] \in Nat /\ position[r] <= position'[r]
          /\ Len(log) \in Nat
      <4>1. position \in [Owners -> Nat] /\ Len(log) \in Nat
        BY DEF BaseInv, TypeOK
      <4>2. position' = [position EXCEPT ![p] = position[p] + 1]
        BY <2>4 DEF consume
      <4> QED
        BY <4>1, <4>2
    <3>2. \A j \in position'[r] + 1 .. Len(log) : j \in position[r] + 1 .. Len(log)
      BY <3>1
    <3> QED
      BY <2>1, <3>2 DEF AheadOf
  <2> QED
    BY <1>2, <2>2, <2>3, <2>4
<1>3. /\ sending \in [Owners -> Seq(Messages)] /\ log \in Seq(Messages \cup {Compacted})
      /\ Len(log) \in Nat /\ position[r] \in Nat /\ position[r] <= Len(log)
  BY DEF BaseInv, TypeOK
<1>4. ASSUME NEW p \in Owners, NEW k \in Keys, NEW v \in Values \cup {Null}, onNext(p, k, v)
      PROVE  AheadOf(r, o, x)'
  <2>1. log' = log /\ position' = position
    BY <1>4 DEF onNext
  <2>2. PICK m \in Messages :
          /\ m.value = v
          /\ sending' = sending \/ sending' = [sending EXCEPT ![p] = Append(@, m)]
    BY <1>4, Publishing
  <2>3. CASE o # p
    <3>1. sending'[o] = sending[o] /\ clock'[o] = clock[o]
      BY <1>3, <1>4, <2>2, <2>3 DEF onNext, BaseInv, TypeOK
    <3> QED
      BY <2>1, <3>1 DEF AheadOf
  <2>4. CASE o = p
    <3>1. x # Null => clock[p] # Null /\ NotBehind(clock[p], x)
      BY <2>4 DEF AheadOf
    <3>2. /\ NotBehind(v, x)
          /\ x # Null => clock'[p] # Null /\ NotBehind(clock'[p], x)
      BY <1>4, <3>1, PutsAhead DEF BaseInv
    <3>3. sending'[p] = sending[p] \/ sending'[p] = Append(sending[p], m)
      BY <1>3, <2>2
    <3>4. \A i \in 1..Len(sending'[p]) : NotBehind(sending'[p][i].value, x)
      <4>1. CASE sending'[p] = sending[p]
        BY <2>4, <4>1 DEF AheadOf
      <4>2. CASE sending'[p] = Append(sending[p], m)
        <5> SUFFICES ASSUME NEW i \in 1..Len(sending'[p])
                     PROVE  NotBehind(sending'[p][i].value, x)
          OBVIOUS
        <5>1. \/ i \in 1..Len(sending[p]) /\ sending'[p][i] = sending[p][i]
              \/ sending'[p][i] = m
          BY <1>3, <4>2
        <5> QED
          BY <2>2, <2>4, <3>2, <5>1 DEF AheadOf
      <4> QED
        BY <3>3, <4>1, <4>2
    <3> QED
      BY <2>1, <2>4, <3>2, <3>4 DEF AheadOf
  <2> QED
    BY <2>3, <2>4
<1>5. ASSUME NEW p \in Owners, deliver(p)
      PROVE  AheadOf(r, o, x)'
  <2> DEFINE m == Head(sending[p])
             n == Len(log) + 1
  <2>1. /\ sending[p] # <<>> /\ clock' = clock /\ position' = position
        /\ sending' = [sending EXCEPT ![p] = Tail(@)] /\ log' = Append(log, m)
    BY <1>5 DEF deliver
  <2>2. 1 \in 1..Len(sending[p]) /\ m = sending[p][1] /\ m \in Messages /\ m.owner = p
    BY <1>3, <2>1 DEF BaseInv, SendsOwnOpinions
  <2>3. /\ Len(log') = n /\ log'[n] = m
        /\ \A j \in 1..Len(log) : log'[j] = log[j]
    BY <1>3, <2>1, <2>2
  <2>4. \A i \in 1..Len(sending'[o]) : NotBehind(sending'[o][i].value, x)
    <3> SUFFICES ASSUME NEW i \in 1..Len(sending'[o])
                 PROVE  NotBehind(sending'[o][i].value, x)
      OBVIOUS
    <3>1. \E j \in 1..Len(sending[o]) : sending'[o][i] = sending[o][j]
      <4>1. CASE o # p
        BY <1>3, <2>1, <4>1
      <4>2. CASE o = p
        <5>1. i + 1 \in 1..Len(sending[o]) /\ sending'[o][i] = sending[o][i + 1]
          BY <1>3, <2>1, <4>2
        <5> QED
          BY <5>1
      <4> QED
        BY <4>1, <4>2
    <3> QED
      BY <3>1 DEF AheadOf
  <2> HIDE DEF m
  <2>5. ASSUME NEW j \in position[r] + 1 .. Len(log'), log'[j] # Compacted, log'[j].owner = o
        PROVE  NotBehind(log'[j].value, x)
    <3>1. CASE j = n
      <4>1. o = p /\ log'[j] = sending[o][1] /\ 1 \in 1..Len(sending[o])
        BY <2>2, <2>3, <2>5, <3>1
      <4> QED
        BY <4>1 DEF AheadOf
    <3>2. CASE j # n
      <4>1. j \in position[r] + 1 .. Len(log) /\ j \in 1..Len(log)
        BY <1>3, <2>3, <3>2
      <4> QED
        BY <2>3, <2>5, <4>1 DEF AheadOf
    <3> QED
      BY <3>1, <3>2
  <2> QED
    BY <2>1, <2>4, <2>5 DEF AheadOf
<1>6. ASSUME NEW p \in Owners, sendFails(p) \/ processDies(p)
      PROVE  AheadOf(r, o, x)'
  <2>1. UNCHANGED <<log, clock, position>>
    BY <1>6 DEF sendFails, processDies, crash
  <2>2. \/ sending' = [sending EXCEPT ![p] = <<>>]
        \/ sending[p] # <<>> /\ sending' = [sending EXCEPT ![p] = Tail(@)]
    BY <1>6 DEF sendFails, processDies, crash
  <2>3. ASSUME NEW i \in 1..Len(sending'[o])
        PROVE  \E j \in 1..Len(sending[o]) : sending'[o][i] = sending[o][j]
    <3>1. CASE o # p
      BY <1>3, <2>2, <3>1
    <3>2. CASE o = p /\ sending' = [sending EXCEPT ![p] = <<>>]
      BY <1>3, <3>2
    <3>3. CASE o = p /\ sending[p] # <<>> /\ sending' = [sending EXCEPT ![p] = Tail(@)]
      <4>1. i + 1 \in 1..Len(sending[o]) /\ sending'[o][i] = sending[o][i + 1]
        BY <1>3, <3>3
      <4> QED
        BY <4>1
    <3> QED
      BY <2>2, <3>1, <3>2, <3>3
  <2> QED
    BY <2>1, <2>3 DEF AheadOf
<1>7. ASSUME NEW a \in DOMAIN log, compact(a)
      PROVE  AheadOf(r, o, x)'
  <2>1. UNCHANGED <<sending, clock, position>> /\ log' = [log EXCEPT ![a] = Compacted]
    BY <1>7 DEF compact
  <2>2. /\ Len(log') = Len(log)
        /\ \A j \in 1..Len(log) : log'[j] = Compacted \/ log'[j] = log[j]
    BY <1>3, <2>1
  <2>3. \A j \in position[r] + 1 .. Len(log) : j \in 1..Len(log)
    BY <1>3
  <2> QED
    BY <2>1, <2>2, <2>3 DEF AheadOf
<1>8. CASE UNCHANGED vars
  BY <1>1, <1>8 DEF vars, busVars
<1> QED
  BY <1>2, <1>4, <1>5, <1>6, <1>7, <1>8 DEF Next, BusStep, BusOnly

\* The order at a replica goes on when nothing comes to its inbox or leaves it.
LEMMA ReplicaUntouched ==
  ASSUME Monotone, BaseInv, [Next]_vars, NEW r \in Owners, NEW o \in Owners,
         InboxOrdered(r, o), CacheOrdered(r, o), ~connect(r),
         inbox'[r] = inbox[r], cache'[r] = cache[r]
  PROVE  InboxOrdered(r, o)' /\ CacheOrdered(r, o)'
<1>1. \A k : Held(r, k, o)' = Held(r, k, o)
  BY DEF Held
<1>2. \A k \in Keys : Held(r, k, o) \in Values \cup {Null}
  BY HeldInCache, OpinionInType DEF BaseInv, TypeOK
<1>3. \A i \in 1..Len(inbox[r]) : inbox[r][i].value \in Values \cup {Null}
  BY EntriesAreMessages DEF BaseInv
<1>4. \A x \in Values \cup {Null} : AheadOf(r, o, x) => AheadOf(r, o, x)'
  BY AheadStep
<1>5. InboxOrdered(r, o)'
  <2> SUFFICES ASSUME NEW i \in 1..Len(inbox[r]), inbox[r][i].owner = o
               PROVE  AheadOf(r, o, inbox[r][i].value)'
    BY DEF InboxOrdered
  <2>1. AheadOf(r, o, inbox[r][i].value)
    BY DEF InboxOrdered
  <2> DEFINE x == inbox[r][i].value
  <2>2. x \in Values \cup {Null}
    BY <1>3
  <2> QED
    BY <1>4, <2>1, <2>2
<1>6. CacheOrdered(r, o)'
  BY <1>1, <1>2, <1>4 DEF CacheOrdered
<1> QED
  BY <1>5, <1>6

\* A replica that has nothing is in order.
LEMMA NothingOrdered ==
  ASSUME NEW r, NEW o, inbox[r] = <<>>, cache[r] = EmptyMap
  PROVE  InboxOrdered(r, o) /\ CacheOrdered(r, o)
<1>1. \A k : Held(r, k, o) = Null
  BY HeldInCache, NothingInEmptyCache
<1>2. InboxOrdered(r, o)
  BY DEF InboxOrdered
<1>3. CacheOrdered(r, o)
  BY <1>1, AheadOfNull DEF CacheOrdered
<1> QED
  BY <1>2, <1>3

\* What the consumer hands over is ahead of all the replica has, and behind all
\* that is still to come.
LEMMA ReplicaConsume ==
  ASSUME Monotone, BaseInv, OrderedInTopic, [Next]_vars,
         NEW r \in Owners, NEW o \in Owners,
         InboxOrdered(r, o), CacheOrdered(r, o), consume(r), cache' = cache
  PROVE  InboxOrdered(r, o)' /\ CacheOrdered(r, o)'
<1> DEFINE n == position[r] + 1
           c == log[n]
           s == inbox[r]
<1>1. /\ position[r] \in Nat /\ Len(log) \in Nat /\ n \in 1..Len(log)
      /\ position'[r] = n /\ s \in Seq(Messages)
      /\ c \in Messages \cup {Compacted}
      /\ inbox'[r] = IF mapped[r] /\ c # Compacted THEN Append(s, c) ELSE s
  BY DEF consume, BaseInv, TypeOK
<1>2. ~connect(r)
  BY DEF consume, connect
<1>3. CASE inbox'[r] = s
  BY <1>2, <1>3, ReplicaUntouched
<1>4. CASE inbox'[r] = Append(s, c) /\ c # Compacted
  <2>1. UNCHANGED <<log, sending, clock>>
    BY DEF consume, asked
  <2>2. /\ Len(inbox'[r]) = Len(s) + 1 /\ Len(s) \in Nat /\ inbox'[r][Len(s) + 1] = c
        /\ \A i \in 1..Len(s) : inbox'[r][i] = s[i]
    BY <1>1, <1>4
  <2>3. \A i \in 1..Len(inbox'[r]) : i \in 1..Len(s) \/ i = Len(s) + 1
    BY <2>2
  <2>4. \A x \in Values \cup {Null} : AheadOf(r, o, x) => AheadOf(r, o, x)'
    BY <1>2, AheadStep
  <2>5. \A k : Held(r, k, o)' = Held(r, k, o)
    BY DEF Held
  <2>6. \A k \in Keys : Held(r, k, o) \in Values \cup {Null}
    BY HeldInCache, OpinionInType DEF BaseInv, TypeOK
  <2>7. \A i \in 1..Len(s) : s[i].value \in Values \cup {Null}
    BY EntriesAreMessages DEF BaseInv
  <2>8. n \in position[r] + 1 .. Len(log)
    BY <1>1
  <2>9. ASSUME NEW x, AheadOf(r, o, x), c.owner = o
        PROVE  NotBehind(c.value, x)
    BY <1>4, <2>8, <2>9 DEF AheadOf
  <2>10. ASSUME NEW x, x = c.value, c.owner = o
         PROVE  AheadOf(r, o, x)'
    <3>1. TopicOrdered(o) /\ QueueAheadOfTopic(o) /\ ClockAheadOfTopic(o)
      BY DEF OrderedInTopic
    <3>2. ASSUME NEW j \in n + 1 .. Len(log), log[j] # Compacted, log[j].owner = o
          PROVE  NotBehind(log[j].value, x)
      <4>1. j \in 1..Len(log) /\ n < j
        BY <1>1
      <4> QED
        BY <1>1, <1>4, <2>10, <3>1, <3>2, <4>1 DEF TopicOrdered
    <3>3. \A j \in 1..Len(sending[o]) : NotBehind(sending[o][j].value, x)
      BY <1>1, <1>4, <2>10, <3>1 DEF QueueAheadOfTopic
    <3>4. x # Null => clock[o] # Null /\ NotBehind(clock[o], x)
      BY <1>1, <1>4, <2>10, <3>1 DEF ClockAheadOfTopic
    <3> HIDE DEF n, c
    <3> QED
      BY <1>1, <2>1, <3>2, <3>3, <3>4 DEF AheadOf
  <2> HIDE DEF n, c
  <2>11. InboxOrdered(r, o)'
    <3>1. ASSUME NEW i \in 1..Len(inbox'[r]), inbox'[r][i].owner = o
          PROVE  AheadOf(r, o, inbox[r][i].value)'
      <4>1. CASE i \in 1..Len(s)
        <5> DEFINE x == s[i].value
        <5>1. inbox'[r][i].value = x /\ x \in Values \cup {Null} /\ AheadOf(r, o, x)
          BY <2>2, <2>7, <3>1, <4>1 DEF InboxOrdered
        <5> HIDE DEF x
        <5> QED
          BY <2>4, <5>1
      <4>2. CASE i = Len(s) + 1
        BY <2>2, <2>10, <3>1, <4>2
      <4> QED
        BY <2>3, <4>1, <4>2
    <3>2. ASSUME NEW i \in 1..Len(inbox'[r]), inbox'[r][i].owner = o,
                 NEW j \in 1..Len(inbox'[r]), inbox'[r][j].owner = o, i < j
          PROVE  NotBehind(inbox'[r][j].value, inbox'[r][i].value)
      <4>1. i \in 1..Len(s) /\ inbox'[r][i] = s[i]
        BY <2>2, <2>3, <3>2
      <4>2. CASE j \in 1..Len(s)
        BY <2>2, <3>2, <4>1, <4>2 DEF InboxOrdered
      <4>3. CASE j = Len(s) + 1
        <5>1. AheadOf(r, o, s[i].value)
          BY <3>2, <4>1 DEF InboxOrdered
        <5> QED
          BY <2>2, <2>9, <3>2, <4>1, <4>3, <5>1
      <4> QED
        BY <2>3, <4>2, <4>3
    <3> QED
      BY <3>1, <3>2 DEF InboxOrdered
  <2>12. CacheOrdered(r, o)'
    <3> SUFFICES ASSUME NEW k \in Keys
                 PROVE  /\ AheadOf(r, o, Held(r, k, o))'
                        /\ \A j \in 1..Len(inbox'[r]) : inbox'[r][j].owner = o
                             => NotBehind(inbox'[r][j].value, Held(r, k, o))
      BY <2>5 DEF CacheOrdered
    <3> DEFINE x == Held(r, k, o)
    <3>1. x \in Values \cup {Null} /\ AheadOf(r, o, x) /\ x' = x
      BY <2>5, <2>6 DEF CacheOrdered
    <3>2. AheadOf(r, o, Held(r, k, o))'
      BY <2>4, <3>1
    <3>3. ASSUME NEW j \in 1..Len(inbox'[r]), inbox'[r][j].owner = o
          PROVE  NotBehind(inbox'[r][j].value, x)
      <4>1. CASE j \in 1..Len(s)
        BY <2>2, <3>3, <4>1 DEF CacheOrdered
      <4>2. CASE j = Len(s) + 1
        BY <2>2, <2>9, <3>1, <3>3, <4>2
      <4> QED
        BY <2>3, <4>1, <4>2
    <3> QED
      BY <3>2, <3>3
  <2> QED
    BY <2>11, <2>12
<1> QED
  BY <1>1, <1>3, <1>4

\* A handled message was the oldest of the inbox.
LEMMA ReplicaHandle ==
  ASSUME Monotone, BaseInv, [Next]_vars, NEW r \in Owners, NEW o \in Owners,
         InboxOrdered(r, o), CacheOrdered(r, o), onNewOpinion(r), ~connect(r)
  PROVE  InboxOrdered(r, o)' /\ CacheOrdered(r, o)'
<1> DEFINE m == Head(inbox[r])
           s == inbox[r]
<1>1. PICK c \in Caches :
        /\ cache' = [cache EXCEPT ![r] = c]
        /\ \A k \in Keys, p \in Owners : OpinionIn(c, k, p) =
             IF k = m.key /\ p = m.owner THEN m.value ELSE OpinionIn(cache[r], k, p)
  BY HandlerStep DEF BaseInv
<1>2. m \in Messages /\ inbox' = [inbox EXCEPT ![r] = Tail(@)]
  BY HandlerStep DEF BaseInv
<1>3. inbox \in [Owners -> Seq(Messages)] /\ s # <<>>
  BY DEF BaseInv, TypeOK, onNewOpinion
<1>4. Len(s) \in Nat /\ 1 \in 1..Len(s) /\ m = s[1]
  BY <1>3
<1>5. \A i \in 1..Len(inbox'[r]) : i + 1 \in 1..Len(s) /\ inbox'[r][i] = s[i + 1] /\ 1 < i + 1
  BY <1>2, <1>3, <1>4
<1>6. \A x \in Values \cup {Null} : AheadOf(r, o, x) => AheadOf(r, o, x)'
  BY AheadStep
<1>7. \A i \in 1..Len(s) : s[i].value \in Values \cup {Null}
  BY EntriesAreMessages DEF BaseInv
<1>8. \A k \in Keys : Held(r, k, o) \in Values \cup {Null}
  BY HeldInCache, OpinionInType DEF BaseInv, TypeOK
<1>9. \A k \in Keys : Held(r, k, o)' = IF k = m.key /\ o = m.owner THEN m.value
                                                                 ELSE Held(r, k, o)
  <2>1. cache'[r] = c
    BY <1>1 DEF BaseInv, TypeOK
  <2>2. \A k : Held(r, k, o)' = OpinionIn(c, k, o)
    BY <2>1 DEF Held, OpinionIn
  <2> QED
    BY <1>1, <2>2, HeldInCache
<1> HIDE DEF m
<1>10. InboxOrdered(r, o)'
  <2>1. ASSUME NEW i \in 1..Len(inbox'[r]), inbox'[r][i].owner = o
        PROVE  AheadOf(r, o, inbox[r][i].value)'
    <3> DEFINE x == s[i + 1].value
    <3>1. inbox'[r][i].value = x /\ x \in Values \cup {Null} /\ AheadOf(r, o, x)
      BY <1>5, <1>7, <2>1 DEF InboxOrdered
    <3> HIDE DEF x
    <3> QED
      BY <1>6, <3>1
  <2>2. ASSUME NEW i \in 1..Len(inbox'[r]), inbox'[r][i].owner = o,
               NEW j \in 1..Len(inbox'[r]), inbox'[r][j].owner = o, i < j
        PROVE  NotBehind(inbox'[r][j].value, inbox'[r][i].value)
    <3>1. i + 1 < j + 1
      BY <2>2
    <3> QED
      BY <1>5, <2>2, <3>1 DEF InboxOrdered
  <2> QED
    BY <2>1, <2>2 DEF InboxOrdered
<1>11. CacheOrdered(r, o)'
  <2> SUFFICES ASSUME NEW k \in Keys
               PROVE  /\ AheadOf(r, o, Held(r, k, o))'
                      /\ \A j \in 1..Len(inbox'[r]) : inbox'[r][j].owner = o
                           => NotBehind(inbox'[r][j].value, Held(r, k, o)')
    BY DEF CacheOrdered
  <2> DEFINE x == IF k = m.key /\ o = m.owner THEN m.value ELSE Held(r, k, o)
  <2>1. /\ x \in Values \cup {Null} /\ AheadOf(r, o, x) /\ Held(r, k, o)' = x
    BY <1>4, <1>7, <1>8, <1>9 DEF InboxOrdered, CacheOrdered
  <2>2. ASSUME NEW j \in 1..Len(inbox'[r]), inbox'[r][j].owner = o
        PROVE  NotBehind(inbox'[r][j].value, x)
    <3>1. CASE k = m.key /\ o = m.owner
      BY <1>4, <1>5, <2>2, <3>1 DEF InboxOrdered
    <3>2. CASE ~(k = m.key /\ o = m.owner)
      BY <1>5, <2>2, <3>2 DEF CacheOrdered
    <3> QED
      BY <3>1, <3>2
  <2> HIDE DEF x
  <2> QED
    BY <1>6, <2>1, <2>2
<1> QED
  BY <1>10, <1>11

\* Every step keeps the order at the replicas, when the clocks never go back.
LEMMA ReplicaOrderStep ==
  ASSUME Monotone, BaseInv, OrderedInTopic, OrderedAtReplica, [Next]_vars
  PROVE  OrderedAtReplica'
<1> SUFFICES ASSUME NEW r \in Owners, NEW o \in Owners
             PROVE  InboxOrdered(r, o)' /\ CacheOrdered(r, o)'
  BY DEF OrderedAtReplica
<1>1. InboxOrdered(r, o) /\ CacheOrdered(r, o)
  BY DEF OrderedAtReplica
<1>2. ASSUME inbox'[r] = <<>>, cache'[r] = EmptyMap
      PROVE  InboxOrdered(r, o)' /\ CacheOrdered(r, o)'
  <2>1. \A k : Held(r, k, o)' = Null
    <3>1. \A k : Held(r, k, o)' = OpinionIn(EmptyMap, k, o)
      BY <1>2 DEF Held, OpinionIn
    <3> QED
      BY <3>1, NothingInEmptyCache
  <2>2. InboxOrdered(r, o)'
    BY <1>2 DEF InboxOrdered
  <2>3. CacheOrdered(r, o)'
    BY <1>2, <2>1 DEF CacheOrdered, AheadOf, NotBehind
  <2> QED
    BY <2>2, <2>3
<1>3. ASSUME connect(r), cache' = cache
      PROVE  InboxOrdered(r, o)' /\ CacheOrdered(r, o)'
  <2>1. inbox[r] = <<>> /\ cache[r] = EmptyMap /\ inbox' = inbox
    BY <1>3 DEF connect, BaseInv, NothingBeforeMapped, Opening
  <2> QED
    BY <1>2, <1>3, <2>1
<1>4. ASSUME processDies(r)
      PROVE  InboxOrdered(r, o)' /\ CacheOrdered(r, o)'
  BY <1>2, <1>4 DEF processDies, crash, BaseInv, TypeOK
<1>5. ASSUME ~connect(r), inbox'[r] = inbox[r], cache'[r] = cache[r]
      PROVE  InboxOrdered(r, o)' /\ CacheOrdered(r, o)'
  BY <1>1, <1>5, ReplicaUntouched
<1>6. ASSUME ~connect(r), NEW p \in Owners, BusStep(p), UNCHANGED mapVars
      PROVE  InboxOrdered(r, o)' /\ CacheOrdered(r, o)'
  <2>1. cache' = cache
    BY <1>6 DEF mapVars
  <2>2. CASE consume(p) /\ p = r
    BY <1>1, <2>1, <2>2, ReplicaConsume
  <2>3. CASE consume(p) /\ p # r
    <3>1. inbox'[r] = inbox[r]
      BY <2>3 DEF consume, BaseInv, TypeOK
    <3> QED
      BY <1>5, <1>6, <2>1, <3>1
  <2>4. CASE ~consume(p)
    <3>1. inbox' = inbox
      BY <1>6, <2>4 DEF BusStep, topicExists, createTopic, connect, subscribeMap,
           autoCommit, onNext, deliver, sendFails, shutdown, consumerShutdown
    <3> QED
      BY <1>5, <1>6, <2>1, <3>1
  <2> QED
    BY <2>2, <2>3, <2>4
<1>7. ASSUME ~connect(r), NEW a \in DOMAIN log, compact(a), UNCHANGED mapVars
      PROVE  InboxOrdered(r, o)' /\ CacheOrdered(r, o)'
  BY <1>5, <1>7 DEF compact, mapVars
<1>8. ASSUME ~connect(r), NEW p \in Owners, onNewOpinion(p)
      PROVE  InboxOrdered(r, o)' /\ CacheOrdered(r, o)'
  <2>1. CASE p = r
    BY <1>1, <1>8, <2>1, ReplicaHandle
  <2>2. CASE p # r
    <3>1. inbox'[r] = inbox[r] /\ cache'[r] = cache[r]
      BY <1>8, <2>2 DEF onNewOpinion, BaseInv, TypeOK
    <3> QED
      BY <1>5, <1>8, <3>1
  <2> QED
    BY <2>1, <2>2
<1>9. ASSUME ~connect(r), NEW p \in Owners, processDies(p)
      PROVE  InboxOrdered(r, o)' /\ CacheOrdered(r, o)'
  <2>1. CASE p = r
    BY <1>4, <1>9, <2>1
  <2>2. CASE p # r
    <3>1. inbox'[r] = inbox[r] /\ cache'[r] = cache[r]
      BY <1>9, <2>2 DEF processDies, crash, BaseInv, TypeOK
    <3> QED
      BY <1>5, <1>9, <3>1
  <2> QED
    BY <2>1, <2>2
<1>10. ASSUME ~connect(r), UNCHANGED vars
       PROVE  InboxOrdered(r, o)' /\ CacheOrdered(r, o)'
  BY <1>5, <1>10 DEF vars, busVars, mapVars
<1>11. CASE connect(r)
  <2>1. cache' = cache \/ \E p \in Owners : onNewOpinion(p) \/ processDies(p)
    BY DEF Next, vars, mapVars
  <2>2. ~(\E p \in Owners : onNewOpinion(p) \/ processDies(p))
    <3> SUFFICES ASSUME NEW p \in Owners, onNewOpinion(p) \/ processDies(p) PROVE FALSE
      OBVIOUS
    <3>1. bus'[r] = "consuming" /\ bus[r] = "connecting"
      BY <1>11 DEF connect, BaseInv, TypeOK
    <3>2. CASE onNewOpinion(p)
      BY <3>1, <3>2 DEF onNewOpinion
    <3>3. CASE processDies(p)
      BY <3>1, <3>3 DEF processDies, crash, BaseInv, TypeOK
    <3> QED
      BY <3>2, <3>3
  <2> QED
    BY <1>3, <1>11, <2>1, <2>2
<1> QED
  BY <1>6, <1>7, <1>8, <1>9, <1>10, <1>11 DEF Next

\* The inductive invariant of replicas whose owners have clocks that never go
\* back.
MonotoneInv == BaseInv /\ OrderedInTopic /\ OrderedAtReplica /\ ReplicasResolve

\* The oldest message of an inbox does not go back behind what the replica holds.
LEMMA HandlesInOrder ==
  ASSUME BaseInv, OrderedAtReplica, NEW r \in Owners, onNewOpinion(r)
  PROVE  LET m == Head(inbox[r]) IN
           m \in Messages /\ NotBehind(m.value, Held(r, m.key, m.owner))
<1> DEFINE m == Head(inbox[r])
<1>1. m \in Messages
  BY HandlerStep DEF BaseInv
<1>2. 1 \in 1..Len(inbox[r]) /\ m = inbox[r][1]
  BY DEF onNewOpinion, BaseInv, TypeOK
<1>3. m.key \in Keys /\ m.owner \in Owners
  BY <1>1 DEF Messages
<1>4. CacheOrdered(r, m.owner)
  BY <1>3 DEF OrderedAtReplica
<1> QED
  BY <1>1, <1>2, <1>3, <1>4 DEF CacheOrdered

\* Every step keeps the winners resolved.
LEMMA ResolveStep ==
  ASSUME MonotoneInv, [Next]_vars
  PROVE  ReplicasResolve'
<1>1. cache \in [Owners -> Caches] /\ winners \in [Owners -> Winners]
  BY DEF MonotoneInv, BaseInv, TypeOK
<1>2. ASSUME UNCHANGED mapVars PROVE ReplicasResolve'
  BY <1>2 DEF MonotoneInv, ReplicasResolve, mapVars
<1>3. ASSUME NEW p \in Owners, processDies(p) PROVE ReplicasResolve'
  <2>1. cache'[p] = EmptyMap /\ winners'[p] = EmptyMap
        /\ \A r \in Owners \ {p} : cache'[r] = cache[r] /\ winners'[r] = winners[r]
    BY <1>1, <1>3 DEF processDies
  <2> QED
    BY <2>1, NothingResolved DEF MonotoneInv, ReplicasResolve
<1>4. ASSUME NEW p \in Owners, onNewOpinion(p) PROVE ReplicasResolve'
  <2> DEFINE m == Head(inbox[p])
             c == cache[p]
             after == IF m.value = Null THEN Removal(c, winners[p], m)
                                        ELSE Addition(c, winners[p], m)
  <2>1. c \in Caches /\ winners[p] = Resolved(c)
    BY <1>1 DEF MonotoneInv, ReplicasResolve
  <2>2. m \in Messages /\ NotBehind(m.value, OpinionIn(c, m.key, m.owner))
    BY <1>4, HandlesInOrder, HeldInCache DEF MonotoneInv
  <2>3. cache' = [cache EXCEPT ![p] = after.cache]
        /\ winners' = [winners EXCEPT ![p] = after.winners]
    BY <1>4 DEF onNewOpinion
  <2> HIDE DEF m, c
  <2>4. after.winners = Resolved(after.cache)
    <3>1. CASE m.value = Null
      BY <2>1, <2>2, <3>1, RemovalResolves
    <3>2. CASE m.value # Null
      BY <2>1, <2>2, <3>2, AdditionResolves
    <3> QED
      BY <3>1, <3>2
  <2> HIDE DEF after
  <2> QED
    BY <1>1, <2>3, <2>4 DEF MonotoneInv, ReplicasResolve
<1> QED
  BY <1>2, <1>3, <1>4 DEF Next, vars

\* The invariant of the monotone case.
LEMMA MonotoneCorrect ==
  ASSUME Monotone
  PROVE  Spec => []MonotoneInv
<1>1. Init => MonotoneInv
  <2> SUFFICES ASSUME Init PROVE MonotoneInv
    OBVIOUS
  <2>1. /\ log = <<>>
        /\ \A o \in Owners : /\ sending[o] = <<>> /\ inbox[o] = <<>>
                             /\ cache[o] = EmptyMap /\ winners[o] = EmptyMap
    BY DEF Init, BusInit
  <2>2. OrderedInTopic
    BY <2>1 DEF OrderedInTopic, TopicOrdered, QueueOrdered, QueueAheadOfTopic,
                ClockAheadOfQueue, ClockAheadOfTopic
  <2>3. OrderedAtReplica
    BY <2>1, NothingOrdered DEF OrderedAtReplica
  <2>4. ReplicasResolve
    BY <2>1, NothingResolved DEF ReplicasResolve
  <2> QED
    BY <2>2, <2>3, <2>4, BaseInit DEF MonotoneInv
<1>2. MonotoneInv /\ [Next]_vars => MonotoneInv'
  BY BaseStep, OrderStep, ReplicaOrderStep, ResolveStep DEF MonotoneInv
<1> QED
  BY <1>1, <1>2, PTL DEF Spec

\* ReplicasResolve: when the values an owner puts never go back, every replica
\* exposes the winners among the opinions it holds, whatever it missed and
\* whatever was compacted away (onOpinionAddition, onOpinionRemoval).
THEOREM ReplicasAlwaysResolve ==
  ASSUME Monotone
  PROVE  Spec => []ReplicasResolve
<1>1. MonotoneInv => ReplicasResolve
  BY DEF MonotoneInv
<1> QED
  BY <1>1, MonotoneCorrect, PTL

\* NoRegression: when the values an owner puts never go back, its opinion never
\* goes back at a replica: the bus keeps the order of an owner's messages from
\* the producer to the handler, across compactions and restarts.
THEOREM OpinionsNeverGoBack ==
  ASSUME Monotone
  PROVE  Spec => NoRegression
<1> DEFINE Step == \A r, o \in Owners, k \in Keys :
                     (mapped'[r] /\ Held(r, k, o) # Null /\ Held(r, k, o)' # Null)
                       => crStrategy(Held(r, k, o)', Held(r, k, o)) >= 0
<1>1. ASSUME MonotoneInv, [Next]_vars
      PROVE  [Step]_vars
  <2> SUFFICES ASSUME NEW r \in Owners, NEW o \in Owners, NEW k \in Keys,
                      mapped'[r], Held(r, k, o) # Null, Held(r, k, o)' # Null
               PROVE  crStrategy(Held(r, k, o)', Held(r, k, o)) >= 0
    OBVIOUS
  <2>1. cache \in [Owners -> Caches] /\ mapped \in [Owners -> BOOLEAN]
    BY <1>1 DEF MonotoneInv, BaseInv, TypeOK
  <2>2. Held(r, k, o) \in Values
    <3>1. OpinionIn(cache[r], k, o) \in Values \cup {Null}
      BY <2>1, OpinionInType
    <3> QED
      BY <3>1, HeldInCache
  <2>3. ASSUME cache'[r] = cache[r]
        PROVE  crStrategy(Held(r, k, o)', Held(r, k, o)) >= 0
    <3>1. Held(r, k, o)' = Held(r, k, o)
      BY <2>3 DEF Held
    <3> QED
      BY <2>2, <3>1, OrderingReflexive
  <2>4. ASSUME NEW p \in Owners, processDies(p)
        PROVE  crStrategy(Held(r, k, o)', Held(r, k, o)) >= 0
    <3>1. p # r
      BY <2>1, <2>4 DEF processDies, crash
    <3>2. cache'[r] = cache[r]
      BY <2>1, <2>4, <3>1 DEF processDies
    <3> QED
      BY <2>3, <3>2
  <2>5. ASSUME NEW p \in Owners, onNewOpinion(p)
        PROVE  crStrategy(Held(r, k, o)', Held(r, k, o)) >= 0
    <3> DEFINE m == Head(inbox[p])
    <3>1. PICK c \in Caches :
            /\ cache' = [cache EXCEPT ![p] = c]
            /\ \A x \in Keys, q \in Owners : OpinionIn(c, x, q) =
                 IF x = m.key /\ q = m.owner THEN m.value ELSE OpinionIn(cache[p], x, q)
      BY <1>1, <2>5, HandlerStep DEF MonotoneInv, BaseInv
    <3>2. NotBehind(m.value, Held(p, m.key, m.owner))
      BY <1>1, <2>5, HandlesInOrder DEF MonotoneInv
    <3> HIDE DEF m
    <3>3. CASE p # r
      BY <2>1, <2>3, <3>1, <3>3
    <3>4. CASE p = r
      <4>1. cache'[r] = c
        BY <2>1, <3>1, <3>4
      <4>2. Held(r, k, o)' = OpinionIn(c, k, o)
        BY <4>1 DEF Held, OpinionIn
      <4>3. CASE k = m.key /\ o = m.owner
        <5>1. Held(r, k, o)' = m.value
          BY <3>1, <4>2, <4>3
        <5> QED
          BY <3>2, <3>4, <4>3, <5>1 DEF NotBehind
      <4>4. CASE ~(k = m.key /\ o = m.owner)
        <5>1. Held(r, k, o)' = Held(r, k, o)
          BY <3>1, <3>4, <4>2, <4>4, HeldInCache
        <5> QED
          BY <2>2, <5>1, OrderingReflexive
      <4> QED
        BY <4>3, <4>4
    <3> QED
      BY <3>3, <3>4
  <2>6. UNCHANGED mapVars => cache'[r] = cache[r]
    BY DEF mapVars
  <2> QED
    BY <1>1, <2>3, <2>4, <2>5, <2>6 DEF Next, vars
<1>2. MonotoneInv /\ [Next]_vars => [Step]_vars
  BY <1>1
<1> QED
  BY <1>2, MonotoneCorrect, PTL DEF Spec, NoRegression

\* Two replicas that have handled the whole topic expose the same winners.
CaughtUpAgree ==
  \A r, s \in Owners : CaughtUp(r) /\ CaughtUp(s) => winners[r] = winners[s]

\* The safety half of EventuallyAgree: with the barriers, clocks that never go
\* back and no process killed, any two replicas that have come to the end of the
\* topic expose the same winners, each whatever compaction left of the topic for
\* it to read, and whatever sends failed.
THEOREM ReplicasAgree ==
  ASSUME Monotone, Barriered, MaxCrashes = 0
  PROVE  Spec => []CaughtUpAgree
<1>1. MonotoneInv /\ ReadsAllMessages => CaughtUpAgree
  <2> SUFFICES ASSUME MonotoneInv, ReadsAllMessages, NEW r \in Owners, NEW s \in Owners,
                      CaughtUp(r), CaughtUp(s)
               PROVE  winners[r] = winners[s]
    BY DEF CaughtUpAgree
  <2>1. cache[r] \in Caches /\ cache[s] \in Caches
    BY DEF MonotoneInv, BaseInv, TypeOK
  <2>2. \A k \in Keys, o \in Owners : Held(r, k, o) = Held(s, k, o)
    BY DEF ReadsAllMessages
  <2>3. \A k \in Keys, o \in Owners : OpinionIn(cache[r], k, o) = OpinionIn(cache[s], k, o)
    BY <2>2, HeldInCache
  <2>4. Resolved(cache[r]) = Resolved(cache[s])
    BY <2>1, <2>3, SameOpinionsSameWinners
  <2> QED
    BY <2>4 DEF MonotoneInv, ReplicasResolve
<1> QED
  BY <1>1, MonotoneCorrect, ReadsWholeTopic, PTL
=============================================================================
